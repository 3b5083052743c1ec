--------------------------- MODULE StateStoreProofs ---------------------------
(* The state store for any keys, values, operators, backups and bounds.     *)
EXTENDS StateStore, TLAPS

RedisType ==
  [meta : BOOLEAN, data : Settings, index : SUBSET Overrides, health : 0..MaxFlushes]

FileType == [is : {"none", "truncated", "torn", "document"}, doc : Document]

TaskType ==
  [at : Places, op : {"none", "put", "import", "reset", "flush", "seed", "refill"},
   key : Keys \cup {None}, value : Values \cup {None}, doc : Document, copy : Document,
   scan : SUBSET (Overrides \cup Containers),
   handle : {"none", "temp", "path", "gone"}, alone : BOOLEAN]

Saving == {"fallback", "clone", "compare", "write", "rename"}

(* Where each kind of task can be, and what it carries there.              *)
Operating(q) ==
  /\ q.at \in {"idle", "primary", "scanned"} \cup Saving
  /\ q.op \in {"none", "put", "import", "reset"}
  /\ q.op = "none" <=> q.at = "idle"
  /\ q.op = "none" => ~q.alone
  /\ q.op = "put" => q.key \in Keys /\ q.at # "scanned"
  /\ q.op = "reset" => q.doc = EmptyDocument

Flushing(q) ==
  /\ q.at \in {"idle", "mirror"} \cup Saving
  /\ q.op = "none" <=> q.at = "idle"
  /\ q.op \in {"none", "flush"}

Reconnecting(q) ==
  /\ q.at \in {"idle", "export", "seed", "refill", "scanned", "publish"}
  /\ q.op \in {"none", "seed", "refill"}
  /\ q.op = "none" <=> q.at = "idle"
  /\ q.at \in {"seed", "scanned"} => q.op = "seed"

RoleOK(t, q) ==
  /\ t \in Operators => Operating(q)
  /\ t = Flusher => Flushing(q)
  /\ t = Reconnector => Reconnecting(q)

StoreTypes ==
  /\ redis \in RedisType
  /\ connected \in BOOLEAN
  /\ local \in Document
  /\ path \in FileType /\ temp \in FileType
  /\ task \in [Tasks -> TaskType]
  /\ \A t \in Tasks : RoleOK(t, task[t])
  /\ owed \in [Keys -> Values \cup {None, Anything}]
  /\ reached \in [Keys -> SUBSET Values]

(* Every value in a document was in Redis once.                            *)
Traced(doc, had) == \A k \in Keys : doc.data[k] \in had[k] \cup {None}

(* The documents in memory, in the files and in a writer's hands hold what *)
(* Redis had, and so does a call that Redis has taken and that is about to *)
(* be repeated on the local document.                                      *)
TraceInv ==
  /\ Traced(local, reached) /\ Traced(path.doc, reached) /\ Traced(temp.doc, reached)
  /\ \A t \in Tasks : Traced(task[t].copy, reached)
  /\ \A t \in Operators : task[t].at = "fallback" =>
       /\ task[t].op = "put" => task[t].value \in reached[task[t].key] \cup {None}
       /\ task[t].op \in {"import", "reset"} => Traced(task[t].doc, reached)

(* What a call asks for a key.                                             *)
Wanted(q, k) == IF q.op = "put" THEN q.value ELSE q.doc.data[k]

TouchesKey(q, k) == q.op \in {"import", "reset"} \/ (q.op = "put" /\ q.key = k)

AckInv ==
  /\ AcknowledgedIsKept
  \* nothing is owed for a key that a call under way writes
  /\ \A t \in Operators, k \in Keys : Touches(t, k) => owed[k] = Anything
  \* a call that is alone shares no key with another one,
  /\ \A t, u \in Operators, k \in Keys :
       t # u /\ task[t].alone /\ Touches(t, k) => ~Touches(u, k)
  \* finds what it deletes in its scan,
  /\ \A t \in Operators : task[t].alone /\ task[t].at = "scanned" =>
       /\ \A k \in Overrides : redis.data[k] # None => k \in task[t].scan
       /\ (\E k \in AutoChains : redis.data[k] # None) => "auto" \in task[t].scan
  \* and once it has been to Redis finds there what it asked for
  /\ \A t \in Operators, k \in Keys :
       task[t].alone /\ task[t].at \in Saving /\ Touches(t, k) =>
         Visible(redis)[k] = Wanted(task[t], k)
  \* no call begins while the connection is being made,
  /\ task[Reconnector].at # "idle" => ~connected
  \* and when the namespace is seeded nothing is owed and nobody is alone
  /\ task[Reconnector].op = "seed" =>
       /\ \A k \in Keys : owed[k] = Anything
       /\ \A t \in Operators : ~task[t].alone

StoreInv == StoreTypes /\ TraceInv /\ AckInv

-----------------------------------------------------------------------------
(* The operators on Redis. *)

LEMMA Empty == /\ EmptyDocument \in Document
               /\ \A k \in Keys : EmptyDocument.data[k] = None
               /\ Idle \in TaskType /\ \A t \in Tasks : RoleOK(t, Idle)
               /\ \A kind \in {"none", "truncated", "torn"} :
                    Broken(kind) \in FileType /\ Broken(kind).doc = EmptyDocument
<1>1. EmptyDocument \in Document /\ \A k \in Keys : EmptyDocument.data[k] = None
  BY StoreAssumption DEF EmptyDocument, Document, Settings
<1>2. Idle \in TaskType
  BY <1>1 DEF Idle, TaskType, Places
<1>3. Idle.at = "idle" /\ Idle.op = "none" /\ Idle.alone = FALSE
  BY DEF Idle
<1>4. \A t \in Tasks : RoleOK(t, Idle)
  BY <1>3 DEF RoleOK, Operating, Flushing, Reconnecting
<1>5. \A kind \in {"none", "truncated", "torn"} :
        Broken(kind) \in FileType /\ Broken(kind).doc = EmptyDocument
  BY <1>1 DEF Broken, FileType
<1>. QED
  BY <1>1, <1>2, <1>4, <1>5

LEMMA VisibleType ==
  ASSUME NEW r \in RedisType
  PROVE  /\ Visible(r) \in Settings
         /\ \A k \in Keys : Visible(r)[k] = IF k \in Overrides /\ k \notin r.index
                                           THEN None ELSE r.data[k]
BY DEF Visible, RedisType, Settings

(* Redis answers the same as long as the settings and the index are kept.  *)
LEMMA SameVisible ==
  ASSUME NEW r, NEW n, n.data = r.data, n.index = r.index
  PROVE  Visible(n) = Visible(r)
BY DEF Visible

LEMMA WithKeyIs ==
  ASSUME NEW r \in RedisType, NEW k \in Keys, NEW v \in Values \cup {None}
  PROVE  /\ WithKey(r, k, v) \in RedisType
         /\ Visible(WithKey(r, k, v))[k] = v
         /\ \A j \in Keys \ {k} : /\ Visible(WithKey(r, k, v))[j] = Visible(r)[j]
                                 /\ WithKey(r, k, v).data[j] = r.data[j]
<1>. DEFINE n == WithKey(r, k, v)
            index == IF k \notin Overrides THEN r.index
                     ELSE IF v = None THEN r.index \ {k} ELSE r.index \cup {k}
<1>1. /\ n = [r EXCEPT !.data = [r.data EXCEPT ![k] = v], !.index = index]
      /\ r.data \in Settings /\ r.index \in SUBSET Overrides
  BY DEF WithKey, RedisType
<1>2. [r.data EXCEPT ![k] = v] \in Settings /\ index \in SUBSET Overrides
  BY <1>1 DEF Settings
<1>3. /\ n.data = [r.data EXCEPT ![k] = v] /\ n.index = index
      /\ n \in RedisType
  <2>. HIDE DEF index, n
  <2>. QED
    BY <1>1, <1>2 DEF RedisType
<1>4. n.data[k] = v /\ \A j \in Keys \ {k} : n.data[j] = r.data[j]
  BY <1>1, <1>3 DEF Settings
<1>5. k \in Overrides => (k \in n.index <=> v # None)
  BY <1>3
<1>6. \A j \in Overrides \ {k} : j \in n.index <=> j \in r.index
  BY <1>3
<1>. HIDE DEF n
<1>7. Visible(n)[k] = v
  BY <1>3, <1>4, <1>5, VisibleType
<1>8. \A j \in Keys \ {k} : Visible(n)[j] = Visible(r)[j]
  BY <1>3, <1>4, <1>6, VisibleType
<1>. QED
  BY <1>3, <1>4, <1>7, <1>8 DEF n

LEMMA WithHealthIs ==
  ASSUME NEW r \in RedisType, NEW h \in 0..MaxFlushes
  PROVE  /\ WithHealth(r, h) \in RedisType
         /\ WithHealth(r, h).data = r.data /\ WithHealth(r, h).index = r.index
         /\ Seeded(r) \in RedisType
         /\ Seeded(r).data = r.data /\ Seeded(r).index = r.index
BY DEF WithHealth, Seeded, RedisType

LEMMA ImportedIs ==
  ASSUME NEW r \in RedisType, NEW scan, NEW doc \in Document
  PROVE  LET n == Imported(r, scan, doc)
         IN  /\ n \in RedisType
             /\ \A k \in Keys : doc.data[k] # None => Visible(n)[k] = doc.data[k]
             /\ \A k \in Keys : doc.data[k] = None =>
                  n.data[k] = IF k \in scan \/ (k \in AutoChains /\ "auto" \in scan)
                              THEN None ELSE r.data[k]
<1>. DEFINE n == Imported(r, scan, doc)
<1>1. /\ n.data = [k \in Keys |->
           IF doc.data[k] # None THEN doc.data[k]
           ELSE IF k \in scan \/ (k \in AutoChains /\ "auto" \in scan) THEN None ELSE r.data[k]]
      /\ n.index = (IF "index" \in scan THEN {} ELSE r.index)
                     \cup {k \in Overrides : doc.data[k] # None}
      /\ n.health = (IF doc.health > 0 THEN doc.health ELSE IF "health" \in scan THEN 0 ELSE r.health)
  BY DEF Imported
<1>2. n.data \in Settings
  <2>1. \A k \in Keys : doc.data[k] \in Values \cup {None} /\ r.data[k] \in Values \cup {None}
    BY DEF Document, Settings, RedisType
  <2>. QED
    BY <1>1, <2>1 DEF Settings
<1>3. n.index \in SUBSET Overrides
  BY <1>1 DEF RedisType
<1>4. n.health \in 0..MaxFlushes
  BY <1>1, StoreAssumption DEF Document, RedisType
<1>5. n = [data |-> n.data, index |-> n.index, health |-> n.health, meta |-> TRUE]
  BY DEF Imported
<1>6. n \in RedisType
  <2>1. ASSUME NEW d \in Settings, NEW i \in SUBSET Overrides, NEW h \in 0..MaxFlushes
        PROVE  [data |-> d, index |-> i, health |-> h, meta |-> TRUE] \in RedisType
    BY DEF RedisType
  <2>2. [data |-> n.data, index |-> n.index, health |-> n.health, meta |-> TRUE] \in RedisType
    <3>. HIDE DEF n
    <3>. QED
      BY <1>2, <1>3, <1>4, <2>1
  <2>. HIDE DEF n
  <2>. QED
    BY <1>5, <2>2
<1>7. \A k \in Overrides : doc.data[k] # None => k \in n.index
  BY <1>1
<1>8. \A k \in Keys : doc.data[k] # None => n.data[k] = doc.data[k]
  BY <1>1
<1>9. \A k \in Keys : doc.data[k] # None => Visible(n)[k] = doc.data[k]
  <2>. HIDE DEF n
  <2>. QED
    BY <1>6, <1>7, <1>8, VisibleType
<1>10. \A k \in Keys : doc.data[k] = None =>
         n.data[k] = IF k \in scan \/ (k \in AutoChains /\ "auto" \in scan)
                     THEN None ELSE r.data[k]
  BY <1>1
<1>. QED
  BY <1>6, <1>9, <1>10

LEMMA WipedIs ==
  ASSUME NEW r \in RedisType, NEW scan
  PROVE  /\ Wiped(r, scan) \in RedisType
         /\ Wiped(r, scan).data = Imported(r, scan, EmptyDocument).data
         /\ Wiped(r, scan).index = Imported(r, scan, EmptyDocument).index
<1>. DEFINE n == Imported(r, scan, EmptyDocument)
            meta == r.meta /\ "meta" \notin scan
<1>1. n \in RedisType
  BY ImportedIs, Empty
<1>2. meta \in BOOLEAN /\ Wiped(r, scan) = [n EXCEPT !.meta = meta]
  BY DEF Wiped
<1>. HIDE DEF n, meta
<1>. QED
  BY <1>1, <1>2 DEF RedisType, n

(* A call that has the namespace for itself finds all it has to delete.    *)
LEMMA ReplacedIs ==
  ASSUME NEW r \in RedisType, NEW scan, NEW doc \in Document, NEW k \in Keys,
         \A j \in Overrides : r.data[j] # None => j \in scan,
         (\E j \in AutoChains : r.data[j] # None) => "auto" \in scan
  PROVE  Visible(Imported(r, scan, doc))[k] = doc.data[k]
<1>. DEFINE n == Imported(r, scan, doc)
<1>1. CASE doc.data[k] # None
  BY <1>1, ImportedIs
<1>2. CASE doc.data[k] = None
  <2>1. n \in RedisType
    BY ImportedIs
  <2>2. n.data[k] = IF k \in scan \/ (k \in AutoChains /\ "auto" \in scan)
                    THEN None ELSE r.data[k]
    BY <1>2, ImportedIs
  <2>3. n.data[k] = None
    <3>1. k \in Overrides \/ k \in AutoChains
      BY DEF Keys
    <3>. HIDE DEF n
    <3>. QED
      BY <2>2, <3>1
  <2>. HIDE DEF n
  <2>4. Visible(n)[k] = None
    BY <2>1, <2>3, VisibleType
  <2>. QED
    BY <1>2, <2>4 DEF n
<1>. QED
  BY <1>1, <1>2

LEMMA ScanType ==
  ASSUME NEW r \in RedisType
  PROVE  /\ Scan(r) \in SUBSET (Overrides \cup Containers)
         /\ \A k \in Overrides : r.data[k] # None => k \in Scan(r)
         /\ (\E k \in AutoChains : r.data[k] # None) => "auto" \in Scan(r)
BY DEF Scan, Containers

(* What Redis ever had only grows, and has what it answers now.            *)
LEMMA SeenGrows ==
  ASSUME StoreTypes, NEW r \in RedisType, reached' = Seen(r)
  PROVE  /\ reached' \in [Keys -> SUBSET Values]
         /\ \A k \in Keys : reached[k] \subseteq reached'[k]
         /\ \A k \in Keys : Visible(r)[k] \in reached'[k] \cup {None}
<1>1. \A k \in Keys : Visible(r)[k] \in Values \cup {None} /\ reached[k] \in SUBSET Values
  BY VisibleType DEF StoreTypes, Settings
<1>2. reached' = [k \in Keys |-> reached[k] \cup ({Visible(r)[k]} \ {None})]
  BY DEF Seen
<1>. QED
  BY <1>1, <1>2

-----------------------------------------------------------------------------
(* What the steps have in common. *)

LEMMA Roles ==
  /\ Tasks = Operators \cup {Flusher, Reconnector}
  /\ Flusher \notin Operators /\ Reconnector \notin Operators /\ Flusher # Reconnector
BY StoreAssumption DEF Tasks

LEMMA OneTaskSteps ==
  ASSUME StoreTypes, NEW t \in Tasks, NEW q \in TaskType, RoleOK(t, q),
         task' = [task EXCEPT ![t] = q]
  PROVE  /\ task' \in [Tasks -> TaskType]
         /\ \A u \in Tasks : RoleOK(u, task'[u])
         /\ task'[t] = q
         /\ \A u \in Tasks \ {t} : task'[u] = task[u]
BY DEF StoreTypes

(* A call goes on with what it carries, or is over.                        *)
Continues(p, q) ==
  \/ q.op = "none" /\ ~q.alone
  \/ /\ q.op = p.op /\ q.key = p.key /\ q.value = p.value /\ q.doc = p.doc
     /\ q.alone => p.alone
     /\ q.at = "scanned" => p.at = "scanned" /\ q.scan = p.scan
     /\ q.at \in Saving => p.at \in Saving

ReconnectorApart ==
  /\ task[Reconnector].at # "idle" => ~connected
  /\ task[Reconnector].op = "seed" =>
       /\ \A k \in Keys : owed[k] = Anything
       /\ \A t \in Operators : ~task[t].alone

(* Nothing that is owed or about to be is put at risk by a step that       *)
(* leaves the settings in Redis alone and begins no call.                  *)
LEMMA CalmAck ==
  ASSUME AckInv, \A t \in Operators : Continues(task[t], task'[t]),
         Visible(redis') = Visible(redis), redis'.data = redis.data,
         owed' = owed, ReconnectorApart'
  PROVE  AckInv'
<1>1. AcknowledgedIsKept'
  BY DEF AckInv, AcknowledgedIsKept
<1>2. \A t \in Operators, k \in Keys :
        TouchesKey(task'[t], k) => /\ TouchesKey(task[t], k)
                                   /\ Wanted(task'[t], k) = Wanted(task[t], k)
                                   /\ task'[t].alone => task[t].alone
                                   /\ task'[t].at \in Saving => task[t].at \in Saving
  BY DEF Continues, TouchesKey, Wanted
<1>3. \A t \in Operators, k \in Keys : TouchesKey(task'[t], k) => owed'[k] = Anything
  BY <1>2 DEF AckInv, Touches, TouchesKey
<1>4. \A t, u \in Operators, k \in Keys :
        t # u /\ task'[t].alone /\ TouchesKey(task'[t], k) => ~TouchesKey(task'[u], k)
  BY <1>2 DEF AckInv, Touches, TouchesKey
<1>5. \A t \in Operators : task'[t].alone /\ task'[t].at = "scanned" =>
        /\ task[t].alone /\ task[t].at = "scanned"
        /\ task'[t].scan = task[t].scan
  BY DEF Continues
<1>6. \A t \in Operators : task'[t].alone /\ task'[t].at = "scanned" =>
        /\ \A k \in Overrides : redis'.data[k] # None => k \in task'[t].scan
        /\ (\E k \in AutoChains : redis'.data[k] # None) => "auto" \in task'[t].scan
  BY <1>5 DEF AckInv
<1>7. \A t \in Operators, k \in Keys :
        task'[t].alone /\ task'[t].at \in Saving /\ TouchesKey(task'[t], k) =>
          Visible(redis')[k] = Wanted(task'[t], k)
  BY <1>2 DEF AckInv, Touches, TouchesKey
<1>. QED
  BY <1>1, <1>3, <1>4, <1>6, <1>7 DEF AckInv, ReconnectorApart, Touches, TouchesKey

(* No trace is left by a step that passes documents on.                    *)
LEMMA TraceKept ==
  ASSUME TraceInv, \A k \in Keys : reached[k] \subseteq reached'[k],
         \A d \in {local', path'.doc, temp'.doc} :
            \/ d \in {local, path.doc, temp.doc, EmptyDocument}
            \/ Traced(d, reached')
            \/ \E u \in Tasks : d = task[u].copy,
         \A u \in Tasks : task'[u].copy \in {task[u].copy, local, EmptyDocument},
         \A u \in Operators : task'[u].at = "fallback" =>
            \/ /\ task[u].at = "fallback" /\ task'[u].op = task[u].op
               /\ task'[u].key = task[u].key /\ task'[u].value = task[u].value
               /\ task'[u].doc = task[u].doc
               /\ task[u].op = "put" => task[u].key \in Keys
            \/ /\ task'[u].op = "put" =>
                    task'[u].value \in reached'[task'[u].key] \cup {None}
               /\ task'[u].op \in {"import", "reset"} => Traced(task'[u].doc, reached')
  PROVE  TraceInv'
<1>1. \A d : Traced(d, reached) => Traced(d, reached')
  BY DEF Traced
<1>2. Traced(EmptyDocument, reached')
  BY Empty DEF Traced
<1>3. \A d \in {local', path'.doc, temp'.doc} : Traced(d, reached')
  BY <1>1, <1>2 DEF TraceInv
<1>4. \A u \in Tasks : Traced(task'[u].copy, reached')
  BY <1>1, <1>2 DEF TraceInv
<1>5. \A u \in Operators : task'[u].at = "fallback" =>
        /\ task'[u].op = "put" => task'[u].value \in reached'[task'[u].key] \cup {None}
        /\ task'[u].op \in {"import", "reset"} => Traced(task'[u].doc, reached')
  <2>. SUFFICES ASSUME NEW u \in Operators, task'[u].at = "fallback"
                PROVE  /\ task'[u].op = "put" =>
                            task'[u].value \in reached'[task'[u].key] \cup {None}
                       /\ task'[u].op \in {"import", "reset"} =>
                            Traced(task'[u].doc, reached')
    OBVIOUS
  <2>1. CASE /\ task[u].at = "fallback" /\ task'[u].op = task[u].op
             /\ task'[u].key = task[u].key /\ task'[u].value = task[u].value
             /\ task'[u].doc = task[u].doc
             /\ task[u].op = "put" => task[u].key \in Keys
    <3>1. /\ task[u].op = "put" => task[u].value \in reached[task[u].key] \cup {None}
          /\ task[u].op \in {"import", "reset"} => Traced(task[u].doc, reached)
      BY <2>1 DEF TraceInv
    <3>. QED
      BY <1>1, <2>1, <3>1
  <2>. QED
    BY <2>1
<1>. QED
  BY <1>3, <1>4, <1>5 DEF TraceInv

LEMMA CalmStep ==
  ASSUME StoreTypes, AckInv, NEW t \in Tasks \ {Reconnector}, NEW q \in TaskType,
         RoleOK(t, q), Continues(task[t], q), task' = [task EXCEPT ![t] = q],
         Visible(redis') = Visible(redis), redis'.data = redis.data,
         owed' = owed, connected' => connected
  PROVE  AckInv'
<1>1. /\ task'[t] = q /\ \A u \in Tasks \ {t} : task'[u] = task[u]
  BY OneTaskSteps
<1>2. \A u \in Operators : Continues(task[u], task'[u])
  BY <1>1, Roles DEF Continues
<1>3. task'[Reconnector] = task[Reconnector]
  BY <1>1, Roles
<1>4. \A u \in Operators : task'[u].alone => task[u].alone
  BY <1>2 DEF Continues
<1>5. ReconnectorApart'
  BY <1>3, <1>4 DEF AckInv, ReconnectorApart
<1>. QED
  BY <1>2, <1>5, CalmAck

(* A call that writes a key has what was owed for it forgotten, and the    *)
(* calls that are alone are about other keys.                              *)
LEMMA PutAck ==
  ASSUME StoreTypes, AckInv, NEW t \in Operators, task[t].op = "put",
         NEW q \in TaskType, RoleOK(t, q), task' = [task EXCEPT ![t] = q],
         redis' = WithKey(redis, task[t].key, task[t].value),
         owed' = owed, connected' => connected,
         \/ q.op = "none"
         \/ /\ q.op = "put" /\ q.key = task[t].key /\ q.value = task[t].value
            /\ q.alone = task[t].alone /\ q.at = "fallback"
  PROVE  AckInv'
<1>. DEFINE k0 == task[t].key
<1>1. /\ t \in Tasks /\ task[t] \in TaskType /\ k0 \in Keys /\ redis \in RedisType
      /\ task[t].value \in Values \cup {None}
      /\ \A u \in Operators : Operating(task[u])
  BY Roles DEF StoreTypes, RoleOK, Operating, TaskType
<1>2. /\ task'[t] = q /\ \A u \in Tasks \ {t} : task'[u] = task[u]
  BY <1>1, OneTaskSteps
<1>3. /\ Visible(redis')[k0] = task[t].value
      /\ \A j \in Keys \ {k0} : Visible(redis')[j] = Visible(redis)[j]
  BY <1>1, WithKeyIs
<1>4. owed[k0] = Anything /\ Touches(t, k0)
  BY <1>1 DEF AckInv, Touches
<1>5. q.op = "none" => ~q.alone
  BY DEF RoleOK, Operating
<1>6. \A u \in Operators, k \in Keys : TouchesKey(task'[u], k) => TouchesKey(task[u], k)
  BY <1>2, Roles DEF TouchesKey
<1>7. \A u \in Operators : task'[u].alone => task[u].alone
  BY <1>2, <1>5, Roles
<1>8. \A u \in Operators \ {t} : task[u].alone => ~Touches(u, k0)
  BY <1>1, <1>4 DEF AckInv
<1>9. AcknowledgedIsKept'
  BY <1>3, <1>4 DEF AckInv, AcknowledgedIsKept
<1>10. \A u \in Operators, k \in Keys : TouchesKey(task'[u], k) => owed'[k] = Anything
  BY <1>6 DEF AckInv, Touches, TouchesKey
<1>11. \A v, u \in Operators, k \in Keys :
         v # u /\ task'[v].alone /\ TouchesKey(task'[v], k) => ~TouchesKey(task'[u], k)
  BY <1>6, <1>7 DEF AckInv, Touches, TouchesKey
<1>12. \A u \in Operators : ~(task'[u].alone /\ task'[u].at = "scanned")
  <2>. SUFFICES ASSUME NEW u \in Operators, task'[u].alone, task'[u].at = "scanned"
                PROVE  FALSE
    OBVIOUS
  <2>1. u # t
    BY <1>2, <1>5
  <2>2. task[u].alone /\ task[u].at = "scanned"
    BY <1>2, <2>1, Roles
  <2>3. task[u].op \in {"import", "reset"}
    BY <1>1, <2>2 DEF Operating
  <2>. QED
    BY <1>8, <2>1, <2>2, <2>3 DEF Touches
<1>13. \A u \in Operators, k \in Keys :
         task'[u].alone /\ task'[u].at \in Saving /\ TouchesKey(task'[u], k) =>
           Visible(redis')[k] = Wanted(task'[u], k)
  <2>. SUFFICES ASSUME NEW u \in Operators, NEW k \in Keys,
                       task'[u].alone, task'[u].at \in Saving, TouchesKey(task'[u], k)
                PROVE  Visible(redis')[k] = Wanted(task'[u], k)
    OBVIOUS
  <2>1. CASE u = t
    BY <1>2, <1>3, <1>5, <2>1 DEF TouchesKey, Wanted
  <2>2. CASE u # t
    <3>1. task'[u] = task[u] /\ k # k0
      BY <1>2, <1>7, <1>8, <2>2, Roles DEF Touches, TouchesKey
    <3>2. Visible(redis)[k] = Wanted(task[u], k)
      BY <3>1 DEF AckInv, Touches, TouchesKey
    <3>. QED
      BY <1>3, <3>1, <3>2
  <2>. QED
    BY <2>1, <2>2
<1>14. task'[Reconnector] = task[Reconnector]
  BY <1>2, Roles
<1>15. ReconnectorApart'
  BY <1>7, <1>14 DEF AckInv, ReconnectorApart
<1>. QED
  BY <1>9, <1>10, <1>11, <1>12, <1>13, <1>15 DEF AckInv, ReconnectorApart, Touches, TouchesKey

(* An import or reset has everything that was owed forgotten, and if it is *)
(* alone it leaves in Redis what it asked for.                             *)
LEMMA ReplaceAck ==
  ASSUME StoreTypes, AckInv, NEW t \in Operators, task[t].at = "scanned",
         task[t].op \in {"import", "reset"},
         NEW q \in TaskType, RoleOK(t, q), task' = [task EXCEPT ![t] = q],
         redis' = IF task[t].op = "import" THEN Imported(redis, task[t].scan, task[t].doc)
                                           ELSE Wiped(redis, task[t].scan),
         owed' = owed, connected' => connected,
         \/ q.op = "none"
         \/ /\ q.op = task[t].op /\ q.doc = task[t].doc /\ q.alone = task[t].alone
            /\ q.at = "fallback"
  PROVE  AckInv'
<1>1. /\ t \in Tasks /\ task[t] \in TaskType /\ redis \in RedisType
      /\ task[t].doc \in Document
      /\ \A u \in Operators : Operating(task[u])
  BY Roles DEF StoreTypes, RoleOK, TaskType
<1>2. /\ task'[t] = q /\ \A u \in Tasks \ {t} : task'[u] = task[u]
  BY <1>1, OneTaskSteps
<1>0. q.op = "none" => ~q.alone
  BY DEF RoleOK, Operating
<1>3. \A k \in Keys : Touches(t, k) /\ owed[k] = Anything
  BY DEF AckInv, Touches
<1>4. \A u \in Operators, k \in Keys : TouchesKey(task'[u], k) => TouchesKey(task[u], k)
  BY <1>2, Roles DEF TouchesKey
<1>5. \A u \in Operators : task'[u].alone => task[u].alone
  BY <1>0, <1>2, Roles
<1>6. \A u \in Operators \ {t}, k \in Keys : task[u].alone => ~Touches(u, k)
  BY <1>3 DEF AckInv
<1>7. \A v, u \in Operators, k \in Keys :
         v # u /\ task'[v].alone /\ TouchesKey(task'[v], k) => ~TouchesKey(task'[u], k)
  BY <1>4, <1>5 DEF AckInv, Touches, TouchesKey
<1>8. \A u \in Operators : task'[u].alone /\ task'[u].at = "scanned" => \A k \in Keys : FALSE
  <2>. SUFFICES ASSUME NEW u \in Operators, task'[u].alone, task'[u].at = "scanned",
                       NEW k \in Keys
                PROVE  FALSE
    OBVIOUS
  <2>1. u # t
    BY <1>0, <1>2
  <2>2. task[u].alone /\ task[u].at = "scanned"
    BY <1>2, <2>1, Roles
  <2>3. task[u].op \in {"import", "reset"}
    BY <1>1, <2>2 DEF Operating
  <2>. QED
    BY <1>6, <2>1, <2>2, <2>3 DEF Touches
<1>9. \A k \in Keys : task[t].alone => Visible(redis')[k] = task[t].doc.data[k]
  <2>. SUFFICES ASSUME NEW k \in Keys, task[t].alone
                PROVE  Visible(redis')[k] = task[t].doc.data[k]
    OBVIOUS
  <2>1. /\ \A j \in Overrides : redis.data[j] # None => j \in task[t].scan
        /\ (\E j \in AutoChains : redis.data[j] # None) => "auto" \in task[t].scan
    BY DEF AckInv
  <2>2. CASE task[t].op = "import"
    BY <1>1, <2>1, <2>2, ReplacedIs
  <2>3. CASE task[t].op = "reset"
    <3>1. task[t].doc = EmptyDocument
      BY <1>1, <2>3 DEF Operating
    <3>2. Visible(redis') = Visible(Imported(redis, task[t].scan, EmptyDocument))
      <4>1. /\ redis'.data = Imported(redis, task[t].scan, EmptyDocument).data
            /\ redis'.index = Imported(redis, task[t].scan, EmptyDocument).index
        BY <1>1, <2>3, WipedIs
      <4>. QED
        BY <4>1, SameVisible
    <3>. QED
      BY <1>1, <2>1, <3>1, <3>2, ReplacedIs
  <2>. QED
    BY <2>2, <2>3
<1>10. \A u \in Operators, k \in Keys :
         task'[u].alone /\ task'[u].at \in Saving /\ TouchesKey(task'[u], k) =>
           Visible(redis')[k] = Wanted(task'[u], k)
  <2>. SUFFICES ASSUME NEW u \in Operators, NEW k \in Keys,
                       task'[u].alone, task'[u].at \in Saving, TouchesKey(task'[u], k)
                PROVE  Visible(redis')[k] = Wanted(task'[u], k)
    OBVIOUS
  <2>1. u = t
    BY <1>4, <1>5, <1>6 DEF Touches, TouchesKey
  <2>. QED
    BY <1>0, <1>2, <1>9, <2>1 DEF Wanted
<1>11. task'[Reconnector] = task[Reconnector]
  BY <1>2, Roles
<1>12. ReconnectorApart'
  BY <1>5, <1>11 DEF AckInv, ReconnectorApart
<1>13. AcknowledgedIsKept'
  BY <1>3 DEF AcknowledgedIsKept
<1>14. \A u \in Operators : task'[u].alone /\ task'[u].at = "scanned" =>
        /\ \A k \in Overrides : redis'.data[k] # None => k \in task'[u].scan
        /\ (\E k \in AutoChains : redis'.data[k] # None) => "auto" \in task'[u].scan
  BY <1>8 DEF Keys
<1>15. \A u \in Operators, k \in Keys : TouchesKey(task'[u], k) => owed'[k] = Anything
  BY <1>3
<1>. QED
  BY <1>7, <1>10, <1>12, <1>13, <1>14, <1>15 DEF AckInv, ReconnectorApart, Touches, TouchesKey

(* What a call that ends acknowledges is what Redis answers.               *)
LEMMA AcknowledgeAck ==
  ASSUME StoreTypes, AckInv, NEW t \in Operators, task[t].at \in Saving,
         Acknowledge(t), task'[t] = Idle, UNCHANGED <<redis, connected>>,
         \A u \in Tasks \ {t} :
           /\ Continues(task[u], task'[u])
           /\ task'[u].op = task[u].op /\ task'[u].at = task[u].at
  PROVE  AckInv'
<1>1. Idle.op = "none" /\ Idle.alone = FALSE /\ Idle.at = "idle"
  BY DEF Idle
<1>2. \A u \in Operators : Continues(task[u], task'[u])
  BY <1>1, Roles DEF Continues
<1>3. \A u \in Operators, k \in Keys :
        TouchesKey(task'[u], k) => /\ u # t /\ TouchesKey(task[u], k)
                                   /\ Wanted(task'[u], k) = Wanted(task[u], k)
                                   /\ task'[u].alone => task[u].alone
                                   /\ task'[u].at \in Saving => task[u].at \in Saving
  BY <1>1, <1>2 DEF Continues, TouchesKey, Wanted
<1>4. \A k \in Keys : owed'[k] = IF task[t].alone /\ TouchesKey(task[t], k)
                                 THEN Wanted(task[t], k) ELSE owed[k]
  <2>1. CASE task[t].alone
    <3>1. owed' = [k \in Keys |-> IF Touches(t, k)
                    THEN IF task[t].op = "put" THEN task[t].value ELSE task[t].doc.data[k]
                    ELSE owed[k]]
      BY <2>1 DEF Acknowledge
    <3>. QED
      BY <2>1, <3>1 DEF Touches, TouchesKey, Wanted
  <2>2. CASE ~task[t].alone
    BY <2>2 DEF Acknowledge
  <2>. QED
    BY <2>1, <2>2
<1>5. AcknowledgedIsKept'
  <2>1. \A k \in Keys : task[t].alone /\ TouchesKey(task[t], k) =>
          Visible(redis)[k] = Wanted(task[t], k)
    BY DEF AckInv, Touches, TouchesKey
  <2>2. Visible(redis') = Visible(redis)
    BY SameVisible
  <2>3. \A k \in Keys : owed[k] # Anything => Visible(redis)[k] = owed[k]
    BY DEF AckInv, AcknowledgedIsKept
  <2>. QED
    BY <1>4, <2>1, <2>2, <2>3 DEF AcknowledgedIsKept
<1>6. \A u \in Operators, k \in Keys : TouchesKey(task'[u], k) => owed'[k] = Anything
  <2>. SUFFICES ASSUME NEW u \in Operators, NEW k \in Keys, TouchesKey(task'[u], k)
                PROVE  owed'[k] = Anything
    OBVIOUS
  <2>1. u # t /\ TouchesKey(task[u], k)
    BY <1>3
  <2>2. owed[k] = Anything
    BY <2>1 DEF AckInv, Touches, TouchesKey
  <2>3. ~(task[t].alone /\ TouchesKey(task[t], k))
    BY <2>1 DEF AckInv, Touches, TouchesKey
  <2>. QED
    BY <1>4, <2>2, <2>3
<1>7. \A v, u \in Operators, k \in Keys :
        v # u /\ task'[v].alone /\ TouchesKey(task'[v], k) => ~TouchesKey(task'[u], k)
  BY <1>3 DEF AckInv, Touches, TouchesKey
<1>8. \A u \in Operators : task'[u].alone /\ task'[u].at = "scanned" =>
        /\ task[u].alone /\ task[u].at = "scanned" /\ task'[u].scan = task[u].scan
  BY <1>1, <1>2 DEF Continues
<1>9. \A u \in Operators : task'[u].alone /\ task'[u].at = "scanned" =>
        /\ \A k \in Overrides : redis'.data[k] # None => k \in task'[u].scan
        /\ (\E k \in AutoChains : redis'.data[k] # None) => "auto" \in task'[u].scan
  BY <1>8 DEF AckInv
<1>10. \A u \in Operators, k \in Keys :
        task'[u].alone /\ task'[u].at \in Saving /\ TouchesKey(task'[u], k) =>
          Visible(redis')[k] = Wanted(task'[u], k)
  BY <1>3 DEF AckInv, Touches, TouchesKey
<1>11. ReconnectorApart'
  <2>1. /\ task'[Reconnector].at = task[Reconnector].at
        /\ task'[Reconnector].op = task[Reconnector].op
    BY Roles
  <2>2. \A u \in Operators : task'[u].alone => task[u].alone
    BY <1>2 DEF Continues
  <2>3. task[Reconnector].op = "seed" =>
          /\ \A k \in Keys : owed'[k] = Anything
          /\ \A u \in Operators : ~task'[u].alone
    BY <1>4, <2>2 DEF AckInv
  <2>. QED
    BY <2>1, <2>3 DEF AckInv, ReconnectorApart
<1>. QED
  BY <1>5, <1>6, <1>7, <1>9, <1>10, <1>11 DEF AckInv, ReconnectorApart, Touches, TouchesKey

LEMMA TraceStep ==
  ASSUME StoreTypes, TraceInv, NEW t \in Tasks, NEW q \in TaskType, RoleOK(t, q),
         task' = [task EXCEPT ![t] = q],
         \A k \in Keys : reached[k] \subseteq reached'[k],
         UNCHANGED <<local, path, temp>>,
         q.copy \in {task[t].copy, local, EmptyDocument},
         t \in Operators /\ q.at = "fallback" =>
            /\ q.op = "put" => q.value \in reached'[q.key] \cup {None}
            /\ q.op \in {"import", "reset"} => Traced(q.doc, reached')
  PROVE  TraceInv'
<1>1. task'[t] = q /\ \A u \in Tasks \ {t} : task'[u] = task[u]
  BY OneTaskSteps
<1>2. \A u \in Tasks : task'[u].copy \in {task[u].copy, local, EmptyDocument}
  BY <1>1
<1>3. \A u \in Operators : task[u].op = "put" => task[u].key \in Keys
  BY Roles DEF StoreTypes, RoleOK, Operating
<1>4. \A u \in Operators : task'[u].at = "fallback" =>
            \/ /\ task[u].at = "fallback" /\ task'[u].op = task[u].op
               /\ task'[u].key = task[u].key /\ task'[u].value = task[u].value
               /\ task'[u].doc = task[u].doc
               /\ task[u].op = "put" => task[u].key \in Keys
            \/ /\ task'[u].op = "put" =>
                    task'[u].value \in reached'[task'[u].key] \cup {None}
               /\ task'[u].op \in {"import", "reset"} => Traced(task'[u].doc, reached')
  BY <1>1, <1>3, Roles
<1>5. \A d \in {local', path'.doc, temp'.doc} : d \in {local, path.doc, temp.doc, EmptyDocument}
  OBVIOUS
<1>. QED
  BY <1>2, <1>4, <1>5, TraceKept

(* The types of a step of one task. *)
LEMMA TypesStep ==
  ASSUME StoreTypes, NEW t \in Tasks, NEW q \in TaskType, RoleOK(t, q),
         task' = [task EXCEPT ![t] = q],
         redis' \in RedisType, connected' \in BOOLEAN, local' \in Document,
         path' \in FileType, temp' \in FileType,
         owed' \in [Keys -> Values \cup {None, Anything}],
         reached' \in [Keys -> SUBSET Values]
  PROVE  StoreTypes'
BY OneTaskSteps DEF StoreTypes

-----------------------------------------------------------------------------
(* Calls to Redis *)

LEMMA PutPrimaryKeeps ==
  ASSUME StoreInv, NEW t \in Operators, PutPrimary(t)
  PROVE  StoreInv'
<1>. DEFINE p == task[t]
            q == [p EXCEPT !.at = "fallback"]
<1>1. StoreTypes /\ TraceInv /\ AckInv /\ t \in Tasks /\ p \in TaskType /\ Operating(p)
      /\ redis \in RedisType
  BY Roles DEF StoreInv, StoreTypes, RoleOK
<1>2. /\ p.at = "primary" /\ p.op = "put" /\ task' = [task EXCEPT ![t] = q]
      /\ redis' = WithKey(redis, p.key, p.value) /\ reached' = Seen(redis')
      /\ UNCHANGED <<connected, local, path, temp, count, owed>>
  BY DEF PutPrimary, RedisBecomes, Moves
<1>3. p.key \in Keys /\ p.value \in Values \cup {None}
  BY <1>1, <1>2 DEF Operating, TaskType
<1>4. /\ q \in TaskType /\ q.at = "fallback" /\ q.op = p.op /\ q.key = p.key
      /\ q.value = p.value /\ q.doc = p.doc /\ q.copy = p.copy /\ q.alone = p.alone
  BY <1>1 DEF TaskType, Places
<1>. HIDE DEF q
<1>5. RoleOK(t, q)
  BY <1>1, <1>2, <1>4, Roles DEF RoleOK, Operating, Saving
<1>6. redis' \in RedisType /\ Visible(redis')[p.key] = p.value
  BY <1>1, <1>2, <1>3, WithKeyIs
<1>7. /\ reached' \in [Keys -> SUBSET Values]
      /\ \A k \in Keys : reached[k] \subseteq reached'[k]
      /\ p.value \in reached'[p.key] \cup {None}
  BY <1>1, <1>2, <1>3, <1>6, SeenGrows
<1>8. StoreTypes'
  BY <1>1, <1>2, <1>4, <1>5, <1>6, <1>7, TypesStep DEF StoreTypes
<1>9. TraceInv'
  BY <1>1, <1>2, <1>4, <1>5, <1>7, TraceStep
<1>10. AckInv'
  BY <1>1, <1>2, <1>4, <1>5, PutAck
<1>. QED
  BY <1>8, <1>9, <1>10 DEF StoreInv

LEMMA ScanPrimaryKeeps ==
  ASSUME StoreInv, NEW t \in Operators, ScanPrimary(t)
  PROVE  StoreInv'
<1>. DEFINE p == task[t]
            q == [p EXCEPT !.at = "scanned", !.scan = Scan(redis)]
<1>1. StoreTypes /\ TraceInv /\ AckInv /\ t \in Tasks /\ p \in TaskType /\ Operating(p)
      /\ redis \in RedisType
  BY Roles DEF StoreInv, StoreTypes, RoleOK
<1>2. /\ p.at = "primary" /\ p.op \in {"import", "reset"}
      /\ UNCHANGED <<redis, connected, local, path, temp, count, owed, reached>>
  BY DEF ScanPrimary
<1>3. task' = [task EXCEPT ![t] = q]
  BY <1>1 DEF ScanPrimary, StoreTypes
<1>4. /\ q \in TaskType /\ q.at = "scanned" /\ q.op = p.op /\ q.key = p.key
      /\ q.value = p.value /\ q.doc = p.doc /\ q.copy = p.copy /\ q.alone = p.alone
      /\ q.scan = Scan(redis)
  BY <1>1, ScanType DEF TaskType, Places
<1>. HIDE DEF q
<1>5. RoleOK(t, q)
  BY <1>1, <1>2, <1>4, Roles DEF RoleOK, Operating, Saving
<1>6. StoreTypes'
  BY <1>1, <1>2, <1>3, <1>4, <1>5, TypesStep DEF StoreTypes
<1>7. TraceInv'
  BY <1>1, <1>2, <1>3, <1>4, <1>5, TraceStep
<1>8. AckInv'
  <2>1. /\ task'[t] = q /\ \A u \in Tasks \ {t} : task'[u] = task[u]
    BY <1>1, <1>3, <1>4, <1>5, OneTaskSteps
  <2>2. \A u \in Operators, k \in Keys :
          /\ TouchesKey(task'[u], k) <=> TouchesKey(task[u], k)
          /\ Wanted(task'[u], k) = Wanted(task[u], k)
    BY <1>4, <2>1, Roles DEF TouchesKey, Wanted
  <2>3. \A u \in Operators : task'[u].alone = task[u].alone
    BY <1>4, <2>1, Roles
  <2>4. \A u \in Operators : task'[u].alone /\ task'[u].at = "scanned" =>
          /\ \A k \in Overrides : redis.data[k] # None => k \in task'[u].scan
          /\ (\E k \in AutoChains : redis.data[k] # None) => "auto" \in task'[u].scan
    <3>. SUFFICES ASSUME NEW u \in Operators, task'[u].alone, task'[u].at = "scanned"
                  PROVE  /\ \A k \in Overrides : redis.data[k] # None => k \in task'[u].scan
                         /\ (\E k \in AutoChains : redis.data[k] # None)
                              => "auto" \in task'[u].scan
      OBVIOUS
    <3>1. CASE u = t
      BY <1>1, <1>4, <2>1, <3>1, ScanType
    <3>2. CASE u # t
      <4>1. task'[u] = task[u]
        BY <2>1, <3>2, Roles
      <4>. QED
        BY <1>1, <4>1 DEF AckInv
    <3>. QED
      BY <3>1, <3>2
  <2>5. \A u \in Operators : task'[u].at \in Saving => task[u].at \in Saving
    BY <1>4, <2>1, Roles DEF Saving
  <2>6. \A u \in Operators, k \in Keys : TouchesKey(task'[u], k) => owed[k] = Anything
    BY <1>1, <2>2 DEF AckInv, Touches, TouchesKey
  <2>7. \A v, u \in Operators, k \in Keys :
          v # u /\ task'[v].alone /\ TouchesKey(task'[v], k) => ~TouchesKey(task'[u], k)
    BY <1>1, <2>2, <2>3 DEF AckInv, Touches, TouchesKey
  <2>8. \A u \in Operators, k \in Keys :
          task'[u].alone /\ task'[u].at \in Saving /\ TouchesKey(task'[u], k) =>
            Visible(redis)[k] = Wanted(task'[u], k)
    BY <1>1, <2>2, <2>3, <2>5 DEF AckInv, Touches, TouchesKey
  <2>9. ReconnectorApart'
    <3>1. task'[Reconnector] = task[Reconnector]
      BY <2>1, Roles
    <3>. QED
      BY <1>1, <1>2, <2>3, <3>1 DEF AckInv, ReconnectorApart
  <2>10. Visible(redis') = Visible(redis) /\ AcknowledgedIsKept'
    BY <1>1, <1>2, SameVisible DEF AckInv, AcknowledgedIsKept
  <2>. QED
    BY <1>2, <2>4, <2>6, <2>7, <2>8, <2>9, <2>10
       DEF AckInv, ReconnectorApart, Touches, TouchesKey
<1>. QED
  BY <1>6, <1>7, <1>8 DEF StoreInv

LEMMA ReplacePrimaryKeeps ==
  ASSUME StoreInv, NEW t \in Operators, ReplacePrimary(t)
  PROVE  StoreInv'
<1>. DEFINE p == task[t]
            q == [p EXCEPT !.at = "fallback", !.scan = {}]
<1>1. StoreTypes /\ TraceInv /\ AckInv /\ t \in Tasks /\ p \in TaskType /\ Operating(p)
      /\ redis \in RedisType
  BY Roles DEF StoreInv, StoreTypes, RoleOK
<1>2. /\ p.at = "scanned" /\ p.op \in {"import", "reset"}
      /\ redis' = IF p.op = "import" THEN Imported(redis, p.scan, p.doc)
                                     ELSE Wiped(redis, p.scan)
      /\ reached' = Seen(redis')
      /\ UNCHANGED <<connected, local, path, temp, count, owed>>
  BY DEF ReplacePrimary, RedisBecomes, Replaced
<1>3. task' = [task EXCEPT ![t] = q]
  BY <1>1 DEF ReplacePrimary, StoreTypes
<1>4. /\ q \in TaskType /\ q.at = "fallback" /\ q.op = p.op /\ q.key = p.key
      /\ q.value = p.value /\ q.doc = p.doc /\ q.copy = p.copy /\ q.alone = p.alone
  BY <1>1 DEF TaskType, Places
<1>. HIDE DEF q
<1>5. RoleOK(t, q)
  BY <1>1, <1>2, <1>4, Roles DEF RoleOK, Operating, Saving
<1>6. redis' \in RedisType /\ p.doc \in Document
  <2>1. p.doc \in Document
    BY <1>1 DEF TaskType
  <2>. QED
    BY <1>1, <1>2, <2>1, ImportedIs, WipedIs
<1>7. /\ reached' \in [Keys -> SUBSET Values]
      /\ \A k \in Keys : reached[k] \subseteq reached'[k]
      /\ \A k \in Keys : Visible(redis')[k] \in reached'[k] \cup {None}
  BY <1>1, <1>2, <1>6, SeenGrows
<1>8. Traced(p.doc, reached')
  <2>1. CASE p.op = "import"
    <3>1. \A k \in Keys : p.doc.data[k] # None => Visible(redis')[k] = p.doc.data[k]
      BY <1>1, <1>2, <1>6, <2>1, ImportedIs
    <3>. QED
      BY <1>7, <3>1 DEF Traced
  <2>2. CASE p.op = "reset"
    BY <1>1, <2>2, Empty DEF Operating, Traced
  <2>. QED
    BY <1>2, <2>1, <2>2
<1>9. StoreTypes'
  BY <1>1, <1>2, <1>3, <1>4, <1>5, <1>6, <1>7, TypesStep DEF StoreTypes
<1>10. TraceInv'
  BY <1>1, <1>2, <1>3, <1>4, <1>5, <1>7, <1>8, TraceStep
<1>11. AckInv'
  BY <1>1, <1>2, <1>3, <1>4, <1>5, ReplaceAck
<1>. QED
  BY <1>9, <1>10, <1>11 DEF StoreInv

(* The error drops the connection; what was sent may have had its effect.  *)
LEMMA PrimaryFailsKeeps ==
  ASSUME StoreInv, NEW t \in Operators, PrimaryFails(t)
  PROVE  StoreInv'
<1>. DEFINE p == task[t]
<1>1. StoreTypes /\ TraceInv /\ AckInv /\ t \in Tasks /\ p \in TaskType /\ Operating(p)
      /\ redis \in RedisType /\ Idle \in TaskType /\ RoleOK(t, Idle)
      /\ Idle.op = "none" /\ Idle.alone = FALSE /\ Idle.at = "idle"
      /\ Idle.copy = EmptyDocument
  BY Roles, Empty DEF StoreInv, StoreTypes, RoleOK, Idle
<1>2. /\ task' = [task EXCEPT ![t] = Idle] /\ connected' = FALSE /\ reached' = Seen(redis')
      /\ UNCHANGED <<local, path, temp, count, owed>>
      /\ \/ redis' = redis
         \/ p.op = "put" /\ redis' = WithKey(redis, p.key, p.value)
         \/ p.at = "scanned" /\ redis' = Replaced(redis, p)
  BY DEF PrimaryFails, Ends, Effect
<1>3. /\ p.op = "put" => p.key \in Keys /\ p.value \in Values \cup {None}
      /\ p.at = "scanned" => p.op \in {"import", "reset"}
      /\ p.doc \in Document
  BY <1>1 DEF Operating, TaskType
<1>4. redis' \in RedisType
  BY <1>1, <1>2, <1>3, WithKeyIs, ImportedIs, WipedIs DEF Replaced
<1>5. /\ reached' \in [Keys -> SUBSET Values]
      /\ \A k \in Keys : reached[k] \subseteq reached'[k]
  BY <1>1, <1>2, <1>4, SeenGrows
<1>6. StoreTypes'
  BY <1>1, <1>2, <1>4, <1>5, TypesStep DEF StoreTypes
<1>7. TraceInv'
  BY <1>1, <1>2, <1>5, TraceStep
<1>8. CASE redis' = redis
  <2>1. Continues(p, Idle)
    BY <1>1 DEF Continues
  <2>2. AckInv'
    <3>1. t \in Tasks \ {Reconnector} /\ (connected' => connected)
      BY <1>2, Roles
    <3>2. Visible(redis') = Visible(redis) /\ redis'.data = redis.data
      BY <1>8, SameVisible
    <3>. QED
      BY <1>1, <1>2, <2>1, <3>1, <3>2, CalmStep
  <2>. QED
    BY <1>6, <1>7, <2>2 DEF StoreInv
<1>9. CASE p.op = "put" /\ redis' = WithKey(redis, p.key, p.value)
  <2>1. AckInv'
    BY <1>1, <1>2, <1>9, PutAck
  <2>. QED
    BY <1>6, <1>7, <2>1 DEF StoreInv
<1>10. CASE p.at = "scanned" /\ redis' = Replaced(redis, p)
  <2>1. AckInv'
    BY <1>1, <1>2, <1>3, <1>10, ReplaceAck DEF Replaced
  <2>. QED
    BY <1>6, <1>7, <2>1 DEF StoreInv
<1>. QED
  BY <1>2, <1>8, <1>9, <1>10

-----------------------------------------------------------------------------
(* FileStore::save, by an operator's call or by the flush loop *)

Savers == Operators \cup {Flusher}

LEMMA Saver ==
  ASSUME StoreTypes, NEW t \in Savers
  PROVE  /\ t \in Tasks /\ t # Reconnector /\ task[t] \in TaskType /\ RoleOK(t, task[t])
         /\ t \in Operators \/ t = Flusher
BY Roles DEF Savers, StoreTypes

(* A saver that moves on within its save, or to the mirror, keeps its role.*)
LEMMA SaverMoves ==
  ASSUME NEW t \in Savers, NEW p \in TaskType, RoleOK(t, p), p.at \in Saving,
         NEW q \in TaskType, q.at \in Saving \/ (t = Flusher /\ q.at = "mirror"),
         q.op = p.op, q.key = p.key, q.value = p.value, q.doc = p.doc, q.alone = p.alone
  PROVE  RoleOK(t, q) /\ Continues(p, q)
<1>1. t \in Tasks /\ t # Reconnector /\ (t \in Operators \/ t = Flusher)
      /\ ~(t \in Operators /\ t = Flusher)
  BY Roles DEF Savers
<1>2. p.at \notin {"idle", "scanned"} /\ q.at \notin {"idle", "scanned"}
  BY DEF Saving
<1>3. RoleOK(t, q)
  BY <1>1, <1>2 DEF RoleOK, Operating, Flushing, Saving
<1>4. Continues(p, q)
  BY <1>2 DEF Continues
<1>. QED
  BY <1>3, <1>4

LEMMA PutFallbackKeeps ==
  ASSUME StoreInv, NEW t \in Savers, PutFallback(t)
  PROVE  StoreInv'
<1>. DEFINE p == task[t]
            q == [p EXCEPT !.at = "clone"]
<1>1. /\ StoreTypes /\ TraceInv /\ AckInv /\ t \in Tasks \ {Reconnector}
      /\ p \in TaskType /\ RoleOK(t, p) /\ (t \in Operators \/ t = Flusher)
      /\ local \in Document /\ p.doc \in Document
  BY Saver DEF StoreInv, StoreTypes, TaskType
<1>2. /\ p.at = "fallback" /\ task' = [task EXCEPT ![t] = q]
      /\ UNCHANGED <<redis, connected, path, temp, count, owed, reached>>
  BY DEF PutFallback, Moves
<1>3. /\ q \in TaskType /\ q.at = "clone" /\ q.op = p.op /\ q.key = p.key
      /\ q.value = p.value /\ q.doc = p.doc /\ q.copy = p.copy /\ q.alone = p.alone
  BY <1>1 DEF TaskType, Places
<1>. HIDE DEF q
<1>4. RoleOK(t, q) /\ Continues(p, q)
  BY <1>1, <1>2, <1>3, SaverMoves DEF Saving
<1>5. /\ p.op = "put" => local' = [local EXCEPT !.data[p.key] = p.value]
      /\ p.op = "flush" => local' = [local EXCEPT !.health = p.doc.health]
      /\ p.op \notin {"put", "flush"} => local' = p.doc
  BY DEF PutFallback
<1>6. p.op \in {"put", "flush"} \/ (t \in Operators /\ p.op \in {"import", "reset"})
  BY <1>1, <1>2 DEF RoleOK, Operating, Flushing
<1>7. local' \in Document /\ Traced(local', reached)
  <2>1. Traced(local, reached) /\ local.data \in Settings
    BY <1>1 DEF TraceInv, Document
  <2>2. CASE p.op = "put"
    <3>1. /\ p.key \in Keys /\ p.value \in Values \cup {None}
          /\ p.value \in reached[p.key] \cup {None}
      BY <1>1, <1>2, <2>2 DEF RoleOK, Operating, Flushing, TaskType, TraceInv
    <3>2. local' = [local EXCEPT !.data = [local.data EXCEPT ![p.key] = p.value]]
      BY <1>5, <2>2
    <3>3. [local.data EXCEPT ![p.key] = p.value] \in Settings
      BY <2>1, <3>1 DEF Settings
    <3>4. local' \in Document /\ local'.data = [local.data EXCEPT ![p.key] = p.value]
      BY <1>1, <3>2, <3>3 DEF Document
    <3>5. \A k \in Keys : local'.data[k] = IF k = p.key THEN p.value ELSE local.data[k]
      BY <2>1, <3>4 DEF Settings
    <3>. QED
      BY <2>1, <3>1, <3>4, <3>5 DEF Traced
  <2>3. CASE p.op = "flush"
    <3>1. /\ local' = [local EXCEPT !.health = p.doc.health]
          /\ p.doc.health \in 0..MaxFlushes
      BY <1>1, <1>5, <2>3 DEF Document
    <3>2. local' \in Document /\ local'.data = local.data
      BY <1>1, <3>1 DEF Document
    <3>. QED
      BY <2>1, <3>2 DEF Traced
  <2>4. CASE t \in Operators /\ p.op \in {"import", "reset"}
    BY <1>1, <1>2, <1>5, <2>4 DEF TraceInv
  <2>. QED
    BY <1>6, <2>2, <2>3, <2>4
<1>8. StoreTypes'
  BY <1>1, <1>2, <1>3, <1>4, <1>7, TypesStep DEF StoreTypes
<1>9. TraceInv'
  <2>1. /\ task'[t] = q /\ \A u \in Tasks \ {t} : task'[u] = task[u]
    BY <1>1, <1>2, <1>3, <1>4, OneTaskSteps
  <2>2. \A u \in Tasks : task'[u].copy \in {task[u].copy, local, EmptyDocument}
    BY <1>3, <2>1
  <2>3. \A u \in Operators : task'[u].at = "fallback" =>
          task'[u] = task[u] /\ (task[u].op = "put" => task[u].key \in Keys)
    BY <1>1, <1>3, <2>1, Roles DEF StoreTypes, RoleOK, Operating
  <2>4. \A d \in {local', path'.doc, temp'.doc} :
          d \in {local, path.doc, temp.doc} \/ Traced(d, reached')
    BY <1>2, <1>7
  <2>. QED
    BY <1>1, <1>2, <2>2, <2>3, <2>4, TraceKept
<1>10. AckInv'
  <2>1. Visible(redis') = Visible(redis) /\ redis'.data = redis.data
    BY <1>2, SameVisible
  <2>. QED
    BY <1>1, <1>2, <1>3, <1>4, <2>1, CalmStep
<1>. QED
  BY <1>8, <1>9, <1>10 DEF StoreInv

(* Steps of a save that write one of the files, or none.                   *)
LEMMA SaveStepKeeps ==
  ASSUME StoreInv, NEW t \in Savers, task[t].at \in Saving,
         NEW q \in TaskType, task' = [task EXCEPT ![t] = q],
         q.at \in Saving \ {"fallback"} \/ (t = Flusher /\ q.at = "mirror"),
         q.op = task[t].op, q.key = task[t].key, q.value = task[t].value,
         q.doc = task[t].doc, q.alone = task[t].alone,
         q.copy \in {task[t].copy, local, EmptyDocument},
         UNCHANGED <<redis, connected, local, owed, reached>>,
         path' \in FileType, temp' \in FileType,
         {path'.doc, temp'.doc} \subseteq {path.doc, temp.doc, task[t].copy, EmptyDocument}
  PROVE  StoreInv'
<1>1. /\ StoreTypes /\ TraceInv /\ AckInv /\ t \in Tasks \ {Reconnector}
      /\ task[t] \in TaskType /\ RoleOK(t, task[t])
  BY Saver DEF StoreInv
<1>2. RoleOK(t, q) /\ Continues(task[t], q)
  BY <1>1, SaverMoves
<1>3. StoreTypes'
  BY <1>1, <1>2, TypesStep DEF StoreTypes
<1>4. TraceInv'
  <2>1. /\ task'[t] = q /\ \A u \in Tasks \ {t} : task'[u] = task[u]
    BY <1>1, <1>2, OneTaskSteps
  <2>2. \A u \in Tasks : task'[u].copy \in {task[u].copy, local, EmptyDocument}
    BY <2>1
  <2>3. \A u \in Operators : task'[u].at = "fallback" =>
          task'[u] = task[u] /\ (task[u].op = "put" => task[u].key \in Keys)
    BY <1>1, <2>1, Roles DEF StoreTypes, RoleOK, Operating, Saving
  <2>4. \A d \in {local', path'.doc, temp'.doc} :
          d \in {local, path.doc, temp.doc, EmptyDocument} \/ \E u \in Tasks : d = task[u].copy
    BY <1>1
  <2>. QED
    BY <1>1, <2>2, <2>3, <2>4, TraceKept
<1>5. AckInv'
  <2>1. Visible(redis') = Visible(redis) /\ redis'.data = redis.data
    BY SameVisible
  <2>. QED
    BY <1>1, <1>2, <2>1, CalmStep
<1>. QED
  BY <1>3, <1>4, <1>5 DEF StoreInv

(* A call of any kind that ends without an acknowledgement.                *)
LEMMA EndsKeeps ==
  ASSUME StoreInv, NEW t \in Tasks, Ends(t), connected' \in BOOLEAN,
         connected' => connected \/ t = Reconnector,
         redis' \in RedisType, redis'.data = redis.data, redis'.index = redis.index,
         reached' \in [Keys -> SUBSET Values],
         \A k \in Keys : reached[k] \subseteq reached'[k],
         UNCHANGED <<local, path, temp, owed>>
  PROVE  StoreInv'
<1>1. /\ StoreTypes /\ TraceInv /\ AckInv /\ Idle \in TaskType /\ RoleOK(t, Idle)
      /\ Idle.op = "none" /\ Idle.alone = FALSE /\ Idle.at = "idle"
      /\ Idle.copy = EmptyDocument /\ task' = [task EXCEPT ![t] = Idle]
  BY Empty DEF StoreInv, Idle, Ends
<1>2. /\ task'[t] = Idle /\ \A u \in Tasks \ {t} : task'[u] = task[u]
  BY <1>1, OneTaskSteps
<1>3. StoreTypes'
  BY <1>1, TypesStep DEF StoreTypes
<1>4. TraceInv'
  BY <1>1, TraceStep
<1>5. AckInv'
  <2>1. Visible(redis') = Visible(redis)
    BY SameVisible
  <2>2. \A u \in Operators : Continues(task[u], task'[u])
    BY <1>1, <1>2, Roles DEF Continues
  <2>3. \A u \in Operators : task'[u].alone => task[u].alone
    BY <1>1, <1>2, Roles
  <2>4. ReconnectorApart'
    <3>1. CASE t = Reconnector
      BY <1>1, <1>2, <3>1 DEF ReconnectorApart
    <3>2. CASE t # Reconnector
      <4>1. task'[Reconnector] = task[Reconnector]
        BY <1>2, <3>2, Roles
      <4>. QED
        BY <1>1, <2>3, <3>2, <4>1 DEF AckInv, ReconnectorApart
    <3>. QED
      BY <3>1, <3>2
  <2>. QED
    BY <1>1, <2>1, <2>2, <2>4, CalmAck
<1>. QED
  BY <1>3, <1>4, <1>5 DEF StoreInv

(* An operator's call that ends well.                                      *)
LEMMA AcknowledgedKeeps ==
  ASSUME StoreInv, NEW t \in Operators, task[t].at \in Saving, Acknowledge(t),
         task' \in [Tasks -> TaskType], task'[t] = Idle,
         \A u \in Tasks \ {t} : /\ RoleOK(u, task'[u]) /\ Continues(task[u], task'[u])
                              /\ task'[u].op = task[u].op /\ task'[u].at = task[u].at
                              /\ task'[u].copy = task[u].copy /\ task'[u].key = task[u].key
                              /\ task'[u].value = task[u].value
                              /\ task'[u].doc = task[u].doc,
         UNCHANGED <<redis, connected, local, reached>>,
         path' \in FileType, temp' \in FileType,
         {path'.doc, temp'.doc} \subseteq {path.doc, temp.doc, EmptyDocument}
  PROVE  StoreInv'
<1>1. /\ StoreTypes /\ TraceInv /\ AckInv /\ t \in Tasks /\ RoleOK(t, Idle)
      /\ task[t] \in TaskType /\ Idle.copy = EmptyDocument /\ Idle.at = "idle"
  BY Empty, Roles DEF StoreInv, Idle, StoreTypes
<1>2. owed' \in [Keys -> Values \cup {None, Anything}]
  <2>1. CASE task[t].alone
    <3>1. owed' = [k \in Keys |-> IF Touches(t, k)
                    THEN IF task[t].op = "put" THEN task[t].value ELSE task[t].doc.data[k]
                    ELSE owed[k]]
      BY <2>1 DEF Acknowledge
    <3>2. /\ task[t].value \in Values \cup {None}
          /\ \A k \in Keys : task[t].doc.data[k] \in Values \cup {None}
      BY <1>1 DEF TaskType, Document, Settings
    <3>. QED
      BY <1>1, <3>1, <3>2 DEF StoreTypes
  <2>2. CASE ~task[t].alone
    BY <1>1, <2>2 DEF Acknowledge, StoreTypes
  <2>. QED
    BY <2>1, <2>2
<1>3. StoreTypes'
  BY <1>1, <1>2 DEF StoreTypes
<1>4. TraceInv'
  <2>1. \A u \in Tasks : task'[u].copy \in {task[u].copy, local, EmptyDocument}
    BY <1>1
  <2>2. \A u \in Operators : task'[u].at = "fallback" =>
               /\ task[u].at = "fallback" /\ task'[u].op = task[u].op
               /\ task'[u].key = task[u].key /\ task'[u].value = task[u].value
               /\ task'[u].doc = task[u].doc
               /\ task[u].op = "put" => task[u].key \in Keys
    BY <1>1, Roles DEF StoreTypes, RoleOK, Operating
  <2>3. \A d \in {local', path'.doc, temp'.doc} : d \in {local, path.doc, temp.doc, EmptyDocument}
    OBVIOUS
  <2>. QED
    BY <1>1, <2>1, <2>2, <2>3, TraceKept
<1>5. AckInv'
  BY <1>1, AcknowledgeAck
<1>. QED
  BY <1>3, <1>4, <1>5 DEF StoreInv

(* The end of a call that leaves Redis alone. *)
LEMMA QuietEndKeeps ==
  ASSUME StoreInv, NEW t \in Tasks, Ends(t), connected' \in BOOLEAN,
         connected' => connected \/ t = Reconnector,
         UNCHANGED <<redis, reached, local, path, temp, owed>>
  PROVE  StoreInv'
<1>1. redis \in RedisType /\ reached \in [Keys -> SUBSET Values]
  BY DEF StoreInv, StoreTypes
<1>2. redis' \in RedisType /\ reached' \in [Keys -> SUBSET Values]
      /\ \A k \in Keys : reached[k] \subseteq reached'[k]
  BY <1>1
<1>. QED
  BY <1>2, EndsKeeps

LEMMA CloneDocumentKeeps ==
  ASSUME StoreInv, NEW t \in Savers, CloneDocument(t)
  PROVE  StoreInv'
<1>. DEFINE p == task[t]
            q == [p EXCEPT !.at = "compare", !.copy = local]
<1>1. /\ t \in Tasks /\ p \in TaskType /\ local \in Document
      /\ path \in FileType /\ temp \in FileType /\ task \in [Tasks -> TaskType]
  BY Saver DEF StoreInv, StoreTypes
<1>2. /\ p.at = "clone"
      /\ UNCHANGED <<redis, connected, local, path, temp, count, owed, reached>>
  BY DEF CloneDocument
<1>3. task' = [task EXCEPT ![t] = q]
  BY <1>1 DEF CloneDocument
<1>4. /\ q \in TaskType /\ q.at = "compare" /\ q.op = p.op /\ q.key = p.key
      /\ q.value = p.value /\ q.doc = p.doc /\ q.copy = local /\ q.alone = p.alone
  BY <1>1 DEF TaskType, Places
<1>. HIDE DEF q
<1>. QED
  BY <1>1, <1>2, <1>3, <1>4, SaveStepKeeps DEF Saving

LEMMA TruncateKeeps ==
  ASSUME StoreInv, NEW t \in Savers, Truncate(t)
  PROVE  StoreInv'
<1>. DEFINE p == task[t]
            q == [p EXCEPT !.at = "write", !.handle = "temp"]
<1>1. /\ t \in Tasks /\ p \in TaskType
      /\ path \in FileType /\ temp \in FileType /\ task \in [Tasks -> TaskType]
  BY Saver DEF StoreInv, StoreTypes
<1>2. /\ p.at = "compare" /\ temp' = Truncated
      /\ UNCHANGED <<redis, connected, local, path, count, owed, reached>>
  BY DEF Truncate
<1>3. task' = [task EXCEPT ![t] = q]
  BY <1>1 DEF Truncate
<1>4. /\ q \in TaskType /\ q.at = "write" /\ q.op = p.op /\ q.key = p.key
      /\ q.value = p.value /\ q.doc = p.doc /\ q.copy = p.copy /\ q.alone = p.alone
  BY <1>1 DEF TaskType, Places
<1>5. Truncated \in FileType /\ Truncated.doc = EmptyDocument
  BY Empty DEF Truncated
<1>. HIDE DEF q
<1>. QED
  BY <1>1, <1>2, <1>3, <1>4, <1>5, SaveStepKeeps DEF Saving

LEMMA WriteDocumentKeeps ==
  ASSUME StoreInv, NEW t \in Savers, WriteDocument(t)
  PROVE  StoreInv'
<1>. DEFINE p == task[t]
            q == [p EXCEPT !.at = "rename", !.copy = EmptyDocument]
<1>1. /\ t \in Tasks /\ p \in TaskType /\ p.copy \in Document
      /\ path \in FileType /\ temp \in FileType /\ task \in [Tasks -> TaskType]
  BY Saver DEF StoreInv, StoreTypes, TaskType
<1>2. /\ p.at = "write"
      /\ UNCHANGED <<redis, connected, local, count, owed, reached>>
  BY DEF WriteDocument
<1>3. task' = [task EXCEPT ![t] = q]
  BY <1>1 DEF WriteDocument
<1>4. /\ q \in TaskType /\ q.at = "rename" /\ q.op = p.op /\ q.key = p.key
      /\ q.value = p.value /\ q.doc = p.doc /\ q.copy = EmptyDocument /\ q.alone = p.alone
  BY <1>1, Empty DEF TaskType, Places
<1>5. \A content, file : file \in After(content, p.copy) =>
        file \in FileType /\ file.doc \in {p.copy, EmptyDocument}
  <2>1. Whole(p.copy) \in FileType /\ Whole(p.copy).doc = p.copy
    BY <1>1 DEF Whole, FileType
  <2>2. Torn \in FileType /\ Torn.doc = EmptyDocument
    BY Empty DEF Torn
  <2>. QED
    BY <2>1, <2>2 DEF After
<1>6. /\ temp' = temp \/ temp' \in After(temp, p.copy)
      /\ path' = path \/ path' \in After(path, p.copy)
  BY DEF WriteDocument
<1>7. /\ path' \in FileType /\ temp' \in FileType
      /\ {path'.doc, temp'.doc} \subseteq {path.doc, temp.doc, p.copy, EmptyDocument}
  BY <1>1, <1>5, <1>6
<1>. HIDE DEF q
<1>. QED
  BY <1>2, <1>3, <1>4, <1>7, SaveStepKeeps DEF Saving

(* A flush goes on to the mirror or ends, an operator's call acknowledges. *)
LEMMA UnchangedKeeps ==
  ASSUME StoreInv, NEW t \in Savers, Unchanged(t)
  PROVE  StoreInv'
<1>. DEFINE p == task[t]
            q == [p EXCEPT !.at = "mirror"]
<1>1. /\ StoreTypes /\ t \in Tasks /\ t # Reconnector /\ p \in TaskType
      /\ (t \in Operators \/ t = Flusher)
      /\ path \in FileType /\ temp \in FileType /\ task \in [Tasks -> TaskType]
      /\ connected \in BOOLEAN /\ \A u \in Tasks : RoleOK(u, task[u])
  BY Saver DEF StoreInv, StoreTypes
<1>2. /\ p.at = "compare" /\ p.at \in Saving /\ Saved(t)
      /\ UNCHANGED <<redis, connected, local, path, temp, count, reached>>
  BY DEF Unchanged, Saving
<1>3. CASE t = Flusher /\ connected
  <2>1. task' = [task EXCEPT ![t] = q] /\ owed' = owed
    BY <1>2, <1>3 DEF Saved, Moves
  <2>2. /\ q \in TaskType /\ q.at = "mirror" /\ q.op = p.op /\ q.key = p.key
        /\ q.value = p.value /\ q.doc = p.doc /\ q.copy = p.copy /\ q.alone = p.alone
    BY <1>1 DEF TaskType, Places
  <2>. HIDE DEF q
  <2>. QED
    BY <1>1, <1>2, <1>3, <2>1, <2>2, SaveStepKeeps
<1>4. CASE t = Flusher /\ ~connected
  BY <1>1, <1>2, <1>4, QuietEndKeeps DEF Saved
<1>5. CASE t # Flusher
  <2>1. t \in Operators /\ Acknowledge(t) /\ task' = [task EXCEPT ![t] = Idle]
    BY <1>1, <1>2, <1>5 DEF Saved, Ends
  <2>2. /\ task' \in [Tasks -> TaskType] /\ task'[t] = Idle
        /\ \A u \in Tasks \ {t} : task'[u] = task[u]
    BY <1>1, <2>1, Empty
  <2>3. \A u \in Tasks \ {t} : Continues(task[u], task'[u])
    BY <2>2 DEF Continues
  <2>. QED
    BY <1>1, <1>2, <2>1, <2>2, <2>3, AcknowledgedKeeps
<1>. QED
  BY <1>3, <1>4, <1>5

(* The rename also moves the handles of the other writers.                 *)
LEMMA RenameKeeps ==
  ASSUME StoreInv, NEW t \in Savers, Rename(t)
  PROVE  StoreInv'
<1>. DEFINE moved(u) == [task[u] EXCEPT !.handle = Renamed(task[u].handle)]
            last == IF connected THEN [moved(t) EXCEPT !.at = "mirror", !.handle = "none"] ELSE Idle
<1>1. /\ StoreTypes /\ TraceInv /\ AckInv /\ t \in Tasks /\ t # Reconnector
      /\ (t \in Operators \/ t = Flusher)
      /\ path \in FileType /\ temp \in FileType /\ task \in [Tasks -> TaskType]
      /\ connected \in BOOLEAN /\ \A u \in Tasks : RoleOK(u, task[u])
  BY Saver DEF StoreInv, StoreTypes
<1>2. /\ task[t].at = "rename" /\ task[t].at \in Saving
      /\ path' = temp /\ temp' = NoFile
      /\ UNCHANGED <<redis, connected, local, count, reached>>
  BY DEF Rename, Saving
<1>3. NoFile \in FileType /\ NoFile.doc = EmptyDocument
  BY Empty DEF NoFile
<1>4. \A u \in Tasks :
        /\ moved(u) \in TaskType
        /\ moved(u).at = task[u].at /\ moved(u).op = task[u].op /\ moved(u).key = task[u].key
        /\ moved(u).value = task[u].value /\ moved(u).doc = task[u].doc
        /\ moved(u).copy = task[u].copy /\ moved(u).alone = task[u].alone
        /\ moved(u).scan = task[u].scan
  <2>. SUFFICES ASSUME NEW u \in Tasks
                PROVE  /\ moved(u) \in TaskType
                       /\ moved(u).at = task[u].at /\ moved(u).op = task[u].op
                       /\ moved(u).key = task[u].key /\ moved(u).value = task[u].value
                       /\ moved(u).doc = task[u].doc /\ moved(u).copy = task[u].copy
                       /\ moved(u).alone = task[u].alone /\ moved(u).scan = task[u].scan
    OBVIOUS
  <2>1. task[u] \in TaskType
    BY <1>1
  <2>2. Renamed(task[u].handle) \in {"none", "temp", "path", "gone"}
    BY <2>1 DEF Renamed, TaskType
  <2>. QED
    BY <2>1, <2>2 DEF TaskType
<1>5. \A u \in Tasks : RoleOK(u, moved(u)) /\ Continues(task[u], moved(u))
  BY <1>1, <1>4 DEF RoleOK, Operating, Flushing, Reconnecting, Continues
<1>6. CASE t = Flusher
  <2>1. /\ task' = [[u \in Tasks |-> moved(u)] EXCEPT ![t] = last] /\ owed' = owed
    BY <1>1, <1>6 DEF Rename
  <2>2. /\ last \in TaskType /\ RoleOK(t, last) /\ last.copy \in {task[t].copy, EmptyDocument}
        /\ last.op = "none" \/ last.op = task[t].op
    <3>1. CASE connected
      <4>1. last = [moved(t) EXCEPT !.at = "mirror", !.handle = "none"]
        BY <3>1
      <4>2. /\ last \in TaskType /\ last.at = "mirror" /\ last.op = task[t].op
            /\ last.copy = task[t].copy
        <5>1. moved(t) \in TaskType /\ moved(t).op = task[t].op /\ moved(t).copy = task[t].copy
          BY <1>1, <1>4
        <5>. HIDE DEF moved
        <5>. QED
          BY <4>1, <5>1 DEF TaskType, Places
      <4>3. Flushing(task[t]) /\ t \notin Operators
        BY <1>1, <1>6, Roles DEF RoleOK
      <4>. HIDE DEF last
      <4>. QED
        BY <1>1, <1>2, <1>6, <4>2, <4>3 DEF RoleOK, Flushing
    <3>2. CASE ~connected
      <4>1. last = Idle /\ Idle.copy = EmptyDocument /\ Idle.op = "none"
        BY <3>2 DEF Idle
      <4>. QED
        BY <1>1, <4>1, Empty
    <3>. QED
      BY <3>1, <3>2
  <2>3. /\ task'[t] = last /\ \A u \in Tasks \ {t} : task'[u] = moved(u)
        /\ task' \in [Tasks -> TaskType]
    <3>. HIDE DEF last, moved
    <3>. QED
      BY <1>1, <1>4, <2>1, <2>2
  <2>. HIDE DEF last
  <2>4. \A u \in Tasks : RoleOK(u, task'[u])
    BY <1>5, <2>2, <2>3
  <2>5. StoreTypes'
    BY <1>1, <1>2, <1>3, <2>1, <2>3, <2>4 DEF StoreTypes
  <2>6. \A u \in Tasks : task'[u].copy \in {task[u].copy, local, EmptyDocument}
    <3>. HIDE DEF moved
    <3>. QED
      BY <1>4, <2>2, <2>3
  <2>7. \A u \in Operators : task'[u] = moved(u) /\ u \in Tasks
    BY <1>6, <2>3, Roles
  <2>8. \A u \in Operators : task'[u].at = "fallback" =>
               /\ task[u].at = "fallback" /\ task'[u].op = task[u].op
               /\ task'[u].key = task[u].key /\ task'[u].value = task[u].value
               /\ task'[u].doc = task[u].doc
               /\ task[u].op = "put" => task[u].key \in Keys
    <3>1. \A u \in Operators : task[u].op = "put" => task[u].key \in Keys
      BY <1>1, Roles DEF RoleOK, Operating
    <3>. HIDE DEF moved
    <3>. QED
      BY <1>4, <2>7, <3>1
  <2>9. \A d \in {local', path'.doc, temp'.doc} : d \in {local, path.doc, temp.doc, EmptyDocument}
    BY <1>2, <1>3
  <2>10. TraceInv'
    BY <1>1, <1>2, <2>6, <2>8, <2>9, TraceKept
  <2>11. \A u \in Operators : Continues(task[u], task'[u])
    BY <1>5, <2>7
  <2>12. ReconnectorApart'
    <3>1. task'[Reconnector] = moved(Reconnector) /\ Reconnector \in Tasks
      BY <1>1, <2>3, Roles
    <3>2. task'[Reconnector].at = task[Reconnector].at
          /\ task'[Reconnector].op = task[Reconnector].op
      BY <1>4, <3>1
    <3>3. \A u \in Operators : task'[u].alone = task[u].alone
      BY <1>4, <2>7
    <3>. QED
      BY <1>1, <1>2, <2>1, <3>2, <3>3 DEF AckInv, ReconnectorApart
  <2>13. AckInv'
    <3>1. Visible(redis') = Visible(redis) /\ redis'.data = redis.data
      BY <1>2, SameVisible
    <3>. QED
      BY <1>1, <2>1, <2>11, <2>12, <3>1, CalmAck
  <2>. QED
    BY <2>5, <2>10, <2>13 DEF StoreInv
<1>7. CASE t # Flusher
  <2>1. /\ t \in Operators /\ Acknowledge(t)
        /\ task' = [[u \in Tasks |-> moved(u)] EXCEPT ![t] = Idle]
    BY <1>1, <1>7 DEF Rename
  <2>2. /\ task' \in [Tasks -> TaskType] /\ task'[t] = Idle
        /\ \A u \in Tasks \ {t} : task'[u] = moved(u)
    <3>. HIDE DEF moved
    <3>. QED
      BY <1>1, <1>4, <2>1, Empty
  <2>3. /\ path' \in FileType /\ temp' \in FileType
        /\ {path'.doc, temp'.doc} \subseteq {path.doc, temp.doc, EmptyDocument}
    BY <1>1, <1>2, <1>3
  <2>4. \A u \in Tasks \ {t} : /\ RoleOK(u, task'[u]) /\ Continues(task[u], task'[u])
                              /\ task'[u].op = task[u].op /\ task'[u].at = task[u].at
                              /\ task'[u].copy = task[u].copy /\ task'[u].key = task[u].key
                              /\ task'[u].value = task[u].value
                              /\ task'[u].doc = task[u].doc
    <3>. HIDE DEF moved
    <3>. QED
      BY <1>4, <1>5, <2>2
  <2>. QED
    BY <1>2, <2>1, <2>2, <2>3, <2>4, AcknowledgedKeeps
<1>. QED
  BY <1>6, <1>7

LEMMA SaveKeeps ==
  ASSUME StoreInv, NEW t \in Savers, SaveStep(t)
  PROVE  StoreInv'
<1>1. CASE RenameFails(t)
  <2>1. t \in Tasks /\ connected \in BOOLEAN
    BY Saver DEF StoreInv, StoreTypes
  <2>. QED
    BY <1>1, <2>1, QuietEndKeeps DEF RenameFails
<1>. QED
  BY <1>1, PutFallbackKeeps, CloneDocumentKeeps, UnchangedKeeps, TruncateKeeps,
     WriteDocumentKeeps, RenameKeeps DEF SaveStep

-----------------------------------------------------------------------------
(* Mirrored data *)

LEMMA BeginFlushKeeps ==
  ASSUME StoreInv, BeginFlush(Flusher)
  PROVE  StoreInv'
<1>1. /\ StoreTypes /\ TraceInv /\ AckInv /\ Flusher \in Tasks \ {Reconnector}
      /\ task \in [Tasks -> TaskType] /\ local \in Document /\ Idle \in TaskType
  BY Roles, Empty DEF StoreInv, StoreTypes
<1>2. PICK h \in local.health..MaxFlushes :
        /\ task[Flusher] = Idle
        /\ task' = [task EXCEPT ![Flusher].at = "fallback", ![Flusher].op = "flush",
                                ![Flusher].doc.health = h]
        /\ UNCHANGED <<redis, connected, local, path, temp, count, owed, reached>>
  BY DEF BeginFlush
<1>. DEFINE d == [EmptyDocument EXCEPT !.health = h]
            q == [Idle EXCEPT !.at = "fallback", !.op = "flush", !.doc = d]
<1>3. h \in 0..MaxFlushes
  BY <1>1, StoreAssumption DEF Document
<1>4. d \in Document
  BY <1>3, Empty DEF Document
<1>5. task' = [task EXCEPT ![Flusher] = q]
  <2>1. Idle.doc = EmptyDocument
    BY DEF Idle
  <2>2. task' = [task EXCEPT ![Flusher] =
                   [[[task[Flusher] EXCEPT !.at = "fallback"] EXCEPT !.op = "flush"]
                      EXCEPT !.doc = [task[Flusher].doc EXCEPT !.health = h]]]
    BY <1>1, <1>2 DEF TaskType
  <2>. QED
    BY <1>1, <1>2, <2>1, <2>2 DEF TaskType
<1>6. /\ q \in TaskType /\ q.at = "fallback" /\ q.op = "flush" /\ q.copy = Idle.copy
      /\ q.alone = Idle.alone
  <2>. HIDE DEF d
  <2>. QED
    BY <1>1, <1>4 DEF TaskType, Places
<1>. HIDE DEF q, d
<1>7. Flusher \notin Operators /\ Idle.alone = FALSE /\ Idle.copy = EmptyDocument
  BY Roles DEF Idle
<1>8. RoleOK(Flusher, q)
  BY <1>6, <1>7, Roles DEF RoleOK, Flushing, Saving
<1>9. StoreTypes'
  BY <1>1, <1>2, <1>5, <1>6, <1>8, TypesStep DEF StoreTypes
<1>10. TraceInv'
  BY <1>1, <1>2, <1>5, <1>6, <1>7, <1>8, TraceStep
<1>11. AckInv'
  <2>1. /\ task'[Flusher] = q /\ \A u \in Tasks \ {Flusher} : task'[u] = task[u]
    BY <1>1, <1>5, <1>6, <1>8, OneTaskSteps
  <2>2. \A u \in Operators \cup {Reconnector} : task'[u] = task[u]
    BY <2>1, Roles
  <2>3. \A u \in Operators : Continues(task[u], task'[u])
    BY <2>2 DEF Continues
  <2>4. ReconnectorApart'
    BY <1>1, <1>2, <2>2 DEF AckInv, ReconnectorApart
  <2>5. Visible(redis') = Visible(redis)
    BY <1>2, SameVisible
  <2>. QED
    BY <1>1, <1>2, <2>3, <2>4, <2>5, CalmAck
<1>. QED
  BY <1>9, <1>10, <1>11 DEF StoreInv

LEMMA MirrorKeeps ==
  ASSUME StoreInv, Mirror(Flusher) \/ MirrorFails(Flusher)
  PROVE  StoreInv'
<1>1. /\ StoreTypes /\ Flusher \in Tasks /\ redis \in RedisType
      /\ task[Flusher].doc \in Document /\ connected \in BOOLEAN
  BY Roles DEF StoreInv, StoreTypes, TaskType
<1>2. CASE Mirror(Flusher)
  <2>1. /\ redis' = WithHealth(redis, task[Flusher].doc.health) /\ reached' = Seen(redis')
        /\ Ends(Flusher) /\ UNCHANGED <<connected, local, path, temp, count, owed>>
    BY <1>2 DEF Mirror, RedisBecomes
  <2>2. task[Flusher].doc.health \in 0..MaxFlushes
    BY <1>1 DEF Document
  <2>3. redis' \in RedisType /\ redis'.data = redis.data /\ redis'.index = redis.index
    BY <1>1, <2>1, <2>2, WithHealthIs
  <2>4. /\ reached' \in [Keys -> SUBSET Values]
        /\ \A k \in Keys : reached[k] \subseteq reached'[k]
    BY <1>1, <2>1, <2>3, SeenGrows
  <2>. QED
    BY <1>1, <2>1, <2>3, <2>4, EndsKeeps
<1>3. CASE MirrorFails(Flusher)
  <2>1. /\ redis' \in {redis, WithHealth(redis, task[Flusher].doc.health)}
        /\ reached' = Seen(redis') /\ connected' = FALSE
        /\ Ends(Flusher) /\ UNCHANGED <<local, path, temp, count, owed>>
    BY <1>3 DEF MirrorFails
  <2>2. task[Flusher].doc.health \in 0..MaxFlushes
    BY <1>1 DEF Document
  <2>3. redis' \in RedisType /\ redis'.data = redis.data /\ redis'.index = redis.index
    BY <1>1, <2>1, <2>2, WithHealthIs
  <2>4. /\ reached' \in [Keys -> SUBSET Values]
        /\ \A k \in Keys : reached[k] \subseteq reached'[k]
    BY <1>1, <2>1, <2>3, SeenGrows
  <2>. QED
    BY <1>1, <2>1, <2>3, <2>4, EndsKeeps
<1>. QED
  BY <1>2, <1>3

-----------------------------------------------------------------------------
(* Reconnecting *)

LEMMA NothingOwed ==
  ASSUME \A k \in Keys : owed'[k] = Anything,
         \A t \in Operators : ~task'[t].alone, ReconnectorApart'
  PROVE  AckInv'
<1>1. AcknowledgedIsKept'
  BY DEF AcknowledgedIsKept
<1>. QED
  BY <1>1 DEF AckInv, ReconnectorApart, Touches

(* The settings in Redis are only overwritten by the seeding, before which *)
(* nothing was owed.                                                       *)
LEMMA ReconnectorMoves ==
  ASSUME StoreInv, NEW q \in TaskType, Reconnecting(q),
         task' = [task EXCEPT ![Reconnector] = q],
         task[Reconnector].at # "idle", connected' = connected,
         q.op \in {task[Reconnector].op, "none"},
         q.copy \in {task[Reconnector].copy, EmptyDocument},
         redis' \in RedisType,
         \/ redis'.data = redis.data /\ redis'.index = redis.index
         \/ task[Reconnector].op = "seed",
         reached' = Seen(redis') \/ reached' = reached,
         UNCHANGED <<local, path, temp, owed>>
  PROVE  StoreInv'
<1>1. /\ StoreTypes /\ TraceInv /\ AckInv /\ Reconnector \in Tasks
      /\ Reconnector \notin Operators /\ Reconnector # Flusher
  BY Roles DEF StoreInv
<1>2. RoleOK(Reconnector, q)
  BY <1>1 DEF RoleOK
<1>3. /\ task'[Reconnector] = q /\ \A u \in Tasks \ {Reconnector} : task'[u] = task[u]
      /\ \A u \in Operators : task'[u] = task[u]
  BY <1>1, <1>2, OneTaskSteps, Roles
<1>4. /\ reached' \in [Keys -> SUBSET Values]
      /\ \A k \in Keys : reached[k] \subseteq reached'[k]
  BY <1>1, SeenGrows DEF StoreTypes
<1>5. StoreTypes'
  BY <1>1, <1>2, <1>4, TypesStep DEF StoreTypes
<1>6. TraceInv'
  BY <1>1, <1>2, <1>4, TraceStep
<1>7. ReconnectorApart'
  BY <1>1, <1>3 DEF AckInv, ReconnectorApart
<1>8. AckInv'
  <2>1. CASE redis'.data = redis.data /\ redis'.index = redis.index
    <3>1. \A u \in Operators : Continues(task[u], task'[u])
      BY <1>3 DEF Continues
    <3>2. Visible(redis') = Visible(redis)
      BY <2>1, SameVisible
    <3>. QED
      BY <1>1, <1>7, <2>1, <3>1, <3>2, CalmAck
  <2>2. CASE task[Reconnector].op = "seed"
    BY <1>1, <1>3, <1>7, <2>2, NothingOwed DEF AckInv
  <2>. QED
    BY <2>1, <2>2
<1>. QED
  BY <1>5, <1>6, <1>8 DEF StoreInv

LEMMA ConnectKeeps ==
  ASSUME StoreInv, Connect(Reconnector)
  PROVE  StoreInv'
<1>. DEFINE op == IF NeedsSeed(redis) THEN "seed" ELSE "refill"
            next == [Idle EXCEPT !.at = "export", !.op = op]
            kept(u) == [task[u] EXCEPT !.alone = task[u].alone /\ redis.meta]
<1>1. /\ StoreTypes /\ TraceInv /\ AckInv /\ Reconnector \in Tasks
      /\ Reconnector \notin Operators /\ Reconnector # Flusher
      /\ task \in [Tasks -> TaskType] /\ \A u \in Tasks : RoleOK(u, task[u])
      /\ redis.meta \in BOOLEAN
  BY Roles DEF StoreInv, StoreTypes, RedisType
<1>2. /\ ~connected
      /\ task' = [u \in Tasks |-> IF u = Reconnector THEN next ELSE kept(u)]
      /\ owed' = IF redis.meta THEN owed ELSE [k \in Keys |-> Anything]
      /\ UNCHANGED <<redis, connected, local, path, temp, count, reached>>
  BY DEF Connect
<1>3. /\ next \in TaskType /\ next.at = "export" /\ next.op = op
      /\ next.copy = EmptyDocument
  <2>1. Idle.copy = EmptyDocument /\ op \in {"seed", "refill"}
    BY DEF Idle
  <2>. HIDE DEF op
  <2>. QED
    BY <2>1, Empty DEF TaskType, Places
<1>4. RoleOK(Reconnector, next)
  <2>1. op \in {"seed", "refill"}
    OBVIOUS
  <2>. HIDE DEF op, next
  <2>. QED
    BY <1>1, <1>3, <2>1 DEF RoleOK, Reconnecting
<1>5. \A u \in Tasks :
        /\ kept(u) \in TaskType
        /\ kept(u).at = task[u].at /\ kept(u).op = task[u].op /\ kept(u).key = task[u].key
        /\ kept(u).value = task[u].value /\ kept(u).doc = task[u].doc
        /\ kept(u).copy = task[u].copy /\ kept(u).scan = task[u].scan
        /\ kept(u).alone <=> (task[u].alone /\ redis.meta)
  <2>. SUFFICES ASSUME NEW u \in Tasks
        PROVE  /\ kept(u) \in TaskType
               /\ kept(u).at = task[u].at /\ kept(u).op = task[u].op
               /\ kept(u).key = task[u].key
               /\ kept(u).value = task[u].value /\ kept(u).doc = task[u].doc
               /\ kept(u).copy = task[u].copy /\ kept(u).scan = task[u].scan
               /\ kept(u).alone <=> (task[u].alone /\ redis.meta)
    OBVIOUS
  <2>. DEFINE alone == task[u].alone /\ redis.meta
  <2>1. alone \in BOOLEAN /\ task[u] \in TaskType
    BY <1>1
  <2>2. kept(u) = [task[u] EXCEPT !.alone = alone]
    OBVIOUS
  <2>3. alone <=> (task[u].alone /\ redis.meta)
    OBVIOUS
  <2>. HIDE DEF alone, kept
  <2>4. /\ kept(u) \in TaskType
        /\ kept(u).at = task[u].at /\ kept(u).op = task[u].op
        /\ kept(u).key = task[u].key
        /\ kept(u).value = task[u].value /\ kept(u).doc = task[u].doc
        /\ kept(u).copy = task[u].copy /\ kept(u).scan = task[u].scan
        /\ kept(u).alone = alone
    BY <2>1, <2>2 DEF TaskType
  <2>5. kept(u).alone <=> (task[u].alone /\ redis.meta)
    BY <2>3, <2>4
  <2>. QED
    BY <2>4, <2>5
<1>6. \A u \in Tasks : RoleOK(u, kept(u)) /\ Continues(task[u], kept(u))
  <2>. HIDE DEF kept
  <2>1. \A u \in Tasks : RoleOK(u, kept(u))
    BY <1>1, <1>5 DEF RoleOK, Operating, Flushing, Reconnecting
  <2>2. \A u \in Tasks : Continues(task[u], kept(u))
    BY <1>5 DEF Continues
  <2>. QED
    BY <2>1, <2>2
<1>7. /\ task' \in [Tasks -> TaskType] /\ task'[Reconnector] = next
      /\ \A u \in Tasks \ {Reconnector} : task'[u] = kept(u)
      /\ \A u \in Operators : task'[u] = kept(u) /\ u \in Tasks
  <2>. HIDE DEF next, kept
  <2>. QED
    BY <1>1, <1>2, <1>3, <1>5, Roles
<1>. HIDE DEF next, kept
<1>8. StoreTypes'
  <2>1. \A u \in Tasks : RoleOK(u, task'[u])
    BY <1>4, <1>6, <1>7
  <2>2. owed' \in [Keys -> Values \cup {None, Anything}]
    BY <1>1, <1>2 DEF StoreTypes
  <2>. QED
    BY <1>1, <1>2, <1>7, <2>1, <2>2 DEF StoreTypes
<1>9. TraceInv'
  <2>1. \A u \in Tasks : task'[u].copy \in {task[u].copy, local, EmptyDocument}
    BY <1>3, <1>5, <1>7
  <2>2. \A u \in Operators : task'[u].at = "fallback" =>
               /\ task[u].at = "fallback" /\ task'[u].op = task[u].op
               /\ task'[u].key = task[u].key /\ task'[u].value = task[u].value
               /\ task'[u].doc = task[u].doc
               /\ task[u].op = "put" => task[u].key \in Keys
    BY <1>1, <1>5, <1>7 DEF RoleOK, Operating
  <2>3. /\ \A d \in {local', path'.doc, temp'.doc} : d \in {local, path.doc, temp.doc}
        /\ \A k \in Keys : reached[k] \subseteq reached'[k]
    BY <1>2
  <2>. QED
    BY <1>1, <2>1, <2>2, <2>3, TraceKept
<1>10. AckInv'
  <2>1. \A u \in Operators : Continues(task[u], task'[u])
    BY <1>6, <1>7
  <2>2. CASE redis.meta
    <3>1. op = "refill" /\ owed' = owed
      BY <1>2, <2>2 DEF NeedsSeed
    <3>2. ReconnectorApart'
      BY <1>2, <1>3, <1>7, <3>1 DEF ReconnectorApart
    <3>3. Visible(redis') = Visible(redis)
      BY <1>2, SameVisible
    <3>. QED
      BY <1>1, <1>2, <2>1, <3>1, <3>2, <3>3, CalmAck
  <2>3. CASE ~redis.meta
    <3>1. /\ \A k \in Keys : owed'[k] = Anything
          /\ \A u \in Operators : ~task'[u].alone
      BY <1>2, <1>5, <1>7, <2>3
    <3>2. ReconnectorApart'
      BY <1>2, <3>1 DEF ReconnectorApart
    <3>. QED
      BY <3>1, <3>2, NothingOwed
  <2>. QED
    BY <2>2, <2>3
<1>. QED
  BY <1>8, <1>9, <1>10 DEF StoreInv

LEMMA ReconnectKeeps ==
  ASSUME StoreInv, ReconnectStep
  PROVE  StoreInv'
<1>. DEFINE p == task[Reconnector]
<1>1. /\ StoreTypes /\ p \in TaskType /\ Reconnecting(p) /\ Reconnector \in Tasks
      /\ redis \in RedisType /\ local \in Document /\ connected \in BOOLEAN
      /\ task \in [Tasks -> TaskType] /\ p.doc \in Document
  BY Roles DEF StoreInv, StoreTypes, RoleOK, TaskType
<1>2. CASE Connect(Reconnector)
  BY <1>2, ConnectKeeps
<1>3. CASE Export(Reconnector)
  <2>. DEFINE q == [p EXCEPT !.at = p.op, !.doc = local]
  <2>1. /\ p.at = "export"
        /\ UNCHANGED <<redis, connected, local, path, temp, count, owed, reached>>
    BY <1>3 DEF Export
  <2>2. task' = [task EXCEPT ![Reconnector] = q]
    BY <1>1, <1>3 DEF Export
  <2>3. p.op \in {"seed", "refill"}
    BY <1>1, <2>1 DEF Reconnecting
  <2>4. q \in TaskType /\ q.at = p.op /\ q.op = p.op /\ q.copy = p.copy
    BY <1>1, <2>3 DEF TaskType, Places
  <2>. HIDE DEF q
  <2>5. Reconnecting(q)
    BY <2>3, <2>4 DEF Reconnecting
  <2>. QED
    BY <1>1, <2>1, <2>2, <2>4, <2>5, ReconnectorMoves
<1>4. CASE Refill(Reconnector)
  <2>. DEFINE q == [p EXCEPT !.at = "publish"]
  <2>1. /\ p.at = "refill" /\ task' = [task EXCEPT ![Reconnector] = q]
        /\ redis' = (IF p.doc.health > 0 THEN WithHealth(redis, p.doc.health) ELSE Seeded(redis))
        /\ reached' = Seen(redis')
        /\ UNCHANGED <<connected, local, path, temp, count, owed>>
    BY <1>4 DEF Refill, Refilled, RedisBecomes, Moves
  <2>2. p.doc.health \in 0..MaxFlushes
    BY <1>1 DEF Document
  <2>3. redis' \in RedisType /\ redis'.data = redis.data /\ redis'.index = redis.index
    BY <1>1, <2>1, <2>2, WithHealthIs
  <2>4. q \in TaskType /\ q.at = "publish" /\ q.op = p.op /\ q.copy = p.copy
    BY <1>1 DEF TaskType, Places
  <2>. HIDE DEF q
  <2>5. Reconnecting(q)
    BY <1>1, <2>1, <2>4 DEF Reconnecting
  <2>. QED
    BY <2>1, <2>3, <2>4, <2>5, ReconnectorMoves
<1>5. CASE SeedScan(Reconnector)
  <2>. DEFINE q == [p EXCEPT !.at = "scanned", !.scan = Scan(redis)]
  <2>1. /\ p.at = "seed"
        /\ UNCHANGED <<redis, connected, local, path, temp, count, owed, reached>>
    BY <1>5 DEF SeedScan
  <2>2. task' = [task EXCEPT ![Reconnector] = q]
    BY <1>1, <1>5 DEF SeedScan
  <2>3. q \in TaskType /\ q.at = "scanned" /\ q.op = p.op /\ q.copy = p.copy
    BY <1>1, ScanType DEF TaskType, Places
  <2>. HIDE DEF q
  <2>4. Reconnecting(q)
    BY <1>1, <2>1, <2>3 DEF Reconnecting
  <2>. QED
    BY <1>1, <2>1, <2>2, <2>3, <2>4, ReconnectorMoves
<1>6. CASE SeedImport(Reconnector)
  <2>. DEFINE q == [p EXCEPT !.at = "publish"]
  <2>1. /\ p.at = "scanned" /\ task' = [task EXCEPT ![Reconnector] = q]
        /\ redis' = Imported(redis, p.scan, p.doc) /\ reached' = Seen(redis')
        /\ UNCHANGED <<connected, local, path, temp, count, owed>>
    BY <1>6 DEF SeedImport, RedisBecomes, Moves
  <2>2. redis' \in RedisType
    BY <1>1, <2>1, ImportedIs
  <2>3. q \in TaskType /\ q.at = "publish" /\ q.op = p.op /\ q.copy = p.copy
    BY <1>1 DEF TaskType, Places
  <2>. HIDE DEF q
  <2>4. Reconnecting(q) /\ p.op = "seed"
    BY <1>1, <2>1, <2>3 DEF Reconnecting
  <2>. QED
    BY <2>1, <2>2, <2>3, <2>4, ReconnectorMoves
<1>7. CASE Publish(Reconnector)
  BY <1>1, <1>7, QuietEndKeeps DEF Publish
<1>8. CASE ReconnectFails(Reconnector)
  <2>1. /\ p.at # "idle" /\ task' = [task EXCEPT ![Reconnector] = Idle]
        /\ \/ redis' = redis
           \/ redis' = WithHealth(redis, p.doc.health) \/ redis' = Seeded(redis)
           \/ p.at = "scanned" /\ redis' = Imported(redis, p.scan, p.doc)
        /\ reached' = Seen(redis')
        /\ UNCHANGED <<connected, local, path, temp, count, owed>>
    BY <1>8 DEF ReconnectFails, Refilled, Ends
  <2>2. p.doc.health \in 0..MaxFlushes /\ (p.at = "scanned" => p.op = "seed")
    BY <1>1 DEF Document, Reconnecting
  <2>3. /\ redis' \in RedisType
        /\ \/ redis'.data = redis.data /\ redis'.index = redis.index
           \/ p.op = "seed"
    BY <1>1, <2>1, <2>2, WithHealthIs, ImportedIs
  <2>4. /\ Idle \in TaskType /\ Reconnecting(Idle)
        /\ Idle.op = "none" /\ Idle.copy = EmptyDocument
    BY Empty DEF Idle, Reconnecting
  <2>. QED
    BY <2>1, <2>3, <2>4, ReconnectorMoves
<1>. QED
  BY <1>2, <1>3, <1>4, <1>5, <1>6, <1>7, <1>8 DEF ReconnectStep

-----------------------------------------------------------------------------
(* A call that begins takes the loneliness from those whose keys it shares *)
(* and is alone itself if there are none.                                  *)
LEMMA BeginKeeps ==
  ASSUME StoreInv, NEW t \in Operators, NEW op \in {"put", "import", "reset"},
         NEW key \in Keys \cup {None}, NEW value \in Values \cup {None}, NEW doc \in Document,
         op = "put" => key \in Keys, op = "reset" => doc = EmptyDocument,
         Begin(t, op, key, value, doc)
  PROVE  StoreInv'
<1>. DEFINE new == [Idle EXCEPT !.at = "primary", !.op = op, !.key = key,
                                !.value = value, !.doc = doc]
            overlaps(u) == u \in Operators \ {t} /\ task[u].op # "none"
                             /\ (op # "put" \/ Touches(u, key))
            lonely == ~\E w \in Tasks : overlaps(w)
            first == [new EXCEPT !.alone = lonely]
            kept(u) == IF overlaps(u) THEN [task[u] EXCEPT !.alone = FALSE] ELSE task[u]
<1>1. /\ StoreTypes /\ TraceInv /\ AckInv /\ t \in Tasks
      /\ task \in [Tasks -> TaskType] /\ \A u \in Tasks : RoleOK(u, task[u])
  BY Roles DEF StoreInv, StoreTypes
<1>2. /\ connected
      /\ task' = [u \in Tasks |-> IF u = t THEN first ELSE kept(u)]
      /\ owed' = [j \in Keys |-> IF op # "put" \/ j = key THEN Anything ELSE owed[j]]
      /\ UNCHANGED <<redis, connected, local, path, temp, reached>>
  BY Zenon DEF Begin
<1>3. /\ new \in TaskType /\ new.at = "primary" /\ new.op = op /\ new.key = key
      /\ new.value = value /\ new.doc = doc /\ new.copy = EmptyDocument
  <2>1. Idle.copy = EmptyDocument
    BY DEF Idle
  <2>. QED
    BY <2>1, Empty DEF TaskType, Places
<1>4. /\ first \in TaskType /\ first.at = "primary" /\ first.op = op /\ first.key = key
      /\ first.value = value /\ first.doc = doc /\ first.copy = EmptyDocument
      /\ first.alone = lonely
  <2>1. lonely \in BOOLEAN
    OBVIOUS
  <2>. HIDE DEF lonely, new
  <2>. QED
    BY <1>3, <2>1 DEF TaskType
<1>5. first.alone => \A w \in Tasks : ~overlaps(w)
  <2>1. lonely => \A w \in Tasks : ~overlaps(w)
    OBVIOUS
  <2>. HIDE DEF lonely, overlaps, first
  <2>. QED
    BY <1>4, <2>1
<1>6. \A u \in Tasks :
        /\ kept(u) \in TaskType
        /\ kept(u).at = task[u].at /\ kept(u).op = task[u].op /\ kept(u).key = task[u].key
        /\ kept(u).value = task[u].value /\ kept(u).doc = task[u].doc
        /\ kept(u).copy = task[u].copy /\ kept(u).scan = task[u].scan
        /\ kept(u).alone => task[u].alone /\ ~overlaps(u)
  <2>. SUFFICES ASSUME NEW u \in Tasks
        PROVE  /\ kept(u) \in TaskType
               /\ kept(u).at = task[u].at /\ kept(u).op = task[u].op
               /\ kept(u).key = task[u].key
               /\ kept(u).value = task[u].value /\ kept(u).doc = task[u].doc
               /\ kept(u).copy = task[u].copy /\ kept(u).scan = task[u].scan
               /\ kept(u).alone => task[u].alone /\ ~overlaps(u)
    OBVIOUS
  <2>1. task[u] \in TaskType
    BY <1>1
  <2>2. CASE overlaps(u)
    <3>1. kept(u) = [task[u] EXCEPT !.alone = FALSE]
      BY <2>2
    <3>. HIDE DEF kept, overlaps
    <3>. QED
      BY <2>1, <3>1 DEF TaskType
  <2>3. CASE ~overlaps(u)
    <3>1. kept(u) = task[u]
      BY <2>3
    <3>. HIDE DEF kept, overlaps
    <3>. QED
      BY <2>1, <2>3, <3>1
  <2>. QED
    BY <2>2, <2>3
<1>7. /\ task' \in [Tasks -> TaskType] /\ task'[t] = first
      /\ \A u \in Tasks \ {t} : task'[u] = kept(u)
  <2>. HIDE DEF first, kept
  <2>. QED
    BY <1>1, <1>2, <1>4, <1>6
<1>8. \A u \in Tasks : RoleOK(u, task'[u])
  <2>. HIDE DEF first, kept, overlaps
  <2>1. RoleOK(t, first)
    BY <1>4, Roles DEF RoleOK, Operating
  <2>2. \A u \in Tasks : RoleOK(u, kept(u))
    BY <1>1, <1>6 DEF RoleOK, Operating, Flushing, Reconnecting
  <2>. QED
    BY <1>7, <2>1, <2>2
<1>9. StoreTypes'
  <2>1. owed' \in [Keys -> Values \cup {None, Anything}]
    BY <1>1, <1>2 DEF StoreTypes
  <2>. QED
    BY <1>1, <1>2, <1>7, <1>8, <2>1 DEF StoreTypes
<1>10. TraceInv'
  <2>. HIDE DEF first, kept, overlaps
  <2>1. \A u \in Tasks : task'[u].copy \in {task[u].copy, local, EmptyDocument}
    BY <1>4, <1>6, <1>7
  <2>2. \A u \in Operators : task'[u].at = "fallback" =>
               /\ task[u].at = "fallback" /\ task'[u].op = task[u].op
               /\ task'[u].key = task[u].key /\ task'[u].value = task[u].value
               /\ task'[u].doc = task[u].doc
               /\ task[u].op = "put" => task[u].key \in Keys
    BY <1>1, <1>4, <1>6, <1>7, Roles DEF RoleOK, Operating
  <2>3. /\ \A d \in {local', path'.doc, temp'.doc} : d \in {local, path.doc, temp.doc}
        /\ \A k \in Keys : reached[k] \subseteq reached'[k]
    BY <1>2
  <2>. QED
    BY <1>1, <2>1, <2>2, <2>3, TraceKept
<1>11. AckInv'
  <2>1. \A u \in Operators : u \in Tasks
    BY Roles
  <2>2. \A u \in Operators \ {t}, j \in Keys :
          /\ TouchesKey(task'[u], j) <=> TouchesKey(task[u], j)
          /\ Wanted(task'[u], j) = Wanted(task[u], j)
          /\ task'[u].alone => task[u].alone /\ ~overlaps(u)
          /\ task'[u].at = task[u].at /\ task'[u].scan = task[u].scan
    <3>. HIDE DEF first, kept, overlaps
    <3>. QED
      BY <1>6, <1>7, <2>1 DEF TouchesKey, Wanted
  <2>3. \A j \in Keys : TouchesKey(first, j) => op # "put" \/ j = key
    <3>. HIDE DEF first
    <3>. QED
      BY <1>4 DEF TouchesKey
  <2>4. \A u \in Operators \ {t}, j \in Keys :
          ~overlaps(u) /\ TouchesKey(task[u], j) => ~TouchesKey(first, j)
    <3>1. \A u \in Operators \ {t}, j \in Keys :
            ~overlaps(u) /\ TouchesKey(task[u], j) => op = "put" /\ ~TouchesKey(task[u], key)
      BY DEF Touches, TouchesKey
    <3>. HIDE DEF first, overlaps
    <3>. QED
      BY <2>3, <3>1
  <2>5. /\ task'[t] = first /\ first.at = "primary"
        /\ first.alone => \A u \in Operators : ~overlaps(u)
    <3>. HIDE DEF first, overlaps
    <3>. QED
      BY <1>4, <1>5, <1>7, <2>1
  <2>6. /\ \A j \in Keys : owed[j] = Anything => owed'[j] = Anything
        /\ \A j \in Keys : op # "put" \/ j = key => owed'[j] = Anything
        /\ \A j \in Keys : owed'[j] # Anything => owed'[j] = owed[j]
    <3>. HIDE DEF first, kept
    <3>. QED
      BY <1>2
  <2>. HIDE DEF first, kept, overlaps
  <2>7. AcknowledgedIsKept'
    <3>1. Visible(redis') = Visible(redis)
      BY <1>2, SameVisible
    <3>. QED
      BY <1>1, <2>6, <3>1 DEF AckInv, AcknowledgedIsKept
  <2>8. \A u \in Operators, j \in Keys : TouchesKey(task'[u], j) => owed'[j] = Anything
    <3>. SUFFICES ASSUME NEW u \in Operators, NEW j \in Keys, TouchesKey(task'[u], j)
                  PROVE  owed'[j] = Anything
      OBVIOUS
    <3>1. CASE u = t
      BY <2>3, <2>5, <2>6, <3>1
    <3>2. CASE u # t
      BY <1>1, <2>2, <2>6, <3>2 DEF AckInv, Touches, TouchesKey
    <3>. QED
      BY <3>1, <3>2
  <2>9. \A v, u \in Operators, j \in Keys :
          v # u /\ task'[v].alone /\ TouchesKey(task'[v], j) => ~TouchesKey(task'[u], j)
    <3>. SUFFICES ASSUME NEW v \in Operators, NEW u \in Operators, NEW j \in Keys,
                         v # u, task'[v].alone, TouchesKey(task'[v], j)
                  PROVE  ~TouchesKey(task'[u], j)
      OBVIOUS
    <3>1. CASE v = t
      BY <2>2, <2>4, <2>5, <3>1
    <3>2. CASE u = t
      BY <2>2, <2>4, <2>5, <3>2
    <3>3. CASE v # t /\ u # t
      BY <1>1, <2>2, <3>3 DEF AckInv, Touches, TouchesKey
    <3>. QED
      BY <3>1, <3>2, <3>3
  <2>10. \A u \in Operators : task'[u].alone /\ task'[u].at = "scanned" =>
          /\ \A k \in Overrides : redis'.data[k] # None => k \in task'[u].scan
          /\ (\E k \in AutoChains : redis'.data[k] # None) => "auto" \in task'[u].scan
    <3>. SUFFICES ASSUME NEW u \in Operators, task'[u].alone, task'[u].at = "scanned"
                  PROVE  /\ \A k \in Overrides : redis'.data[k] # None => k \in task'[u].scan
                         /\ (\E k \in AutoChains : redis'.data[k] # None)
                              => "auto" \in task'[u].scan
      OBVIOUS
    <3>1. u # t
      BY <2>5
    <3>2. task[u].alone /\ task[u].at = "scanned" /\ task'[u].scan = task[u].scan
      BY <1>6, <1>7, <2>1, <3>1
    <3>. QED
      BY <1>1, <1>2, <3>2 DEF AckInv
  <2>11. \A u \in Operators, j \in Keys :
          task'[u].alone /\ task'[u].at \in Saving /\ TouchesKey(task'[u], j) =>
            Visible(redis')[j] = Wanted(task'[u], j)
    <3>. SUFFICES ASSUME NEW u \in Operators, NEW j \in Keys, task'[u].alone,
                         task'[u].at \in Saving, TouchesKey(task'[u], j)
                  PROVE  Visible(redis')[j] = Wanted(task'[u], j)
      OBVIOUS
    <3>1. u # t
      BY <2>5 DEF Saving
    <3>2. /\ task[u].alone /\ task[u].at \in Saving /\ Touches(u, j)
          /\ Wanted(task'[u], j) = Wanted(task[u], j)
      BY <2>2, <3>1 DEF Touches, TouchesKey
    <3>3. Visible(redis') = Visible(redis)
      BY <1>2, SameVisible
    <3>. QED
      BY <1>1, <3>2, <3>3 DEF AckInv
  <2>12. ReconnectorApart'
    <3>1. Reconnector \in Tasks \ {t} /\ Reconnecting(task[Reconnector])
      BY <1>1, Roles DEF RoleOK
    <3>2. task[Reconnector].at = "idle" /\ task[Reconnector].op = "none"
      BY <1>1, <1>2, <3>1 DEF AckInv, Reconnecting
    <3>3. task'[Reconnector].at = "idle" /\ task'[Reconnector].op = "none"
      BY <1>6, <1>7, <3>1, <3>2
    <3>. QED
      BY <3>3 DEF ReconnectorApart
  <2>. QED
    BY <2>7, <2>8, <2>9, <2>10, <2>11, <2>12 DEF AckInv, ReconnectorApart, Touches, TouchesKey
<1>. QED
  BY <1>9, <1>10, <1>11 DEF StoreInv

LEMMA CommandsKeep ==
  ASSUME StoreInv, NEW t \in Operators, BeginPut(t) \/ BeginImport(t) \/ BeginReset(t)
  PROVE  StoreInv'
<1>1. CASE BeginPut(t)
  <2>1. PICK k \in Keys, v \in Values \cup {None} : Begin(t, "put", k, v, EmptyDocument)
    BY <1>1 DEF BeginPut
  <2>. QED
    BY <2>1, BeginKeeps, Empty
<1>2. CASE BeginImport(t)
  <2>1. PICK d \in Backups : Begin(t, "import", None, None, d)
    BY <1>2 DEF BeginImport
  <2>. QED
    BY <2>1, BeginKeeps, BackupsAssumption
<1>3. CASE BeginReset(t)
  BY <1>3, BeginKeeps, Empty DEF BeginReset
<1>. QED
  BY <1>1, <1>2, <1>3

(* A crash ends every call; the file gives back what it was given.         *)
LEMMA CrashKeeps ==
  ASSUME StoreInv, Crash
  PROVE  StoreInv'
<1>1. /\ StoreTypes /\ TraceInv /\ AckInv /\ redis \in RedisType
      /\ path \in FileType /\ path.doc \in Document
      /\ Idle.op = "none" /\ Idle.at = "idle" /\ Idle.alone = FALSE
      /\ Idle.copy = EmptyDocument
  BY DEF StoreInv, StoreTypes, Idle, FileType
<1>2. /\ local' = path.doc /\ path' \in {path, NoFile}
      /\ task' = [t \in Tasks |-> Idle] /\ connected' \in BOOLEAN
      /\ redis' \in {redis, Seeded(redis)}
      /\ UNCHANGED <<temp, owed, reached>>
  BY DEF Crash, Opened
<1>3. NoFile \in FileType /\ NoFile.doc = EmptyDocument
  BY Empty DEF NoFile
<1>4. redis' \in RedisType /\ redis'.data = redis.data /\ redis'.index = redis.index
  <2>1. 0 \in 0..MaxFlushes
    BY StoreAssumption
  <2>. QED
    BY <1>1, <1>2, <2>1, WithHealthIs
<1>5. \A t \in Tasks : task'[t] = Idle /\ Idle \in TaskType /\ RoleOK(t, Idle)
  BY <1>2, Empty
<1>6. StoreTypes'
  <2>1. task' \in [Tasks -> TaskType]
    BY <1>2, <1>5
  <2>. QED
    BY <1>1, <1>2, <1>3, <1>4, <1>5, <2>1 DEF StoreTypes
<1>7. TraceInv'
  <2>1. \A d \in {local', path'.doc, temp'.doc} :
          d \in {local, path.doc, temp.doc, EmptyDocument}
    BY <1>2, <1>3
  <2>2. \A u \in Tasks : task'[u].copy = EmptyDocument
    BY <1>1, <1>5
  <2>3. \A u \in Operators : task'[u].at # "fallback"
    BY <1>1, <1>5, Roles
  <2>. QED
    BY <1>1, <1>2, <2>1, <2>2, <2>3, TraceKept
<1>8. AckInv'
  <2>1. \A u \in Operators : Continues(task[u], task'[u])
    BY <1>1, <1>5, Roles DEF Continues
  <2>2. ReconnectorApart'
    BY <1>1, <1>5, Roles DEF ReconnectorApart
  <2>3. Visible(redis') = Visible(redis)
    BY <1>4, SameVisible
  <2>. QED
    BY <1>1, <1>2, <1>4, <2>1, <2>2, <2>3, CalmAck
<1>. QED
  BY <1>6, <1>7, <1>8 DEF StoreInv

-----------------------------------------------------------------------------
LEMMA InitStore == Init => StoreInv
<1>. SUFFICES ASSUME Init PROVE StoreInv
  OBVIOUS
<1>1. /\ Idle \in TaskType /\ \A t \in Tasks : RoleOK(t, Idle)
      /\ Idle.op = "none" /\ Idle.at = "idle" /\ Idle.alone = FALSE
      /\ Idle.copy = EmptyDocument
  BY Empty DEF Idle
<1>2. \A t \in Tasks : task[t] = Idle
  BY DEF Init
<1>3. NoFile \in FileType /\ NoFile.doc = EmptyDocument
  BY Empty DEF NoFile
<1>4. redis \in RedisType /\ \A k \in Keys : redis.data[k] = None
  <2>1. redis = [meta |-> TRUE, data |-> [k \in Keys |-> None], index |-> {}, health |-> 0]
    BY DEF Init
  <2>2. [k \in Keys |-> None] \in Settings /\ 0 \in 0..MaxFlushes
    BY StoreAssumption DEF Settings
  <2>. QED
    BY <2>1, <2>2 DEF RedisType
<1>5. StoreTypes
  <2>1. /\ local = EmptyDocument /\ path = NoFile /\ temp = NoFile /\ connected = TRUE
        /\ task = [t \in Tasks |-> Idle] /\ owed = [k \in Keys |-> None]
        /\ reached = [k \in Keys |-> {}]
    BY DEF Init
  <2>. QED
    BY <1>1, <1>3, <1>4, <2>1, Empty DEF StoreTypes
<1>6. TraceInv
  <2>1. \A had : Traced(EmptyDocument, had)
    BY Empty DEF Traced
  <2>2. local = EmptyDocument /\ path = NoFile /\ temp = NoFile
    BY DEF Init
  <2>3. \A t \in Operators : task[t].at # "fallback"
    BY <1>1, <1>2, Roles
  <2>. QED
    BY <1>1, <1>2, <1>3, <2>1, <2>2, <2>3 DEF TraceInv
<1>7. AckInv
  <2>1. AcknowledgedIsKept
    <3>1. \A k \in Keys : Visible(redis)[k] = None /\ owed[k] = None
      BY <1>4, VisibleType DEF Init
    <3>. QED
      BY <3>1 DEF AcknowledgedIsKept
  <2>2. /\ \A t \in Operators : task[t].op = "none" /\ task[t].alone = FALSE
        /\ task[Reconnector].at = "idle" /\ task[Reconnector].op = "none"
    BY <1>1, <1>2, Roles
  <2>. QED
    BY <2>1, <2>2 DEF AckInv, Touches
<1>. QED
  BY <1>5, <1>6, <1>7 DEF StoreInv

LEMMA NextStore == StoreInv /\ [Next]_vars => StoreInv'
<1>. SUFFICES ASSUME StoreInv, [Next]_vars PROVE StoreInv'
  OBVIOUS
<1>1. ASSUME NEW t \in Operators, BeginPut(t) \/ BeginImport(t) \/ BeginReset(t)
      PROVE  StoreInv'
  BY <1>1, CommandsKeep
<1>2. ASSUME NEW t \in Operators, OperatorStep(t) PROVE StoreInv'
  BY <1>2, PutPrimaryKeeps, ScanPrimaryKeeps, ReplacePrimaryKeeps, PrimaryFailsKeeps,
     SaveKeeps DEF OperatorStep, Savers
<1>3. CASE FlusherStep
  BY <1>3, BeginFlushKeeps, SaveKeeps, MirrorKeeps DEF FlusherStep, Savers
<1>4. CASE ReconnectStep
  BY <1>4, ReconnectKeeps
<1>5. CASE Crash
  BY <1>5, CrashKeeps
<1>6. CASE UNCHANGED vars
  <2>1. StoreTypes'
    BY <1>6 DEF vars, StoreInv, StoreTypes
  <2>2. TraceInv'
    BY <1>6 DEF vars, StoreInv, TraceInv
  <2>3. AckInv'
    <3>1. \A u \in Operators : Continues(task[u], task'[u])
      BY <1>6 DEF vars, Continues
    <3>2. ReconnectorApart'
      BY <1>6 DEF vars, StoreInv, AckInv, ReconnectorApart
    <3>3. Visible(redis') = Visible(redis) /\ redis'.data = redis.data /\ owed' = owed
      BY <1>6, SameVisible DEF vars
    <3>. QED
      BY <3>1, <3>2, <3>3, CalmAck DEF StoreInv
  <2>. QED
    BY <2>1, <2>2, <2>3 DEF StoreInv
<1>. QED
  BY <1>1, <1>2, <1>3, <1>4, <1>5, <1>6 DEF Next

(* The inductive invariant of the state store.                             *)
LEMMA Invariant == Spec => []StoreInv
BY InitStore, NextStore, PTL DEF Spec

-----------------------------------------------------------------------------
(* Every variable has its type, for any keys, values, operators, backups   *)
(* and bounds.                                                             *)
THEOREM StoreTypesTheorem == Spec => []TypeOK
<1>1. StoreInv => TypeOK
  <2>. SUFFICES ASSUME StoreInv PROVE TypeOK
    OBVIOUS
  <2>1. StoreTypes
    BY DEF StoreInv
  <2>2. redis \in [meta : BOOLEAN, data : Settings, index : SUBSET Overrides, health : 0..MaxFlushes]
        /\ connected \in BOOLEAN /\ local \in Document
        /\ owed \in [Keys -> Values \cup {None, Anything}]
        /\ reached \in [Keys -> SUBSET Values]
    BY <2>1 DEF StoreTypes, RedisType
  <2>3. \A file \in {path, temp} : file.doc \in Document
                               /\ file.is \in {"none", "truncated", "torn", "document"}
    BY <2>1 DEF StoreTypes, FileType
  <2>4. \A t \in Tasks : task[t] \in TaskType
    BY <2>1 DEF StoreTypes
  <2>5. \A t \in Tasks :
       /\ task[t].at \in Places
       /\ task[t].key \in Keys \cup {None} /\ task[t].value \in Values \cup {None}
       /\ {task[t].doc, task[t].copy} \subseteq Document
       /\ task[t].scan \subseteq Overrides \cup Containers
       /\ task[t].handle \in {"none", "temp", "path", "gone"} /\ task[t].alone \in BOOLEAN
    BY <2>4 DEF TaskType
  <2>. QED
    BY <2>2, <2>3, <2>5 DEF TypeOK
<1>. QED
  BY <1>1, Invariant, PTL

(* A write acknowledged alone on its key is what Redis answers until       *)
(* another call writes that key, for any number of operators, whatever     *)
(* fails, crashes, reconnects or is seeded meanwhile.                      *)
THEOREM AcknowledgedTheorem == Spec => []AcknowledgedIsKept
<1>1. StoreInv => AcknowledgedIsKept
  BY DEF StoreInv, AckInv
<1>. QED
  BY <1>1, Invariant, PTL

(* Neither the document in memory nor the state file ever has a value that *)
(* was not in Redis first, so no refused command comes to life again.      *)
THEOREM RefusedTheorem == Spec => []RefusedLeavesNoTrace
<1>1. StoreInv => RefusedLeavesNoTrace
  BY DEF StoreInv, TraceInv, Traced, RefusedLeavesNoTrace, Opened
<1>. QED
  BY <1>1, Invariant, PTL

=============================================================================
