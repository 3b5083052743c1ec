------------------------------ MODULE StateStore ------------------------------
(***************************************************************************)
(* The durable state of rpcrouter with the optional Redis backend          *)
(* (src/state.rs): ResilientStore writes overrides and auto-enabled chains *)
(* to Redis first and to its local FileStore second, mirrored data (health *)
(* snapshots, hot chains, catalog, audit) the other way round, drops Redis *)
(* after any error, and connects again in the background.                  *)
(*                                                                         *)
(* Tasks interleave at every await: a command to Redis, the lock of the    *)
(* file store's document, and the steps of `save`, which clones the        *)
(* document under the lock and writes it outside, through one temporary    *)
(* file that all saves share.                                              *)
(***************************************************************************)
EXTENDS Naturals

CONSTANTS
  Overrides,    \* keys of chain and endpoint overrides, found through an index
  AutoChains,   \* fields of the hash chains:auto
  Values,       \* what a key can be set to
  None,         \* a key that is not set
  Operators,    \* administrators' requests and promotions of auto-enable
  Flusher,      \* the task state-flush
  Reconnector,  \* the task state-reconnect
  Backups,      \* documents that can be imported
  MaxOps, MaxFlushes, MaxCrashes

Keys == Overrides \cup AutoChains
Tasks == Operators \cup {Flusher, Reconnector}

ASSUME StoreAssumption ==
  /\ Overrides \cap AutoChains = {}
  /\ None \notin Values
  /\ {Flusher, Reconnector} \cap Operators = {} /\ Flusher # Reconnector
  /\ {MaxOps, MaxFlushes, MaxCrashes} \subseteq Nat

VARIABLES
  redis,      \* the namespace in Redis
  connected,  \* ResilientStore.primary is Some
  local,      \* FileStore.inner
  path,       \* what the state file holds
  temp,       \* what its temporary file holds
  task,       \* where each task is in its call
  count,      \* how often the bounded events happened
  owed,       \* history: what Redis must answer for each key
  reached     \* history: the values of each key that Redis ever had

vars == <<redis, connected, local, path, temp, task, count, owed, reached>>

Settings == [Keys -> Values \cup {None}]
Document == [data : Settings, health : 0..MaxFlushes]
EmptyDocument == [data |-> [k \in Keys |-> None], health |-> 0]

(* What is imported was parsed into a StateExport first.                   *)
ASSUME BackupsAssumption == Backups \subseteq Document

(* What a file can hold: nothing, an inode just truncated, what two        *)
(* writers at offset zero leave of each other, or a document.              *)
Whole(d) == [is |-> "document", doc |-> d]
Broken(kind) == [is |-> kind, doc |-> EmptyDocument]
NoFile == Broken("none")
Truncated == Broken("truncated")
Torn == Broken("torn")

(* The keys of Redis that SCAN lists, apart from the overrides themselves. *)
Containers == {"meta", "index", "auto", "health"}

Idle == [at |-> "idle", op |-> "none", key |-> None, value |-> None,
         doc |-> EmptyDocument, copy |-> EmptyDocument,
         scan |-> {}, handle |-> "none", alone |-> FALSE]

Places == {"idle", "primary", "scanned", "fallback", "clone", "compare",
           "write", "rename", "mirror", "export", "seed", "refill", "publish"}

Anything == "anything"

-----------------------------------------------------------------------------
(* Redis                                                                   *)

(* load_overrides reads the keys of the index, load_auto_chains the hash.  *)
Visible(r) == [k \in Keys |-> IF k \in Overrides /\ k \notin r.index THEN None ELSE r.data[k]]

Seen(r) == [k \in Keys |-> reached[k] \cup ({Visible(r)[k]} \ {None})]

(* HSET and SADD, or DEL and SREM, in one transaction; HSET of the hash.   *)
WithKey(r, k, v) ==
  [r EXCEPT !.data[k] = v,
            !.index = IF k \notin Overrides THEN @
                      ELSE IF v = None THEN @ \ {k} ELSE @ \cup {k}]

(* flush_health also writes last_flush_at, and with it the key meta.       *)
WithHealth(r, h) == [r EXCEPT !.health = IF h > 0 THEN h ELSE @, !.meta = TRUE]

Scan(r) ==
  {k \in Overrides : r.data[k] # None}
    \cup (IF r.meta THEN {"meta"} ELSE {})
    \cup (IF r.index # {} THEN {"index"} ELSE {})
    \cup (IF \E k \in AutoChains : r.data[k] # None THEN {"auto"} ELSE {})
    \cup (IF r.health > 0 THEN {"health"} ELSE {})

(* The transaction of import deletes what the scan listed, then writes.    *)
Imported(r, scan, doc) ==
  [data |-> [k \in Keys |->
       IF doc.data[k] # None THEN doc.data[k]
       ELSE IF k \in scan \/ (k \in AutoChains /\ "auto" \in scan) THEN None ELSE r.data[k]],
   index |-> (IF "index" \in scan THEN {} ELSE r.index)
               \cup {k \in Overrides : doc.data[k] # None},
   health |-> IF doc.health > 0 THEN doc.health ELSE IF "health" \in scan THEN 0 ELSE r.health,
   meta |-> TRUE]

(* The transaction of reset only deletes.                                  *)
Wiped(r, scan) ==
  [Imported(r, scan, EmptyDocument) EXCEPT !.meta = r.meta /\ "meta" \notin scan]

(* What an import or a reset leaves of the namespace.                      *)
Replaced(r, call) ==
  IF call.op = "import" THEN Imported(r, call.scan, call.doc) ELSE Wiped(r, call.scan)

(* bootstrap seeds the schema of an empty namespace.                       *)
Seeded(r) == [r EXCEPT !.meta = TRUE]

-----------------------------------------------------------------------------
(* Tasks                                                                   *)

Moves(t, where) == task' = [task EXCEPT ![t].at = where]
Ends(t) == task' = [task EXCEPT ![t] = Idle]

Touches(t, k) == task[t].op \in {"import", "reset"} \/ (task[t].op = "put" /\ task[t].key = k)

Init ==
  /\ redis = [meta |-> TRUE, data |-> [k \in Keys |-> None], index |-> {}, health |-> 0]
  /\ connected = TRUE
  /\ local = EmptyDocument
  /\ path = NoFile /\ temp = NoFile
  /\ task = [t \in Tasks |-> Idle]
  /\ count = [ops |-> 0, crashes |-> 0]
  /\ owed = [k \in Keys |-> None]
  /\ reached = [k \in Keys |-> {}]

(* A call begins by taking primary, and is refused without one.            *)
Begin(t, op, k, v, doc) ==
  /\ task[t] = Idle /\ count.ops < MaxOps
  /\ connected
  /\ LET new == [Idle EXCEPT !.at = "primary", !.op = op, !.key = k, !.value = v, !.doc = doc]
         overlaps(u) == u \in Operators \ {t} /\ task[u].op # "none"
                          /\ (op # "put" \/ Touches(u, k))
     IN task' = [u \in Tasks |->
                   IF u = t THEN [new EXCEPT !.alone = ~\E w \in Tasks : overlaps(w)]
                   ELSE IF overlaps(u) THEN [task[u] EXCEPT !.alone = FALSE] ELSE task[u]]
  /\ owed' = [j \in Keys |-> IF op # "put" \/ j = k THEN Anything ELSE owed[j]]
  /\ count' = [count EXCEPT !.ops = @ + 1]
  /\ UNCHANGED <<redis, connected, local, path, temp, reached>>

BeginPut(t) == \E k \in Keys, v \in Values \cup {None} :
  /\ v = None => k \in Overrides
  /\ Begin(t, "put", k, v, EmptyDocument)
BeginImport(t) == \E d \in Backups : Begin(t, "import", None, None, d)
BeginReset(t) == Begin(t, "reset", None, None, EmptyDocument)

RedisBecomes(r) == /\ redis' = r
                   /\ reached' = Seen(r)

PrimaryFailsOn(t) ==
  /\ task[t].at = "primary" /\ task[t].op = "put"
  /\ connected' = FALSE
  /\ Moves(t, "fallback")
  /\ UNCHANGED <<redis, local, path, temp, count, owed, reached>>

(* What the command a call awaits makes of the namespace.                  *)
Effect(r, call) ==
  CASE call.at = "primary" /\ call.op = "put" -> WithKey(r, call.key, call.value)
    [] call.at = "scanned" -> Replaced(r, call)
    [] OTHER -> r

(* The command fails, with or without effect, as a transaction that timed  *)
(* out does: `failed` drops primary and the call ends in the error.        *)
PrimaryFails(t) ==
  /\ task[t].at \in {"primary", "scanned"}
  /\ redis' \in {redis, Effect(redis, task[t])}
  /\ reached' = Seen(redis')
  /\ connected' = FALSE
  /\ Ends(t)
  /\ UNCHANGED <<local, path, temp, count, owed>>

PutPrimary(t) ==
  /\ task[t].at = "primary" /\ task[t].op = "put"
  /\ RedisBecomes(WithKey(redis, task[t].key, task[t].value))
  /\ Moves(t, "fallback")
  /\ UNCHANGED <<connected, local, path, temp, count, owed>>

ScanPrimary(t) ==
  /\ task[t].at = "primary" /\ task[t].op \in {"import", "reset"}
  /\ task' = [task EXCEPT ![t].at = "scanned", ![t].scan = Scan(redis)]
  /\ UNCHANGED <<redis, connected, local, path, temp, count, owed, reached>>

ReplacePrimary(t) ==
  /\ task[t].at = "scanned" /\ task[t].op \in {"import", "reset"}
  /\ RedisBecomes(Replaced(redis, task[t]))
  /\ task' = [task EXCEPT ![t].at = "fallback", ![t].scan = {}]
  /\ UNCHANGED <<connected, local, path, temp, count, owed>>

(* The document of the file store, under its lock.                         *)
PutFallback(t) ==
  /\ task[t].at = "fallback"
  /\ local' = CASE task[t].op = "put" -> [local EXCEPT !.data[task[t].key] = task[t].value]
                [] task[t].op = "flush" -> [local EXCEPT !.health = task[t].doc.health]
                [] OTHER -> task[t].doc
  /\ Moves(t, "clone")
  /\ UNCHANGED <<redis, connected, path, temp, count, owed, reached>>

-----------------------------------------------------------------------------
(* FileStore::save                                                         *)

CloneDocument(t) ==
  /\ task[t].at = "clone"
  /\ task' = [task EXCEPT ![t].at = "compare", ![t].copy = local]
  /\ UNCHANGED <<redis, connected, local, path, temp, count, owed, reached>>

(* The call returns Ok: what it wrote is owed, if it was alone.            *)
Acknowledge(t) ==
  owed' = IF ~task[t].alone THEN owed
          ELSE [k \in Keys |-> IF Touches(t, k)
                  THEN IF task[t].op = "put" THEN task[t].value ELSE task[t].doc.data[k]
                  ELSE owed[k]]

Saved(t) ==
  IF t = Flusher
  THEN IF connected THEN Moves(t, "mirror") /\ UNCHANGED owed
                    ELSE Ends(t) /\ UNCHANGED owed
  ELSE Acknowledge(t) /\ Ends(t)

Unchanged(t) ==
  /\ task[t].at = "compare" /\ path = Whole(task[t].copy)
  /\ Saved(t)
  /\ UNCHANGED <<redis, connected, local, path, temp, count, reached>>

TruncateExclusive(t) ==
  /\ task[t].at = "compare" /\ path # Whole(task[t].copy)
  /\ IF temp = NoFile
       THEN temp' = Truncated /\ task' = [task EXCEPT ![t].at = "write", ![t].handle = "temp"]
       ELSE temp' = temp /\ Ends(t)
  /\ UNCHANGED <<redis, connected, local, path, count, owed, reached>>

(* The document differs from the file: the temporary file is opened or     *)
(* created, and truncated.                                                 *)
Truncate(t) ==
  /\ task[t].at = "compare" /\ path # Whole(task[t].copy)
  /\ temp' = Truncated
  /\ task' = [task EXCEPT ![t].at = "write", ![t].handle = "temp"]
  /\ UNCHANGED <<redis, connected, local, path, count, owed, reached>>

(* Where another writer has written since, the longer text leaves a rest.  *)
After(content, d) == IF content = Truncated THEN {Whole(d)} ELSE {Whole(d), Torn}

(* The handle follows the inode, which another rename may have moved into  *)
(* place, and a further one replaced.                                      *)
WriteDocument(t) ==
  /\ task[t].at = "write"
  /\ CASE task[t].handle = "temp" -> temp' \in After(temp, task[t].copy) /\ path' = path
       [] task[t].handle = "path" -> path' \in After(path, task[t].copy) /\ temp' = temp
       [] OTHER -> UNCHANGED <<path, temp>>
  /\ task' = [task EXCEPT ![t].at = "rename", ![t].copy = EmptyDocument]
  /\ UNCHANGED <<redis, connected, local, count, owed, reached>>

Renamed(h) == CASE h = "temp" -> "path" [] h = "path" -> "gone" [] OTHER -> h

Rename(t) ==
  /\ task[t].at = "rename" /\ temp # NoFile
  /\ path' = temp /\ temp' = NoFile
  /\ LET renamed == [u \in Tasks |-> [task[u] EXCEPT !.handle = Renamed(@)]]
     IN IF t = Flusher
        THEN /\ task' = [renamed EXCEPT ![t] =
                           IF connected THEN [@ EXCEPT !.at = "mirror", !.handle = "none"] ELSE Idle]
             /\ UNCHANGED owed
        ELSE /\ Acknowledge(t)
             /\ task' = [renamed EXCEPT ![t] = Idle]
  /\ UNCHANGED <<redis, connected, local, count, reached>>

(* Another save has renamed the file away: the call ends in an error.      *)
RenameFails(t) ==
  /\ task[t].at = "rename" /\ temp = NoFile
  /\ Ends(t)
  /\ UNCHANGED <<redis, connected, local, path, temp, count, owed, reached>>

-----------------------------------------------------------------------------
(* Mirrored data: the file first, Redis if there is one, no error if not.  *)

BeginFlush(t) == \E h \in local.health..MaxFlushes :
  /\ t = Flusher /\ task[t] = Idle /\ h <= local.health + 1
  /\ task' = [task EXCEPT ![t].at = "fallback", ![t].op = "flush", ![t].doc.health = h]
  /\ UNCHANGED <<redis, connected, local, path, temp, count, owed, reached>>

Mirror(t) ==
  /\ task[t].at = "mirror"
  /\ RedisBecomes(WithHealth(redis, task[t].doc.health))
  /\ Ends(t)
  /\ UNCHANGED <<connected, local, path, temp, count, owed>>

MirrorFails(t) ==
  /\ task[t].at = "mirror"
  /\ redis' \in {redis, WithHealth(redis, task[t].doc.health)}
  /\ reached' = Seen(redis')
  /\ connected' = FALSE
  /\ Ends(t)
  /\ UNCHANGED <<local, path, temp, count, owed>>

-----------------------------------------------------------------------------
(* ResilientStore::reconnect                                               *)

NeedsSeedAlways(r) == TRUE

NeedsSeed(r) == ~r.meta

(* Reads meta. What calls with the old connection write from here on races *)
(* with the seeding of a namespace without meta, which owes nothing.       *)
Connect(t) ==
  /\ t = Reconnector /\ task[t] = Idle /\ ~connected
  /\ LET next == [Idle EXCEPT !.at = "export", !.op = IF NeedsSeed(redis) THEN "seed" ELSE "refill"]
     IN task' = [u \in Tasks |-> IF u = t THEN next
                                ELSE [task[u] EXCEPT !.alone = @ /\ redis.meta]]
  /\ owed' = IF redis.meta THEN owed ELSE [k \in Keys |-> Anything]
  /\ UNCHANGED <<redis, connected, local, path, temp, count, reached>>

Export(t) ==
  /\ task[t].at = "export"
  /\ task' = [task EXCEPT ![t].at = task[t].op, ![t].doc = local]
  /\ UNCHANGED <<redis, connected, local, path, temp, count, owed, reached>>

(* A namespace with meta keeps what it has and gets the local health.      *)
Refilled(r, doc) == IF doc.health > 0 THEN WithHealth(r, doc.health) ELSE Seeded(r)

Refill(t) ==
  /\ task[t].at = "refill"
  /\ RedisBecomes(Refilled(redis, task[t].doc))
  /\ Moves(t, "publish")
  /\ UNCHANGED <<connected, local, path, temp, count, owed>>

(* A namespace without it gets the local document, as by an import.        *)
SeedScan(t) ==
  /\ task[t].at = "seed"
  /\ task' = [task EXCEPT ![t].at = "scanned", ![t].scan = Scan(redis)]
  /\ UNCHANGED <<redis, connected, local, path, temp, count, owed, reached>>

SeedImport(t) ==
  /\ task[t].at = "scanned" /\ t = Reconnector
  /\ RedisBecomes(Imported(redis, task[t].scan, task[t].doc))
  /\ Moves(t, "publish")
  /\ UNCHANGED <<connected, local, path, temp, count, owed>>

Publish(t) ==
  /\ task[t].at = "publish"
  /\ connected' = TRUE
  /\ Ends(t)
  /\ UNCHANGED <<redis, local, path, temp, count, owed, reached>>

(* An attempt that fails may have written what it was about to write.      *)
ReconnectFails(t) ==
  /\ t = Reconnector /\ task[t].at \in {"export", "seed", "refill", "scanned"}
  /\ redis' \in {redis} \cup
       CASE task[t].at = "refill" -> {Refilled(redis, task[t].doc)}
         [] task[t].at = "scanned" -> {Imported(redis, task[t].scan, task[t].doc)}
         [] OTHER -> {}
  /\ reached' = Seen(redis')
  /\ Ends(t)
  /\ UNCHANGED <<connected, local, path, temp, count, owed>>

-----------------------------------------------------------------------------
(* The surroundings                                                        *)

(* FileStore::open: a file that is no document counts as an empty one.     *)
Opened(content) == content.doc

(* The process dies and starts again: the local document is read from the  *)
(* file, and Redis is there if it answers in time.                         *)
Crash ==
  /\ count.crashes < MaxCrashes
  /\ count' = [count EXCEPT !.crashes = @ + 1]
  /\ local' = Opened(path)
  /\ path' = IF path \in {Truncated, Torn} THEN NoFile ELSE path
  /\ task' = [t \in Tasks |-> Idle]
  /\ connected' \in BOOLEAN
  /\ redis' = IF connected' THEN Seeded(redis) ELSE redis
  /\ UNCHANGED <<temp, owed, reached>>

SaveStep(t) ==
  \/ PutFallback(t) \/ CloneDocument(t) \/ Unchanged(t)
  \/ Truncate(t) \/ WriteDocument(t) \/ Rename(t) \/ RenameFails(t)

OperatorStep(t) == PutPrimary(t) \/ ScanPrimary(t) \/ ReplacePrimary(t) \/ PrimaryFails(t) \/ SaveStep(t)

FlusherStep == BeginFlush(Flusher) \/ SaveStep(Flusher) \/ Mirror(Flusher) \/ MirrorFails(Flusher)

ReconnectStep ==
  \/ Connect(Reconnector) \/ Export(Reconnector) \/ Refill(Reconnector) \/ SeedScan(Reconnector)
  \/ SeedImport(Reconnector) \/ Publish(Reconnector) \/ ReconnectFails(Reconnector)

Next ==
  \/ \E t \in Operators : BeginPut(t) \/ BeginImport(t) \/ BeginReset(t) \/ OperatorStep(t)
  \/ FlusherStep \/ ReconnectStep \/ Crash

Spec == Init /\ [][Next]_vars

(* Calls run to their end, the flush loop ticks for ever. Redis may stay   *)
(* away: nothing is assumed of the network.                                *)
FairSpec == /\ Spec
            /\ WF_vars(FlusherStep)
            /\ \A t \in Operators : WF_vars(OperatorStep(t))

-----------------------------------------------------------------------------
TypeOK ==
  /\ redis \in [meta : BOOLEAN, data : Settings, index : SUBSET Overrides, health : 0..MaxFlushes]
  /\ connected \in BOOLEAN
  /\ local \in Document
  /\ \A file \in {path, temp} : file.doc \in Document
                               /\ file.is \in {"none", "truncated", "torn", "document"}
  /\ \A t \in Tasks :
       /\ task[t].at \in Places
       /\ task[t].key \in Keys \cup {None} /\ task[t].value \in Values \cup {None}
       /\ {task[t].doc, task[t].copy} \subseteq Document /\ task[t].scan \subseteq Overrides \cup Containers
       /\ task[t].handle \in {"none", "temp", "path", "gone"} /\ task[t].alone \in BOOLEAN
  /\ owed \in [Keys -> Values \cup {None, Anything}]
  /\ reached \in [Keys -> SUBSET Values]

(* A write that was acknowledged, alone on its key, is what Redis answers  *)
(* until another call writes that key: neither errors of other calls, nor  *)
(* outages, crashes and reconnects take it back, since the local document  *)
(* is not imported over a namespace that has its meta (state.rs reconnect).*)
(* After a reset there is no meta until the next flush, and nothing owed.  *)
AcknowledgedIsKept ==
  \A k \in Keys : owed[k] # Anything => Visible(redis)[k] = owed[k]

(* A write that Redis never took leaves no trace: neither the local        *)
(* document nor the state file holds a value that was never in Redis, so   *)
(* no restart or reseeding brings a refused command to life.               *)
RefusedLeavesNoTrace ==
  \A k \in Keys : \A d \in {local, Opened(path)} : d.data[k] \in reached[k] \cup {None}

(* However saves race for the temporary file and whatever a crash leaves   *)
(* of it, the state file ends as the document in memory, because the flush *)
(* loop saves again and compares first (state.rs save).                    *)
FileCatchesUp == <>[](path = Whole(local))

(* docs/DESIGN-v2.md:327: the file is written atomically.                  *)
FileIsWhole == path \notin {Truncated, Torn}
=============================================================================
