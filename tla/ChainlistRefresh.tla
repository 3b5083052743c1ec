---------------------------- MODULE ChainlistRefresh ----------------------------
(***************************************************************************)
(* How the list of chains reaches the registry (src/chainlist.rs, the      *)
(* refresh loop of src/main.rs, the manual refresh of src/admin.rs).       *)
(*                                                                         *)
(* A catalog is the number of the version its publisher gave it; 0 is the  *)
(* built-in sample and None is no catalog. The loader asks the network     *)
(* with the ETag of what it has, and falls back on memory, state store,    *)
(* disk and sample. What it loads is then stored and applied, after the    *)
(* flag that keeps two refreshes apart was given back.                     *)
(***************************************************************************)
EXTENDS Integers, FiniteSets

CONSTANTS
  Refreshers,    \* the background loop and requests for a manual refresh
  Manual,        \* those of them that are requests
  Size,          \* the number of chains in each version, the sample included
  MaxFaults,     \* failing answers, writes and panics
  MaxRestarts

None == -1
Free == "nobody"
Versions == DOMAIN Size

VARIABLES
  published,  \* the publisher's version
  faults, restarts,
  loader,     \* LoaderState: the ETag and the last catalog
  disk,       \* the cache file
  stored,     \* the catalog in the state store
  catalog,    \* Registry.catalog
  merged,     \* the snapshot applied to the chains
  flag,       \* who has `refreshing`
  task        \* where each refresher is

vars == <<published, faults, restarts, loader, disk, stored, catalog, merged, flag, task>>

Idle == [at |-> "idle", etag |-> None, version |-> None, fresh |-> FALSE]
Loaded(v, fresh) == [at |-> "loaded", etag |-> None, version |-> v, fresh |-> fresh]

Fails == faults < MaxFaults /\ faults' = faults + 1

(* At the start the loader has nothing: the network, then the state store, *)
(* the cache file and the sample; the result is stored where it comes from *)
(* the network or the store had none, and applied before any task.         *)
FromDisk == IF disk # None THEN disk ELSE 0

(* A list without chains, or with less than half of those before, is not   *)
(* believed.                                                               *)
Believed(v, last) == Size[v] > 0 /\ (last # None => 2 * Size[v] >= Size[last])
Insane(v) == ~Believed(v, loader.last)

Booted(v, etag) ==
  /\ loader' = [etag |-> etag, last |-> v]
  /\ stored' = v /\ catalog' = v /\ merged' = v
  /\ flag' = Free /\ task' = [t \in Refreshers |-> Idle]

Init ==
  /\ published = 1 /\ faults = 0 /\ restarts = 0
  /\ \E v \in {0, 1} :
       /\ loader = [etag |-> IF v = 1 THEN 1 ELSE None, last |-> v]
       /\ disk = IF v = 1 THEN 1 ELSE None
       /\ stored = v /\ catalog = v /\ merged = v
  /\ flag = Free /\ task = [t \in Refreshers |-> Idle]

BootFromNetwork ==
  /\ Believed(published, None)
  /\ disk' = published
  /\ Booted(published, published)
  /\ UNCHANGED faults

(* The store may have been emptied, or be another one than before.         *)
BootFromFallback ==
  /\ \E v \in {stored, FromDisk} : Booted(v, None)
  /\ IF Believed(published, None) THEN Fails ELSE UNCHANGED faults
  /\ UNCHANGED disk

Restart ==
  /\ restarts < MaxRestarts /\ restarts' = restarts + 1
  /\ BootFromNetwork \/ BootFromFallback
  /\ UNCHANGED published

Publish ==
  /\ published + 1 \in Versions /\ published' = published + 1
  /\ UNCHANGED <<faults, restarts, loader, disk, stored, catalog, merged, flag, task>>

-----------------------------------------------------------------------------
(* ChainlistLoader::refresh                                                *)

Begin(t) ==
  /\ task[t].at = "idle" /\ flag = Free
  /\ flag' = t
  /\ task' = [task EXCEPT ![t] = [Idle EXCEPT !.at = "asking", !.etag = loader.etag]]
  /\ UNCHANGED <<published, faults, restarts, loader, disk, stored, catalog, merged>>

Ends(t, result) == flag' = Free /\ task' = [task EXCEPT ![t] = result]

NotModifiedEnds(t) ==
  /\ task[t].at = "asking" /\ task[t].etag = published
  /\ Ends(t, Idle)
  /\ UNCHANGED <<published, faults, restarts, loader, disk, stored, catalog, merged>>

(* 304: what the ETag stands for is in memory, and is applied once more.   *)
NotModified(t) ==
  /\ task[t].at = "asking" /\ task[t].etag = published
  /\ Ends(t, Loaded(loader.last, TRUE))
  /\ UNCHANGED <<published, faults, restarts, loader, disk, stored, catalog, merged>>

Modified(t) ==
  /\ task[t].at = "asking" /\ task[t].etag # published /\ ~Insane(published)
  /\ task' = [task EXCEPT ![t].at = "persist", ![t].version = published]
  /\ UNCHANGED <<published, faults, restarts, loader, disk, stored, catalog, merged, flag>>

PersistCache(t) ==
  /\ task[t].at = "persist"
  /\ \/ disk' = task[t].version /\ UNCHANGED faults
     \/ UNCHANGED disk /\ Fails
  /\ task' = [task EXCEPT ![t].at = "remember"]
  /\ UNCHANGED <<published, restarts, loader, stored, catalog, merged, flag>>

Remember(t) ==
  /\ task[t].at = "remember"
  /\ loader' = [etag |-> task[t].version, last |-> task[t].version]
  /\ Ends(t, Loaded(task[t].version, TRUE))
  /\ UNCHANGED <<published, faults, restarts, disk, stored, catalog, merged>>

(* No answer, no list, or one that is not believed: memory comes first, so *)
(* that the ETag goes on to be that of the catalog in memory.              *)
FallbackToDisk(t) ==
  /\ task[t].at = "asking"
  /\ IF task[t].etag # published /\ Insane(published) THEN UNCHANGED faults ELSE Fails
  /\ loader' = [loader EXCEPT !.last = FromDisk]
  /\ Ends(t, Loaded(FromDisk, FALSE))
  /\ UNCHANGED <<published, restarts, disk, stored, catalog, merged>>

Fallback(t) ==
  /\ task[t].at = "asking"
  /\ IF task[t].etag # published /\ Insane(published) THEN UNCHANGED faults ELSE Fails
  /\ Ends(t, Loaded(loader.last, FALSE))
  /\ UNCHANGED <<published, restarts, loader, disk, stored, catalog, merged>>

(* The task panics, or the client of the request is gone: the guard gives  *)
(* the flag back.                                                          *)
GoneKeepsFlag(t) ==
  /\ task[t].at # "idle" /\ Fails
  /\ task' = [task EXCEPT ![t] = Idle]
  /\ UNCHANGED <<published, restarts, loader, disk, stored, catalog, merged, flag>>

Gone(t) ==
  /\ task[t].at # "idle" /\ Fails
  /\ task' = [task EXCEPT ![t] = Idle]
  /\ flag' = IF flag = t THEN Free ELSE flag
  /\ UNCHANGED <<published, restarts, loader, disk, stored, catalog, merged>>

-----------------------------------------------------------------------------
(* What the caller does with the result                                    *)

(* The loop stores what is fresh and goes on if that fails; the request    *)
(* stores whatever it got and stops if that fails.                         *)
Store(t) ==
  /\ task[t].at = "loaded" /\ (task[t].fresh \/ t \in Manual)
  /\ stored' = task[t].version
  /\ task' = [task EXCEPT ![t].at = "stored"]
  /\ UNCHANGED <<published, faults, restarts, loader, disk, catalog, merged, flag>>

StoreFails(t) ==
  /\ task[t].at = "loaded" /\ (task[t].fresh \/ t \in Manual) /\ Fails
  /\ task' = [task EXCEPT ![t] = IF t \in Manual THEN Idle ELSE [@ EXCEPT !.at = "stored"]]
  /\ UNCHANGED <<published, restarts, loader, disk, stored, catalog, merged, flag>>

StaleIsNotStored(t) ==
  /\ task[t].at = "loaded" /\ ~task[t].fresh /\ t \notin Manual
  /\ task' = [task EXCEPT ![t].at = "stored"]
  /\ UNCHANGED <<published, faults, restarts, loader, disk, stored, catalog, merged, flag>>

SetCatalog(t) ==
  /\ task[t].at = "stored"
  /\ catalog' = task[t].version
  /\ task' = [task EXCEPT ![t].at = "set"]
  /\ UNCHANGED <<published, faults, restarts, loader, disk, stored, merged, flag>>

ApplySnapshot(t) ==
  /\ task[t].at = "set"
  /\ merged' = task[t].version
  /\ task' = [task EXCEPT ![t] = Idle]
  /\ UNCHANGED <<published, faults, restarts, loader, disk, stored, catalog, flag>>

-----------------------------------------------------------------------------
Work(t) ==
  \/ NotModified(t) \/ Modified(t) \/ PersistCache(t) \/ Remember(t)
  \/ Store(t) \/ StaleIsNotStored(t) \/ SetCatalog(t) \/ ApplySnapshot(t)
  \/ (Fallback(t) /\ faults' = faults)

Next ==
  \/ Publish \/ Restart
  \/ \E t \in Refreshers : Begin(t) \/ Work(t) \/ Fallback(t) \/ StoreFails(t) \/ Gone(t)

(* Calls end (the client has a timeout of two seconds), the loop's timer   *)
(* comes round, and now and then no manual refresh has the flag.           *)
Spec ==
  /\ Init /\ [][Next]_vars
  /\ \A t \in Refreshers : WF_vars(Work(t))
  /\ \A t \in Refreshers \ Manual : SF_vars(Begin(t))

-----------------------------------------------------------------------------
(* The ETag that is sent is that of the catalog in memory: otherwise an    *)
(* answer 304 would pin an old catalog until the publisher's next version  *)
(* (chainlist.rs fetch_network, load_with_store_catalog).                  *)
EtagIsOfCatalog == loader.etag # None => loader.etag = loader.last

(* Refreshes may be applied in the wrong order, lost half way, or fail;    *)
(* once the publisher is steady the registry and the state store come to   *)
(* what the loader has, and that is the publisher's list unless the list   *)
(* is not believed.                                                        *)
CatalogConverges ==
  <>[](/\ catalog = loader.last /\ merged = loader.last
       /\ stored = loader.last \/ Insane(published))

NewestArrives == <>[](loader.last = published \/ Insane(published))
=============================================================================
