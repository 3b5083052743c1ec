--------------------------- MODULE EndpointPoolProofs ---------------------------
(* What the flush loop does not lose (EndpointPool), for any endpoints,    *)
(* configuration, grace of the refresh and bound on events.                *)
EXTENDS EndpointPool, TLAPS

-----------------------------------------------------------------------------
(* Where the tasks are, with the types of what they hold. The refresh      *)
(* holds the old objects until it chooses and the new ones until it        *)
(* installs, never both: so an object of each URL is free.                 *)

OperatorSound ==
  operator.at \in {"persist", "set", "edit"} =>
    operator.url \in Urls /\ operator.value \in Override \cup {None}

SyncSound ==
  sync.at \in {"clear", "apply"} =>
    /\ sync.left \subseteq Urls /\ sync.loaded \in Overrides
    /\ \A u \in sync.left : sync.loaded[u] # None

RecordSound ==
  \/ record = NoRecord
  \/ record.at = "change" /\ record.url \in Urls /\ record.id \in Objects

RefreshSound ==
  /\ DOMAIN refresh = {"at", "old", "new", "rejected"}
  /\ \A u \in Urls : refresh.at # "choose" => refresh.old[u] = Gone
  /\ \A u \in Urls : refresh.at # "install" => refresh.new[u] = Gone

PoolTypes ==
  /\ TypeOK
  /\ disk = [overrides |-> disk.overrides, health |-> disk.health]
  /\ flush \in [Urls -> Health \cup {None}]

(* An endpoint in the pool whose change is not marked is as the flush loop *)
(* has it, or as the store does.                                           *)
HealthKept ==
  \A u \in Urls \ excused :
    InPool(u) /\ ~Pooled(u).dirty
      => Pooled(u).state = IF Taken(u) THEN flush[u] ELSE disk.health[u]

PoolInv == PoolTypes /\ OperatorSound /\ SyncSound /\ RecordSound /\ RefreshSound /\ HealthKept

LEMMA KeptIsMarked == PoolInv => UnsavedIsMarked
BY DEF PoolInv, HealthKept, UnsavedIsMarked

-----------------------------------------------------------------------------
(* Objects                                                                 *)

LEMMA NewSound ==
  ASSUME NEW l \in Limits
  PROVE  NewEndpoint(l) \in Endpoint /\ NewEndpoint(l).dirty = TRUE
BY PoolAssumption DEF NewEndpoint, Endpoint, Health

LEMMA FreeExists ==
  ASSUME PoolInv, NEW u \in Urls
  PROVE  FreeObject(u) \in Objects /\ FreeObject(u) \notin Held(u)
<1>1. \E x, y, z : \A i \in Objects : i \in Held(u) => i \in {x, y, z}
  <2>1. refresh.old[u] = Gone \/ refresh.new[u] = Gone
    BY DEF PoolInv, RefreshSound
  <2>2. \A i \in Objects : i # Gone
    BY DEF Objects, Gone
  <2>3. CASE refresh.old[u] = Gone
    BY <2>2, <2>3 DEF Held
  <2>4. CASE refresh.new[u] = Gone
    BY <2>2, <2>4 DEF Held
  <2>. QED
    BY <2>1, <2>3, <2>4
<1>2. PICK x, y, z : \A i \in Objects : i \in Held(u) => i \in {x, y, z}
  BY <1>1
<1>3. \E i \in Objects : i \notin {x, y, z}
  BY DEF Objects
<1>4. \E i \in Objects : i \notin Held(u)
  BY <1>2, <1>3
<1>. QED
  BY <1>4 DEF FreeObject

(* An object that is changed in place.                                     *)
LEMMA StateSound ==
  ASSUME NEW o \in Endpoint, NEW s \in Health
  PROVE  [o EXCEPT !.state = s] \in Endpoint /\ [o EXCEPT !.state = s].dirty = o.dirty
BY DEF Endpoint

LEMMA DirtySound ==
  ASSUME NEW o \in Endpoint, NEW d \in BOOLEAN
  PROVE  /\ [o EXCEPT !.dirty = d] \in Endpoint
         /\ [o EXCEPT !.dirty = d].dirty = d /\ [o EXCEPT !.dirty = d].state = o.state
BY DEF Endpoint

LEMMA RestoredSound ==
  ASSUME NEW o \in Endpoint, NEW s \in Health
  PROVE  [o EXCEPT !.state = s, !.dirty = FALSE] \in Endpoint
BY DEF Endpoint

(* What is held remains.                                                   *)
LEMMA RemainSound ==
  ASSUME NEW objects \in [Urls -> [Objects -> Endpoint]], Remain(objects)
  PROVE  /\ object' \in [Urls -> [Objects -> Endpoint]]
         /\ \A u \in Urls : \A i \in Objects : i \in Held(u)' => object'[u][i] = objects[u][i]
         /\ \A u \in Urls : InPool(u)' /\ pool'[u] \in Objects =>
              Pooled(u)' = objects[u][pool'[u]]
<1>1. \A u \in Urls : \A i \in Objects :
        object'[u][i] = IF i \in Held(u)' THEN objects[u][i] ELSE NewEndpoint("configured")
  BY DEF Remain
<1>2. object' \in [Urls -> [Objects -> Endpoint]]
  BY NewSound DEF Remain, Limits
<1>3. \A u \in Urls : pool'[u] \in Held(u)'
  BY DEF Held
<1>. QED
  BY <1>1, <1>2, <1>3 DEF Pooled

(* Nothing was stored or taken: what is unmarked now was so before.        *)
LEMMA HealthGoesOn ==
  ASSUME PoolInv, flush' = flush, disk'.health = disk.health, excused \subseteq excused',
         \A u \in Urls \ excused' : InPool(u)' /\ ~Pooled(u)'.dirty =>
            InPool(u) /\ ~Pooled(u).dirty /\ Pooled(u)'.state = Pooled(u).state
  PROVE  HealthKept'
BY DEF PoolInv, HealthKept, Taken

(* The tasks and the overrides go on, the pool is left alone.              *)
LEMMA PoolAlone ==
  ASSUME PoolInv, UNCHANGED <<pool, object, flush, excused, record>>, disk'.health = disk.health,
         PoolTypes', OperatorSound', SyncSound', RefreshSound'
  PROVE  PoolInv'
<1>1. RecordSound'
  BY DEF PoolInv, RecordSound, NoRecord
<1>2. HealthKept'
  BY HealthGoesOn DEF InPool, Pooled
<1>. QED
  BY <1>1, <1>2 DEF PoolInv

-----------------------------------------------------------------------------
(* The start                                                               *)

LEMMA PoolStarts == Init => PoolInv
<1>. SUFFICES ASSUME Init PROVE PoolInv
  OBVIOUS
<1>1. object \in [Urls -> [Objects -> Endpoint]] /\ pool \in [Urls -> Objects \cup {Gone}]
  BY NewSound DEF Init, Objects, Limits
<1>2. TypeOK
  BY <1>1 DEF Init, TypeOK, NoRefresh, Overrides
<1>3. PoolTypes
  BY <1>2 DEF Init, PoolTypes, NothingTaken
<1>4. OperatorSound /\ SyncSound /\ RecordSound
  BY DEF Init, OperatorSound, SyncSound, RecordSound, Idle, NoSync
<1>5. RefreshSound
  BY DEF Init, RefreshSound, NoRefresh
<1>6. \A u \in Urls : \A i \in Objects : object[u][i].dirty = TRUE
  BY NewSound DEF Init, Limits
<1>7. HealthKept
  BY <1>1, <1>6 DEF HealthKept, Pooled, InPool
<1>. QED
  BY <1>3, <1>4, <1>5, <1>7 DEF PoolInv

-----------------------------------------------------------------------------
(* The operator, and a reconnect                                           *)

LEMMA OverrideSound ==
  ASSUME PoolInv, NEW u \in Urls
  PROVE  Present(u) \in Override
BY DEF PoolInv, PoolTypes, TypeOK, Overrides, Present, Override, Limits

LEMMA OperatorBeginsKeeps ==
  ASSUME PoolInv, OperatorBegins
  PROVE  PoolInv'
<1>1. UNCHANGED <<world, sync, refresh, probe, record, flush, excused>>
  BY DEF OperatorBegins
<1>2. PICK u \in Urls : \/ \E l \in Limits : OperatorAdds(u, l)
                        \/ OperatorEnables(u) \/ OperatorDisables(u)
                        \/ OperatorLimits(u) \/ OperatorRemoves(u)
  BY DEF OperatorBegins
<1>3. \E v \in Override \cup {None} : operator' = [at |-> "persist", url |-> u, value |-> v]
  <2>1. CASE \E l \in Limits : OperatorAdds(u, l)
    BY <2>1 DEF OperatorAdds, Operate, Override
  <2>2. /\ [Present(u) EXCEPT !.disabled = "no"] \in Override
        /\ [Present(u) EXCEPT !.disabled = "yes"] \in Override
        /\ [Present(u) EXCEPT !.limits = "changed"] \in Override
    BY OverrideSound DEF Override, Limits
  <2>3. CASE OperatorEnables(u) \/ OperatorDisables(u) \/ OperatorLimits(u)
    BY <2>2, <2>3 DEF OperatorEnables, OperatorDisables, OperatorLimits, Operate
  <2>4. CASE OperatorRemoves(u)
    BY <2>4 DEF OperatorRemoves, Operate
  <2>. QED
    BY <1>2, <2>1, <2>3, <2>4
<1>4. OperatorSound'
  BY <1>3 DEF OperatorSound
<1>5. PoolTypes' /\ SyncSound' /\ RefreshSound'
  BY <1>1 DEF PoolInv, PoolTypes, TypeOK, SyncSound, RefreshSound, world
<1>. QED
  BY <1>1, <1>4, <1>5, PoolAlone DEF world

(* The operator's step, and what else it leaves.                           *)
LEMMA OperatorGoesOn ==
  ASSUME PoolInv, operator.at \in {"persist", "set"},
         operator' = Idle \/ \E next \in {"set", "edit"} : operator' = [operator EXCEPT !.at = next]
  PROVE  OperatorSound'
<1>1. operator.url \in Urls /\ operator.value \in Override \cup {None}
  BY DEF PoolInv, OperatorSound
<1>2. CASE operator' = Idle
  BY <1>2 DEF OperatorSound, Idle
<1>3. CASE \E next \in {"set", "edit"} : operator' = [operator EXCEPT !.at = next]
  <2>1. PICK next \in {"set", "edit"} : operator' = [operator EXCEPT !.at = next]
    BY <1>3
  <2>2. operator'.url = operator.url /\ operator'.value = operator.value
    BY <2>1
  <2>. QED
    BY <1>1, <2>2 DEF OperatorSound
<1>. QED
  BY <1>2, <1>3

LEMMA OperatorWaitsKeeps ==
  ASSUME PoolInv, OperatorPersists \/ OperatorRefused \/ OperatorSets
  PROVE  PoolInv'
<1>1. /\ UNCHANGED <<catalog, pool, object, rejected, restored, sync, refresh, record, flush, excused>>
      /\ operator.at \in {"persist", "set"}
      /\ operator.url \in Urls /\ operator.value \in Override \cup {None}
  BY DEF PoolInv, OperatorSound, OperatorPersists, OperatorRefused, OperatorSets, world
<1>2. OperatorSound'
  <2>1. operator' = Idle \/ \E next \in {"set", "edit"} : operator' = [operator EXCEPT !.at = next]
    BY DEF OperatorPersists, OperatorRefused, OperatorSets
  <2>. QED
    BY <1>1, <2>1, OperatorGoesOn
<1>3. /\ disk = [overrides |-> disk.overrides, health |-> disk.health]
      /\ override \in Overrides /\ disk.overrides \in Overrides
  BY DEF PoolInv, PoolTypes, TypeOK
<1>4. /\ override' \in Overrides
      /\ disk'.overrides \in Overrides /\ disk'.health = disk.health
      /\ disk' = [overrides |-> disk'.overrides, health |-> disk'.health]
  <2>1. CASE OperatorPersists
    <3>. DEFINE stored == [disk.overrides EXCEPT ![operator.url] = operator.value]
    <3>1. stored \in Overrides
      BY <1>1, <1>3 DEF Overrides
    <3>2. disk' = [overrides |-> stored, health |-> disk.health] /\ override' = override
      BY <1>3, <2>1 DEF OperatorPersists
    <3>. QED
      BY <1>3, <3>1, <3>2
  <2>2. CASE OperatorRefused
    BY <1>3, <2>2 DEF OperatorRefused, world
  <2>3. CASE OperatorSets
    <3>1. override' \in Overrides
      BY <1>1, <1>3, <2>3 DEF OperatorSets, Overrides
    <3>. QED
      BY <1>3, <2>3, <3>1 DEF OperatorSets
  <2>. QED
    BY <2>1, <2>2, <2>3
<1>5. PoolTypes' /\ SyncSound' /\ RefreshSound'
  BY <1>1, <1>4 DEF PoolInv, PoolTypes, TypeOK, SyncSound, RefreshSound
<1>. QED
  BY <1>1, <1>2, <1>4, <1>5, PoolAlone

LEMMA SyncBeginsKeeps ==
  ASSUME PoolInv, SyncLoads \/ SyncClears
  PROVE  PoolInv'
<1>1. /\ UNCHANGED <<catalog, disk, pool, object, rejected, restored, operator, refresh, record,
                     flush, excused>>
      /\ override' = override \/ override' = [u \in Urls |-> None]
  BY DEF SyncLoads, SyncClears, world
<1>2. override' \in Overrides /\ disk.overrides \in Overrides
  BY <1>1 DEF PoolInv, PoolTypes, TypeOK, Overrides
<1>3. SyncSound'
  <2>1. CASE SyncLoads
    BY <1>2, <2>1 DEF SyncLoads, SyncSound
  <2>2. CASE SyncClears /\ sync' = NoSync
    BY <2>2 DEF SyncSound, NoSync
  <2>3. CASE SyncClears /\ sync' = [sync EXCEPT !.at = "apply"]
    <3>1. sync'.left = sync.left /\ sync'.loaded = sync.loaded
      BY <2>3
    <3>. QED
      BY <2>3, <3>1 DEF PoolInv, SyncClears, SyncSound
  <2>. QED
    BY <2>1, <2>2, <2>3 DEF SyncClears
<1>4. PoolTypes' /\ OperatorSound' /\ RefreshSound'
  BY <1>1, <1>2 DEF PoolInv, PoolTypes, TypeOK, OperatorSound, RefreshSound
<1>. QED
  BY <1>1, <1>3, <1>4, PoolAlone

(* An endpoint goes, or comes new, or stays as it is.                      *)
Goes(u) == pool' = [pool EXCEPT ![u] = Gone] /\ Remain(object)

LEMMA EditSound ==
  ASSUME PoolInv, NEW u, Goes(u) \/ (u \in Urls /\ \E v \in Override : EditPool(u, v)),
         UNCHANGED <<refresh, record, flush, excused, disk>>
  PROVE  /\ pool' \in [Urls -> Objects \cup {Gone}]
         /\ object' \in [Urls -> [Objects -> Endpoint]]
         /\ HealthKept'
<1>1. pool \in [Urls -> Objects \cup {Gone}] /\ object \in [Urls -> [Objects -> Endpoint]]
  BY DEF PoolInv, PoolTypes, TypeOK
<1>2. CASE Goes(u)
  <2>1. pool' \in [Urls -> Objects \cup {Gone}]
    BY <1>1, <1>2 DEF Goes
  <2>2. object' \in [Urls -> [Objects -> Endpoint]]
    BY <1>1, <1>2, RemainSound DEF Goes
  <2>3. \A w \in Urls : InPool(w)' => pool'[w] = pool[w] /\ pool[w] \in Objects
    BY <1>1, <1>2 DEF Goes, InPool
  <2>4. \A w \in Urls : InPool(w)' => InPool(w) /\ Pooled(w)' = Pooled(w)
    BY <1>1, <1>2, <2>3, RemainSound DEF Goes, InPool, Pooled
  <2>5. HealthKept'
    BY <2>4, HealthGoesOn
  <2>. QED
    BY <2>1, <2>2, <2>5
<1>3. CASE UNCHANGED <<pool, object>>
  <2>1. HealthKept'
    BY <1>3, HealthGoesOn DEF InPool, Pooled
  <2>. QED
    BY <1>1, <1>3, <2>1
<1>4. ASSUME u \in Urls, NEW l \in Limits, pool' = [pool EXCEPT ![u] = FreeObject(u)],
             Remain([object EXCEPT ![u][FreeObject(u)] = NewEndpoint(l)])
      PROVE  /\ pool' \in [Urls -> Objects \cup {Gone}]
             /\ object' \in [Urls -> [Objects -> Endpoint]]
             /\ HealthKept'
  <2>. DEFINE free == FreeObject(u)
              objects == [object EXCEPT ![u][free] = NewEndpoint(l)]
  <2>1. free \in Objects
    BY <1>4, FreeExists
  <2>2. NewEndpoint(l) \in Endpoint /\ NewEndpoint(l).dirty = TRUE
    BY NewSound
  <2>3. /\ objects \in [Urls -> [Objects -> Endpoint]]
        /\ objects[u][free] = NewEndpoint(l)
        /\ \A w \in Urls \ {u} : objects[w] = object[w]
    <3>. HIDE DEF free
    <3>. QED
      BY <1>1, <1>4, <2>1, <2>2
  <2>4. pool' = [pool EXCEPT ![u] = free] /\ Remain(objects)
    BY <1>4
  <2>. HIDE DEF free, objects
  <2>5. pool' \in [Urls -> Objects \cup {Gone}]
    BY <1>1, <2>1, <2>4
  <2>6. object' \in [Urls -> [Objects -> Endpoint]]
    BY <2>3, <2>4, RemainSound
  <2>7. Pooled(u)' = NewEndpoint(l)
    <3>1. pool'[u] = free /\ free # Gone
      BY <1>1, <1>4, <2>1, <2>4 DEF Objects, Gone
    <3>. QED
      BY <1>4, <2>1, <2>3, <2>4, <3>1, RemainSound DEF InPool
  <2>8. \A w \in Urls \ {u} : InPool(w)' => InPool(w) /\ Pooled(w)' = Pooled(w)
    <3>1. \A w \in Urls \ {u} : pool'[w] = pool[w]
      BY <1>1, <2>4
    <3>. QED
      BY <1>1, <2>3, <2>4, <3>1, RemainSound DEF InPool, Pooled
  <2>9. HealthKept'
    BY <2>2, <2>7, <2>8, HealthGoesOn
  <2>. QED
    BY <2>5, <2>6, <2>9
<1>5. ASSUME NEW v \in Override PROVE v.limits \in Limits
  BY DEF Override
<1>. QED
  BY <1>2, <1>3, <1>4, <1>5 DEF EditPool, Goes

LEMMA EditKeeps ==
  ASSUME PoolInv, NEW u, Goes(u) \/ (u \in Urls /\ \E v \in Override : EditPool(u, v)),
         UNCHANGED <<catalog, disk, rejected, restored, refresh, record, flush, excused>>,
         override' \in Overrides, OperatorSound', SyncSound'
  PROVE  PoolInv'
<1>1. /\ pool' \in [Urls -> Objects \cup {Gone}]
      /\ object' \in [Urls -> [Objects -> Endpoint]]
      /\ HealthKept'
  BY EditSound
<1>2. PoolTypes'
  BY <1>1 DEF PoolInv, PoolTypes, TypeOK
<1>3. RecordSound' /\ RefreshSound'
  BY DEF PoolInv, RecordSound, NoRecord, RefreshSound
<1>. QED
  BY <1>1, <1>2, <1>3 DEF PoolInv

LEMMA OperatorEditsKeeps ==
  ASSUME PoolInv, OperatorEdits
  PROVE  PoolInv'
<1>1. /\ UNCHANGED <<catalog, override, disk, rejected, restored, sync, refresh, record, flush, excused>>
      /\ operator' = Idle /\ operator.url \in Urls /\ operator.value \in Override \cup {None}
      /\ override \in Overrides
  BY DEF PoolInv, PoolTypes, TypeOK, OperatorSound, OperatorEdits
<1>2. Goes(operator.url) \/ \E v \in Override : EditPool(operator.url, v)
  BY <1>1 DEF OperatorEdits, Goes
<1>3. OperatorSound' /\ SyncSound'
  BY <1>1 DEF PoolInv, OperatorSound, SyncSound, Idle
<1>. QED
  BY <1>1, <1>2, <1>3, EditKeeps

LEMMA SyncAppliesKeeps ==
  ASSUME PoolInv, NEW u \in Urls, SyncApplies(u)
  PROVE  PoolInv'
<1>1. /\ UNCHANGED <<catalog, disk, rejected, restored, operator, refresh, record, flush, excused>>
      /\ sync.at = "apply" /\ u \in sync.left /\ override \in Overrides
      /\ sync.left \subseteq Urls /\ sync.loaded \in Overrides
      /\ \A w \in sync.left : sync.loaded[w] # None
  BY DEF PoolInv, PoolTypes, TypeOK, SyncSound, SyncApplies
<1>2. sync.loaded[u] \in Override /\ EditPool(u, sync.loaded[u])
  BY <1>1 DEF SyncApplies, Overrides
<1>3. override' \in Overrides
  BY <1>1, <1>2 DEF SyncApplies, Overrides
<1>4. SyncSound'
  <2>1. CASE sync' = NoSync
    BY <2>1 DEF SyncSound, NoSync
  <2>2. CASE sync' = [sync EXCEPT !.left = @ \ {u}]
    <3>1. /\ sync'.loaded = sync.loaded /\ sync'.left \subseteq sync.left
      BY <2>2
    <3>. QED
      BY <1>1, <3>1 DEF SyncSound
  <2>. QED
    BY <2>1, <2>2 DEF SyncApplies
<1>5. OperatorSound'
  BY <1>1 DEF PoolInv, OperatorSound
<1>. QED
  BY <1>1, <1>2, <1>3, <1>4, <1>5, EditKeeps

(* remove_endpoint of a probe.                                             *)
LEMMA ProbeRejectsKeeps ==
  ASSUME PoolInv, NEW u \in Urls, ProbeRejects(u)
  PROVE  PoolInv'
<1>1. /\ UNCHANGED <<catalog, override, disk, pool, object, restored, operator, sync, refresh,
                     record, flush, excused>>
      /\ rejected' = rejected \cup {u}
  BY DEF ProbeRejects
<1>2. PoolTypes' /\ OperatorSound' /\ SyncSound' /\ RefreshSound'
  BY <1>1 DEF PoolInv, PoolTypes, TypeOK, OperatorSound, SyncSound, RefreshSound
<1>. QED
  BY <1>1, <1>2, PoolAlone

LEMMA ProbeRemovesKeeps ==
  ASSUME PoolInv, ProbeRemoves
  PROVE  PoolInv'
<1>1. /\ UNCHANGED <<catalog, override, disk, rejected, restored, operator, sync, refresh, record,
                     flush, excused>>
      /\ Goes(probe.url)
  BY DEF ProbeRemoves, Goes
<1>2. OperatorSound' /\ SyncSound' /\ override' \in Overrides
  BY <1>1 DEF PoolInv, PoolTypes, TypeOK, OperatorSound, SyncSound
<1>. QED
  BY <1>1, <1>2, EditKeeps

-----------------------------------------------------------------------------
(* The refresh                                                             *)

LEMMA MergeLooksKeeps ==
  ASSUME PoolInv, MergeLooks
  PROVE  PoolInv'
<1>. DEFINE q == [refresh EXCEPT !.at = "choose", !.old = pool, !.rejected = rejected]
<1>1. /\ UNCHANGED <<override, disk, pool, object, rejected, restored, operator, sync, record,
                     flush, excused>>
      /\ catalog' \subseteq Urls
      /\ refresh' = q /\ refresh.at = "idle"
  BY DEF PoolInv, PoolTypes, TypeOK, MergeLooks
<1>2. DOMAIN refresh = {"at", "old", "new", "rejected"} /\ \A u \in Urls : refresh.new[u] = Gone
  BY <1>1 DEF PoolInv, RefreshSound
<1>3. q.at = "choose" /\ q.old = pool /\ q.new = refresh.new /\ DOMAIN q = DOMAIN refresh
  BY <1>2
<1>. HIDE DEF q
<1>4. RefreshSound'
  BY <1>1, <1>2, <1>3 DEF RefreshSound
<1>5. PoolTypes'
  BY <1>1, <1>3 DEF PoolInv, PoolTypes, TypeOK
<1>6. OperatorSound' /\ SyncSound'
  BY <1>1 DEF PoolInv, OperatorSound, SyncSound
<1>. QED
  BY <1>1, <1>4, <1>5, <1>6, PoolAlone

(* What a merge makes of the objects: a new one, a listed one as it was, an*)
(* unlisted one that has missed one refresh more.                          *)
Chosen(u, i) ==
  IF i # Merged(u) THEN object[u][i]
  ELSE IF i # refresh.old[u] THEN NewEndpoint(LimitsOf(override[u]))
  ELSE [object[u][i] EXCEPT !.missed = IF u \in Desired THEN 0 ELSE @ + 1]

LEMMA MergedSound ==
  ASSUME PoolInv, NEW u \in Urls
  PROVE  /\ Merged(u) \in Objects \cup {Gone}
         /\ Merged(u) # Gone /\ Merged(u) # refresh.old[u] => Merged(u) \notin Held(u)
         /\ Merged(u) # Gone /\ Merged(u) = refresh.old[u] /\ u \notin Desired => Lingers(u)
<1>1. FreeObject(u) \in Objects /\ FreeObject(u) \notin Held(u)
  BY FreeExists
<1>2. refresh.old[u] \in Objects \cup {Gone} /\ refresh.old[u] \in Held(u)
  BY DEF PoolInv, PoolTypes, TypeOK, Held
<1>. QED
  BY <1>1, <1>2 DEF Merged

LEMMA ChosenSound ==
  ASSUME PoolInv, NEW u \in Urls, NEW i \in Objects
  PROVE  /\ Chosen(u, i) \in Endpoint
         /\ i \in Held(u) => Chosen(u, i).dirty = object[u][i].dirty
                             /\ Chosen(u, i).state = object[u][i].state
<1>1. /\ object[u][i] \in Endpoint
      /\ LimitsOf(override[u]) \in Limits
      /\ i # Gone
  BY DEF PoolInv, PoolTypes, TypeOK, Overrides, Override, LimitsOf, Limits, Objects, Gone
<1>2. CASE i # Merged(u)
  BY <1>1, <1>2 DEF Chosen
<1>3. CASE i = Merged(u) /\ i # refresh.old[u]
  <2>1. i \notin Held(u)
    BY <1>1, <1>3, MergedSound
  <2>. QED
    BY <1>1, <1>3, <2>1, NewSound DEF Chosen
<1>4. CASE i = Merged(u) /\ i = refresh.old[u]
  <2>. DEFINE m == IF u \in Desired THEN 0 ELSE object[u][i].missed + 1
  <2>1. m \in 0..StaleGrace
    <3>1. object[u][i].missed \in 0..StaleGrace /\ StaleGrace \in Nat
      BY <1>1, PoolAssumption DEF Endpoint
    <3>2. u \notin Desired => object[u][i].missed < StaleGrace
      BY <1>1, <1>4, MergedSound DEF Lingers
    <3>. QED
      BY <3>1, <3>2
  <2>2. Chosen(u, i) = [object[u][i] EXCEPT !.missed = m]
    BY <1>4 DEF Chosen
  <2>. HIDE DEF m
  <2>. QED
    BY <1>1, <2>1, <2>2 DEF Endpoint
<1>. QED
  BY <1>2, <1>3, <1>4

LEMMA MergeChoosesKeeps ==
  ASSUME PoolInv, MergeChooses
  PROVE  PoolInv'
<1>. DEFINE objects == [u \in Urls |-> [i \in Objects |-> Chosen(u, i)]]
            q == [NoRefresh EXCEPT !.at = "install", !.new = [u \in Urls |-> Merged(u)]]
<1>1. /\ UNCHANGED <<catalog, override, disk, pool, rejected, restored, operator, sync, record,
                     flush, excused>>
      /\ refresh.at = "choose" /\ refresh' = q
      /\ Remain(objects)
  BY DEF MergeChooses, Chosen
<1>2. /\ DOMAIN q = {"at", "old", "new", "rejected"} /\ q.at = "install"
      /\ q.old = [u \in Urls |-> Gone] /\ q.new = [u \in Urls |-> Merged(u)]
  BY DEF NoRefresh
<1>3. objects \in [Urls -> [Objects -> Endpoint]]
  BY ChosenSound
<1>4. q.new \in [Urls -> Objects \cup {Gone}] /\ q.old \in [Urls -> Objects \cup {Gone}]
  BY <1>2, MergedSound
<1>. HIDE DEF q
<1>5. RefreshSound'
  BY <1>1, <1>2 DEF RefreshSound
<1>6. object' \in [Urls -> [Objects -> Endpoint]]
  <2>. HIDE DEF objects
  <2>. QED
    BY <1>1, <1>3, RemainSound
<1>7. PoolTypes'
  BY <1>1, <1>4, <1>6 DEF PoolInv, PoolTypes, TypeOK
<1>8. ASSUME NEW u \in Urls, InPool(u)'
      PROVE  /\ InPool(u) /\ Pooled(u)'.dirty = Pooled(u).dirty
             /\ Pooled(u)'.state = Pooled(u).state
  <2>1. pool'[u] = pool[u] /\ pool[u] \in Objects /\ pool[u] \in Held(u)
    BY <1>1, <1>8 DEF PoolInv, PoolTypes, TypeOK, InPool, Held
  <2>2. Pooled(u)' = objects[u][pool[u]]
    <3>. HIDE DEF objects
    <3>. QED
      BY <1>1, <1>3, <1>8, <2>1, RemainSound
  <2>3. Pooled(u)' = Chosen(u, pool[u])
    BY <2>1, <2>2
  <2>. QED
    BY <2>1, <2>3, ChosenSound DEF InPool, Objects, Gone, Pooled
<1>9. HealthKept'
  BY <1>1, <1>8, HealthGoesOn
<1>10. OperatorSound' /\ SyncSound' /\ RecordSound'
  BY <1>1 DEF PoolInv, OperatorSound, SyncSound, RecordSound, NoRecord
<1>. QED
  BY <1>5, <1>7, <1>9, <1>10 DEF PoolInv

LEMMA MergeInstallsKeeps ==
  ASSUME PoolInv, MergeInstalls
  PROVE  PoolInv'
<1>1. /\ UNCHANGED <<catalog, override, disk, rejected, restored, operator, sync, record, flush>>
      /\ pool' = refresh.new /\ refresh' = [NoRefresh EXCEPT !.at = "restore"]
      /\ excused' = excused \cup {u \in Urls : refresh.new[u] # pool[u]}
      /\ Remain(object)
  BY DEF MergeInstalls
<1>2. /\ object \in [Urls -> [Objects -> Endpoint]] /\ refresh.new \in [Urls -> Objects \cup {Gone}]
      /\ excused \subseteq Urls
  BY DEF PoolInv, PoolTypes, TypeOK
<1>3. /\ DOMAIN refresh' = {"at", "old", "new", "rejected"}
      /\ refresh'.at = "restore" /\ refresh'.old = [u \in Urls |-> Gone]
      /\ refresh'.new = [u \in Urls |-> Gone]
  BY <1>1 DEF NoRefresh
<1>4. RefreshSound'
  BY <1>3 DEF RefreshSound
<1>5. object' \in [Urls -> [Objects -> Endpoint]]
  BY <1>1, <1>2, RemainSound
<1>6. PoolTypes'
  BY <1>1, <1>2, <1>3, <1>5 DEF PoolInv, PoolTypes, TypeOK
<1>7. ASSUME NEW u \in Urls \ excused', InPool(u)'
      PROVE  InPool(u) /\ Pooled(u)' = Pooled(u)
  <2>1. pool'[u] = pool[u] /\ pool'[u] \in Objects
    BY <1>1, <1>2, <1>7 DEF InPool
  <2>. QED
    BY <1>1, <1>2, <1>7, <2>1, RemainSound DEF InPool, Pooled
<1>8. HealthKept'
  BY <1>1, <1>7, HealthGoesOn
<1>9. OperatorSound' /\ SyncSound' /\ RecordSound'
  BY <1>1 DEF PoolInv, OperatorSound, SyncSound, RecordSound, NoRecord
<1>. QED
  BY <1>4, <1>6, <1>8, <1>9 DEF PoolInv

(* What is restored over an endpoint; the rest is as it was.               *)
LEMMA RestoreSound ==
  ASSUME NEW p, NEW objects \in [Urls -> [Objects -> Endpoint]], RestoreInto(p, objects)
  PROVE  /\ object' \in [Urls -> [Objects -> Endpoint]]
         /\ \A u \in Urls : restored'[u] = None => object'[u] = objects[u]
<1>1. PICK after \in [Urls -> Health] :
        object' = [u \in Urls |-> [i \in Objects |->
          IF i = p[u] /\ restored'[u] # None
            THEN [objects[u][i] EXCEPT !.state = after[u], !.dirty = FALSE] ELSE objects[u][i]]]
  BY DEF RestoreInto
<1>2. ASSUME NEW u \in Urls, NEW i \in Objects
      PROVE  [objects[u][i] EXCEPT !.state = after[u], !.dirty = FALSE] \in Endpoint
  <2>1. objects[u][i] \in Endpoint /\ after[u] \in Health
    OBVIOUS
  <2>. QED
    BY <2>1, RestoredSound
<1>3. object' \in [Urls -> [Objects -> Endpoint]]
  BY <1>1, <1>2
<1>4. ASSUME NEW u \in Urls, restored'[u] = None PROVE object'[u] = objects[u]
  BY <1>1, <1>4
<1>. QED
  BY <1>3, <1>4

LEMMA MergeRestoresKeeps ==
  ASSUME PoolInv, MergeRestores
  PROVE  PoolInv'
<1>1. /\ UNCHANGED <<catalog, override, disk, pool, rejected, restored, operator, sync, record, flush>>
      /\ refresh' = NoRefresh /\ RestoreInto(pool, object)
      /\ excused' = excused \cup {u \in Urls : InPool(u) /\ restored[u] # None}
  BY DEF MergeRestores
<1>2. /\ object' \in [Urls -> [Objects -> Endpoint]]
      /\ \A u \in Urls : restored[u] = None => object'[u] = object[u]
  BY <1>1, RestoreSound DEF PoolInv, PoolTypes, TypeOK
<1>3. RefreshSound'
  BY <1>1 DEF RefreshSound, NoRefresh
<1>4. PoolTypes'
  BY <1>1, <1>2 DEF PoolInv, PoolTypes, TypeOK, NoRefresh
<1>5. \A u \in Urls \ excused' : InPool(u)' => InPool(u) /\ Pooled(u)' = Pooled(u)
  BY <1>1, <1>2 DEF InPool, Pooled
<1>6. HealthKept'
  BY <1>1, <1>5, HealthGoesOn
<1>7. OperatorSound' /\ SyncSound' /\ RecordSound'
  BY <1>1 DEF PoolInv, OperatorSound, SyncSound, RecordSound, NoRecord
<1>. QED
  BY <1>3, <1>4, <1>6, <1>7 DEF PoolInv

-----------------------------------------------------------------------------
(* The health, and the flush loop                                          *)

LEMMA RecordMarksKeeps ==
  ASSUME PoolInv, NEW u \in Urls, RecordMarks(u)
  PROVE  PoolInv'
<1>. DEFINE i == pool[u]
            o == [object[u][i] EXCEPT !.dirty = TRUE]
<1>1. /\ UNCHANGED <<catalog, override, disk, pool, rejected, restored, operator, sync, refresh,
                     flush, excused>>
      /\ record' = [at |-> "change", url |-> u, id |-> i]
      /\ object' = [object EXCEPT ![u] = [object[u] EXCEPT ![i] = o]]
  BY DEF RecordMarks
<1>2. /\ object \in [Urls -> [Objects -> Endpoint]] /\ i \in Objects
      /\ pool \in [Urls -> Objects \cup {Gone}]
  BY DEF PoolInv, PoolTypes, TypeOK, RecordMarks, InPool
<1>3. o \in Endpoint /\ o.dirty = TRUE
  <2>1. object[u][i] \in Endpoint
    BY <1>2
  <2>. QED
    BY <2>1, DirtySound
<1>. HIDE DEF o
<1>4. /\ object' \in [Urls -> [Objects -> Endpoint]]
      /\ object'[u][i] = o /\ \A w \in Urls \ {u} : object'[w] = object[w]
  BY <1>1, <1>2, <1>3
<1>5. PoolTypes'
  BY <1>1, <1>4 DEF PoolInv, PoolTypes, TypeOK
<1>6. RecordSound'
  BY <1>1, <1>2 DEF RecordSound
<1>7. HealthKept'
  <2>1. Pooled(u)'.dirty = TRUE
    BY <1>1, <1>3, <1>4 DEF Pooled
  <2>2. \A w \in Urls \ {u} : InPool(w)' => InPool(w) /\ Pooled(w)' = Pooled(w)
    BY <1>1, <1>4 DEF InPool, Pooled
  <2>. QED
    BY <1>1, <2>1, <2>2, HealthGoesOn
<1>8. OperatorSound' /\ SyncSound' /\ RefreshSound'
  BY <1>1 DEF PoolInv, OperatorSound, SyncSound, RefreshSound
<1>. QED
  BY <1>5, <1>6, <1>7, <1>8 DEF PoolInv

LEMMA RecordChangesKeeps ==
  ASSUME PoolInv, RecordChanges
  PROVE  PoolInv'
<1>. DEFINE r == record.url
            i == record.id
<1>1. PICK s \in Health : Remain([object EXCEPT ![r][i].state = s])
  BY DEF RecordChanges
<1>. DEFINE o == [object[r][i] EXCEPT !.state = s]
            objects == [object EXCEPT ![r] = [object[r] EXCEPT ![i] = o]]
<1>2. /\ UNCHANGED <<catalog, override, disk, pool, rejected, restored, operator, sync, refresh, flush>>
      /\ record' = NoRecord /\ Remain(objects)
      /\ excused' = IF object[r][i].dirty THEN excused ELSE excused \cup {r}
  BY <1>1 DEF RecordChanges
<1>3. /\ object \in [Urls -> [Objects -> Endpoint]] /\ r \in Urls /\ i \in Objects
      /\ pool \in [Urls -> Objects \cup {Gone}] /\ excused \subseteq Urls
  BY DEF PoolInv, PoolTypes, TypeOK, RecordSound, NoRecord, RecordChanges
<1>4. o \in Endpoint /\ o.dirty = object[r][i].dirty
  <2>1. object[r][i] \in Endpoint
    BY <1>3
  <2>. QED
    BY <2>1, StateSound
<1>. HIDE DEF o, r, i
<1>5. /\ objects \in [Urls -> [Objects -> Endpoint]]
      /\ objects[r][i] = o
      /\ \A u \in Urls : \A j \in Objects : u # r \/ j # i => objects[u][j] = object[u][j]
  BY <1>3, <1>4
<1>. HIDE DEF objects
<1>6. object' \in [Urls -> [Objects -> Endpoint]]
  BY <1>2, <1>5, RemainSound
<1>7. PoolTypes'
  BY <1>2, <1>3, <1>6 DEF PoolInv, PoolTypes, TypeOK
<1>8. RecordSound'
  BY <1>2 DEF RecordSound
<1>9. ASSUME NEW u \in Urls \ excused', InPool(u)', ~Pooled(u)'.dirty
      PROVE  InPool(u) /\ Pooled(u)' = Pooled(u)
  <2>1. pool'[u] = pool[u] /\ pool[u] \in Objects
    BY <1>2, <1>3, <1>9 DEF InPool
  <2>2. Pooled(u)' = objects[u][pool[u]]
    BY <1>5, <1>2, <1>9, <2>1, RemainSound
  <2>3. u # r \/ pool[u] # i
    BY <1>2, <1>3, <1>4, <1>5, <1>9, <2>2
  <2>. QED
    BY <1>5, <1>9, <2>1, <2>2, <2>3 DEF InPool, Pooled
<1>10. HealthKept'
  BY <1>2, <1>9, HealthGoesOn
<1>11. OperatorSound' /\ SyncSound' /\ RefreshSound'
  BY <1>2 DEF PoolInv, OperatorSound, SyncSound, RefreshSound
<1>. QED
  BY <1>7, <1>8, <1>10, <1>11 DEF PoolInv

LEMMA SetsHealthKeeps ==
  ASSUME PoolInv, NEW u \in Urls, OperatorSetsHealth(u)
  PROVE  PoolInv'
<1>1. PICK s \in {"cooling", "probation"} :
        object' = [object EXCEPT ![u][pool[u]].state = s, ![u][pool[u]].dirty = TRUE]
  BY DEF OperatorSetsHealth
<1>2. /\ UNCHANGED <<catalog, override, disk, pool, rejected, restored, operator, sync, refresh, probe,
                     record, flush, excused>>
      /\ object \in [Urls -> [Objects -> Endpoint]] /\ pool[u] \in Objects
  BY DEF PoolInv, PoolTypes, TypeOK, OperatorSetsHealth, InPool, tasks
<1>. DEFINE o == [[object[u][pool[u]] EXCEPT !.state = s] EXCEPT !.dirty = TRUE]
<1>3. o \in Endpoint /\ o.dirty = TRUE
  <2>1. object[u][pool[u]] \in Endpoint /\ s \in Health
    BY <1>2 DEF Health
  <2>2. [object[u][pool[u]] EXCEPT !.state = s] \in Endpoint
    BY <2>1, StateSound
  <2>. QED
    BY <2>2, DirtySound
<1>4. object' = [object EXCEPT ![u] = [object[u] EXCEPT ![pool[u]] = o]]
  BY <1>1, <1>2
<1>. HIDE DEF o
<1>5. /\ object' \in [Urls -> [Objects -> Endpoint]]
      /\ object'[u][pool[u]] = o /\ \A w \in Urls \ {u} : object'[w] = object[w]
  BY <1>2, <1>3, <1>4
<1>6. PoolTypes'
  BY <1>2, <1>5 DEF PoolInv, PoolTypes, TypeOK
<1>7. HealthKept'
  <2>1. Pooled(u)'.dirty = TRUE
    BY <1>2, <1>3, <1>5 DEF Pooled
  <2>2. \A w \in Urls \ {u} : InPool(w)' => InPool(w) /\ Pooled(w)' = Pooled(w)
    BY <1>2, <1>5 DEF InPool, Pooled
  <2>. QED
    BY <1>2, <2>1, <2>2, HealthGoesOn
<1>8. OperatorSound' /\ SyncSound' /\ RecordSound' /\ RefreshSound'
  BY <1>2 DEF PoolInv, OperatorSound, SyncSound, RecordSound, NoRecord, RefreshSound
<1>. QED
  BY <1>6, <1>7, <1>8 DEF PoolInv

(* The mark goes with the snapshot.                                        *)
LEMMA FlushTakesKeeps ==
  ASSUME PoolInv, FlushTakes
  PROVE  PoolInv'
<1>. DEFINE dirty == {u \in Urls : InPool(u) /\ Pooled(u).dirty}
<1>1. /\ UNCHANGED <<catalog, override, disk, pool, rejected, restored, operator, sync, refresh, record>>
      /\ flush = NothingTaken
      /\ flush' = [u \in Urls |-> IF u \in dirty THEN Pooled(u).state ELSE None]
      /\ object' = [u \in Urls |-> IF u \in dirty THEN [object[u] EXCEPT ![pool[u]].dirty = FALSE]
                                                  ELSE object[u]]
      /\ excused' = excused \ dirty
  BY DEF FlushTakes
<1>2. /\ object \in [Urls -> [Objects -> Endpoint]]
      /\ pool \in [Urls -> Objects \cup {Gone}] /\ excused \subseteq Urls
  BY DEF PoolInv, PoolTypes, TypeOK
<1>3. ASSUME NEW u \in dirty
      PROVE  /\ pool[u] \in Objects /\ Pooled(u).state \in Health
             /\ object'[u] = [object[u] EXCEPT ![pool[u]] = [object[u][pool[u]] EXCEPT !.dirty = FALSE]]
             /\ [object[u][pool[u]] EXCEPT !.dirty = FALSE] \in Endpoint
             /\ [object[u][pool[u]] EXCEPT !.dirty = FALSE].state = object[u][pool[u]].state
  <2>1. pool[u] \in Objects /\ object[u][pool[u]] \in Endpoint
    BY <1>2 DEF InPool
  <2>2. Pooled(u).state \in Health
    BY <2>1 DEF Pooled, Endpoint
  <2>3. object'[u] = [object[u] EXCEPT ![pool[u]] = [object[u][pool[u]] EXCEPT !.dirty = FALSE]]
    BY <1>1
  <2>. QED
    BY <2>1, <2>2, <2>3, DirtySound
<1>4. /\ \A u \in dirty : object'[u] \in [Objects -> Endpoint]
      /\ \A u \in dirty : object'[u][pool[u]].state = object[u][pool[u]].state
      /\ \A u \in Urls \ dirty : object'[u] = object[u]
  <2>1. \A u \in Urls \ dirty : object'[u] = object[u]
    BY <1>1
  <2>2. ASSUME NEW u \in dirty
        PROVE  /\ object'[u] \in [Objects -> Endpoint]
               /\ object'[u][pool[u]] = [object[u][pool[u]] EXCEPT !.dirty = FALSE]
    <3>1. object[u] \in [Objects -> Endpoint]
      BY <1>2
    <3>2. /\ pool[u] \in Objects
          /\ object'[u] = [object[u] EXCEPT ![pool[u]] = [object[u][pool[u]] EXCEPT !.dirty = FALSE]]
          /\ [object[u][pool[u]] EXCEPT !.dirty = FALSE] \in Endpoint
      BY <1>3
    <3>. DEFINE o == [object[u][pool[u]] EXCEPT !.dirty = FALSE]
    <3>. HIDE DEF o
    <3>3. object'[u] = [object[u] EXCEPT ![pool[u]] = o] /\ o \in Endpoint
      BY <3>2 DEF o
    <3>4. object'[u] \in [Objects -> Endpoint] /\ object'[u][pool[u]] = o
      BY <3>1, <3>2, <3>3
    <3>. QED
      BY <3>4 DEF o
  <2>. HIDE DEF dirty
  <2>. QED
    BY <1>3, <2>1, <2>2
<1>5. object' \in [Urls -> [Objects -> Endpoint]]
  <2>1. DOMAIN object' = Urls /\ object' = [u \in Urls |-> object'[u]]
    BY <1>1
  <2>2. \A u \in Urls : object'[u] \in [Objects -> Endpoint]
    BY <1>2, <1>4
  <2>. QED
    BY <2>1, <2>2
<1>6. flush' \in [Urls -> Health \cup {None}]
  BY <1>1, <1>3
<1>7. PoolTypes'
  BY <1>1, <1>2, <1>5, <1>6 DEF PoolInv, PoolTypes, TypeOK
<1>8. ASSUME NEW u \in Urls \ excused', InPool(u)', ~Pooled(u)'.dirty
      PROVE  Pooled(u)'.state = IF Taken(u)' THEN flush'[u] ELSE disk'.health[u]
  <2>1. CASE u \in dirty
    <3>1. flush'[u] = Pooled(u).state /\ flush'[u] # None
      BY <1>1, <1>3, <2>1, PoolAssumption
    <3>. QED
      BY <1>1, <1>4, <2>1, <3>1 DEF Pooled, Taken
  <2>2. CASE u \notin dirty
    <3>1. /\ u \notin excused /\ flush'[u] = None /\ ~Taken(u) /\ InPool(u)
          /\ Pooled(u)' = Pooled(u)
      BY <1>1, <1>4, <1>8, <2>2 DEF InPool, Pooled, Taken, NothingTaken
    <3>. QED
      BY <1>1, <1>8, <3>1 DEF PoolInv, HealthKept, Taken
  <2>. QED
    BY <2>1, <2>2
<1>9. HealthKept'
  BY <1>8 DEF HealthKept
<1>10. OperatorSound' /\ SyncSound' /\ RecordSound' /\ RefreshSound'
  BY <1>1 DEF PoolInv, OperatorSound, SyncSound, RecordSound, NoRecord, RefreshSound
<1>. QED
  BY <1>7, <1>9, <1>10 DEF PoolInv

LEMMA FlushStoresKeeps ==
  ASSUME PoolInv, FlushStores
  PROVE  PoolInv'
<1>. DEFINE stored == [u \in Urls |-> IF Taken(u) THEN flush[u] ELSE disk.health[u]]
<1>1. /\ UNCHANGED <<catalog, override, pool, object, rejected, restored, operator, sync, refresh,
                     record, excused>>
      /\ disk' = [disk EXCEPT !.health = stored] /\ flush' = NothingTaken
  BY DEF FlushStores
<1>2. /\ disk = [overrides |-> disk.overrides, health |-> disk.health]
      /\ disk.health \in [Urls -> Health \cup {None}] /\ flush \in [Urls -> Health \cup {None}]
      /\ disk.overrides \in Overrides
  BY DEF PoolInv, PoolTypes, TypeOK
<1>3. /\ stored \in [Urls -> Health \cup {None}]
      /\ \A u \in Urls : stored[u] = IF Taken(u) THEN flush[u] ELSE disk.health[u]
  BY <1>2
<1>. HIDE DEF stored
<1>4. disk' = [overrides |-> disk.overrides, health |-> stored]
  BY <1>1, <1>2
<1>5. PoolTypes'
  BY <1>1, <1>2, <1>3, <1>4 DEF PoolInv, PoolTypes, TypeOK, NothingTaken
<1>6. HealthKept'
  BY <1>1, <1>3, <1>4 DEF PoolInv, HealthKept, InPool, Pooled, Taken, NothingTaken
<1>7. OperatorSound' /\ SyncSound' /\ RecordSound' /\ RefreshSound'
  BY <1>1 DEF PoolInv, OperatorSound, SyncSound, RecordSound, NoRecord, RefreshSound
<1>. QED
  BY <1>5, <1>6, <1>7 DEF PoolInv

(* What was taken is marked again, on the endpoint that is there now.      *)
LEMMA FlushFailsKeeps ==
  ASSUME PoolInv, FlushFails
  PROVE  PoolInv'
<1>1. /\ UNCHANGED <<catalog, override, disk, pool, rejected, restored, operator, sync, refresh,
                     record, excused>>
      /\ flush' = NothingTaken
      /\ object' = [u \in Urls |-> IF Taken(u) /\ InPool(u)
                                     THEN [object[u] EXCEPT ![pool[u]].dirty = TRUE] ELSE object[u]]
  BY DEF FlushFails
<1>2. /\ object \in [Urls -> [Objects -> Endpoint]] /\ pool \in [Urls -> Objects \cup {Gone}]
  BY DEF PoolInv, PoolTypes, TypeOK
<1>3. ASSUME NEW u \in Urls, Taken(u), InPool(u)
      PROVE  object'[u] \in [Objects -> Endpoint] /\ object'[u][pool[u]].dirty = TRUE
  <2>. DEFINE o == [object[u][pool[u]] EXCEPT !.dirty = TRUE]
  <2>1. pool[u] \in Objects /\ object[u] \in [Objects -> Endpoint]
    BY <1>2, <1>3 DEF InPool
  <2>2. o \in Endpoint /\ o.dirty = TRUE
    BY <2>1, DirtySound
  <2>3. object'[u] = [object[u] EXCEPT ![pool[u]] = o]
    BY <1>1, <1>3
  <2>. HIDE DEF o
  <2>. QED
    BY <2>1, <2>2, <2>3
<1>4. ASSUME NEW u \in Urls, ~(Taken(u) /\ InPool(u)) PROVE object'[u] = object[u]
  BY <1>1, <1>4
<1>5. object' \in [Urls -> [Objects -> Endpoint]]
  <2>1. object' = [u \in Urls |-> object'[u]]
    BY <1>1
  <2>2. \A u \in Urls : object'[u] \in [Objects -> Endpoint]
    BY <1>2, <1>3, <1>4
  <2>. QED
    BY <2>1, <2>2
<1>6. PoolTypes'
  BY <1>1, <1>5 DEF PoolInv, PoolTypes, TypeOK, NothingTaken
<1>7. HealthKept'
  <2>. SUFFICES ASSUME NEW u \in Urls \ excused, InPool(u)', ~Pooled(u)'.dirty
                PROVE  Pooled(u)'.state = disk.health[u]
    BY <1>1 DEF HealthKept, Taken, NothingTaken
  <2>1. InPool(u) /\ ~Taken(u)
    BY <1>1, <1>3 DEF InPool, Pooled
  <2>2. Pooled(u)' = Pooled(u)
    BY <1>1, <1>4, <2>1 DEF Pooled
  <2>. QED
    BY <2>1, <2>2 DEF PoolInv, HealthKept
<1>8. OperatorSound' /\ SyncSound' /\ RecordSound' /\ RefreshSound'
  BY <1>1 DEF PoolInv, OperatorSound, SyncSound, RecordSound, NoRecord, RefreshSound
<1>. QED
  BY <1>6, <1>7, <1>8 DEF PoolInv

LEMMA RestartKeeps ==
  ASSUME PoolInv, Restart
  PROVE  PoolInv'
<1>. DEFINE listed == catalog \cup ConfigExtra \cup {u \in Urls : disk.overrides[u] # None}
            built == [u \in Urls |-> IF u \in listed \ ConfigDisabled /\ ~Disabled(disk.overrides[u])
                                       THEN 1 ELSE Gone]
            objects == [u \in Urls |-> [i \in Objects |->
                         NewEndpoint(IF i = built[u] THEN LimitsOf(disk.overrides[u]) ELSE "configured")]]
<1>1. /\ UNCHANGED <<catalog, disk>> /\ override' = disk.overrides /\ rejected' = {}
      /\ restored' = disk.health /\ pool' = built /\ RestoreInto(built, objects)
      /\ excused' = {u \in Urls : built[u] # Gone /\ restored'[u] # None}
      /\ operator' = Idle /\ sync' = NoSync /\ refresh' = NoRefresh
      /\ record' = NoRecord /\ flush' = NothingTaken
  BY DEF Restart
<1>2. disk.overrides \in Overrides /\ disk.health \in [Urls -> Health \cup {None}]
  BY DEF PoolInv, PoolTypes, TypeOK
<1>3. built \in [Urls -> Objects \cup {Gone}]
  BY DEF Objects
<1>4. \A u \in Urls : LimitsOf(disk.overrides[u]) \in Limits
  BY <1>2 DEF Overrides, Override, LimitsOf, Limits
<1>5. ASSUME NEW u \in Urls, NEW i \in Objects
      PROVE  objects[u][i] \in Endpoint /\ objects[u][i].dirty = TRUE
  <2>. DEFINE l == IF i = built[u] THEN LimitsOf(disk.overrides[u]) ELSE "configured"
  <2>1. l \in Limits
    BY <1>4 DEF Limits
  <2>2. objects[u][i] = NewEndpoint(l)
    OBVIOUS
  <2>. HIDE DEF l, objects
  <2>. QED
    BY <2>1, <2>2, NewSound
<1>6. objects \in [Urls -> [Objects -> Endpoint]]
  BY <1>5
<1>. HIDE DEF objects, built
<1>7. /\ object' \in [Urls -> [Objects -> Endpoint]]
      /\ \A u \in Urls : restored'[u] = None => object'[u] = objects[u]
  BY <1>1, <1>6, RestoreSound
<1>8. PoolTypes'
  BY <1>1, <1>2, <1>3, <1>7 DEF PoolInv, PoolTypes, TypeOK, NoRefresh, NothingTaken
<1>9. HealthKept'
  <2>. SUFFICES ASSUME NEW u \in Urls \ excused', InPool(u)' PROVE Pooled(u)'.dirty = TRUE
    BY DEF HealthKept
  <2>1. built[u] # Gone /\ restored'[u] = None /\ built[u] \in Objects
    BY <1>1, <1>3 DEF InPool
  <2>. QED
    BY <1>1, <1>5, <1>7, <2>1 DEF Pooled
<1>10. OperatorSound' /\ SyncSound' /\ RecordSound' /\ RefreshSound'
  BY <1>1 DEF OperatorSound, Idle, SyncSound, NoSync, RecordSound, RefreshSound, NoRefresh
<1>. QED
  BY <1>8, <1>9, <1>10 DEF PoolInv

-----------------------------------------------------------------------------
LEMMA PoolKept == PoolInv /\ [Next]_vars => PoolInv'
<1>. SUFFICES ASSUME PoolInv, [Next]_vars PROVE PoolInv'
  OBVIOUS
<1>1. CASE UNCHANGED vars
  <2>1. UNCHANGED <<world, tasks, excused>>
    BY <1>1 DEF vars
  <2>2. PoolTypes' /\ OperatorSound' /\ SyncSound' /\ RefreshSound'
    BY <2>1 DEF PoolInv, PoolTypes, TypeOK, OperatorSound, SyncSound, RefreshSound, world, tasks
  <2>. QED
    BY <2>1, <2>2, PoolAlone DEF world, tasks
<1>2. CASE Next
  BY <1>2, OperatorBeginsKeeps, OperatorWaitsKeeps, OperatorEditsKeeps, SetsHealthKeeps,
     SyncBeginsKeeps, SyncAppliesKeeps, MergeLooksKeeps, MergeChoosesKeeps, MergeInstallsKeeps,
     MergeRestoresKeeps, ProbeRemovesKeeps, ProbeRejectsKeeps, RecordChangesKeeps, RecordMarksKeeps,
     FlushTakesKeeps, FlushStoresKeeps, FlushFailsKeeps, RestartKeeps
     DEF Next, OperatorStep, SyncStep, RefreshStep, ProbeStep, RecordStep, FlushStep
<1>. QED
  BY <1>1, <1>2

LEMMA PoolInvariant == Spec => []PoolInv
BY PoolStarts, PoolKept, PTL DEF Spec

(* Every state is one of the declared types; in particular every object of *)
(* an endpoint that a merge or an edit chooses is free.                    *)
THEOREM PoolTypeCorrect == Spec => []TypeOK
<1>1. PoolInv => TypeOK
  BY DEF PoolInv, PoolTypes
<1>. QED
  BY <1>1, PoolInvariant, PTL

(* registry.rs take_dirty_health, restore_dirty_health: no change of an    *)
(* endpoint's health is lost between the mark, the flush loop and the      *)
(* store, but for those that are excused.                                  *)
THEOREM UnsavedTheorem == Spec => []UnsavedIsMarked
BY KeptIsMarked, PoolInvariant, PTL
=============================================================================
