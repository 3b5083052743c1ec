------------------------------ MODULE EndpointPool ------------------------------
(***************************************************************************)
(* The pool of endpoints of one chain that stays awake (src/registry.rs):  *)
(* the refresh of the chainlist merges a new pool from the old one, while  *)
(* operators change the runtime overrides of endpoints and edit the pool,  *)
(* a reconnect of the store applies the stored overrides anew, probes      *)
(* reject endpoints of another chain, requests change the health of the    *)
(* endpoints, and the flush loop stores what is marked dirty.              *)
(*                                                                         *)
(* The pool holds Arcs: an endpoint that one task replaces may be put back *)
(* by another that still holds it. The objects of a URL are numbered.      *)
(***************************************************************************)
EXTENDS Naturals, FiniteSets

CONSTANTS
  Urls,            \* endpoints of the public pool, never the fallback's
  ConfigDisabled,  \* disabled_endpoints and those of extra_endpoints
  ConfigExtra,     \* of the chain's section in the configuration
  None,
  StaleGrace,      \* refreshes after which an unlisted endpoint is dropped
  MaxEvents        \* commands, new catalogs, reconnects, records, failures and restarts

VARIABLES
  catalog,   \* URLs the current catalog lists for the chain
  override,  \* runtime_endpoint_overrides
  disk,      \* the overrides and the health in the store
  pool,      \* ChainState.endpoints: the object of each URL, or Gone
  object,    \* the objects
  rejected,  \* ChainState.rejected
  restored,  \* restored_health
  operator, sync, refresh, probe, record, flush,  \* where each task is
  count,     \* of the bounded events
  excused    \* history: URLs whose change the dirty flag has missed

world == <<catalog, override, disk, pool, object, rejected, restored>>
tasks == <<operator, sync, refresh, probe, record, flush>>
vars == <<world, tasks, count, excused>>

Limits == {"configured", "changed"}
Health == {"active", "cooling", "probation"}

ASSUME PoolAssumption ==
  /\ ConfigDisabled \subseteq Urls /\ ConfigExtra \subseteq Urls
  /\ None \notin Urls \cup Health
  /\ {StaleGrace, MaxEvents} \subseteq Nat

Override == [disabled : {"yes", "no", "unset"}, limits : Limits]
Overrides == [Urls -> Override \cup {None}]

Gone == 0
Objects == 1..4
Endpoint == [limits : Limits, state : Health, dirty : BOOLEAN, missed : 0..StaleGrace]
NewEndpoint(l) == [limits |-> l, state |-> "probation", dirty |-> TRUE, missed |-> 0]

Idle == [at |-> "idle", url |-> None, value |-> None]
NoRecord == [at |-> "idle", url |-> None, id |-> Gone]
NoRefresh == [at |-> "idle", old |-> [u \in Urls |-> Gone], new |-> [u \in Urls |-> Gone], rejected |-> {}]
NoSync == [at |-> "idle", left |-> {}, loaded |-> [u \in Urls |-> None]]
NothingTaken == [u \in Urls |-> None]

InPool(u) == pool[u] # Gone
Pooled(u) == object[u][pool[u]]
LimitsOf(v) == IF v = None THEN "configured" ELSE v.limits
Disabled(v) == v # None /\ v.disabled = "yes"

(* An object that neither the pool nor a task holds is free.               *)
Held(u) == {pool[u], refresh.old[u], refresh.new[u]} \cup (IF record.url = u THEN {record.id} ELSE {})
FreeObject(u) == CHOOSE i \in Objects : i \notin Held(u)

(* The objects after a step that may let go of some.                       *)
Remain(objects) ==
  object' = [u \in Urls |-> [i \in Objects |->
               IF i \in Held(u)' THEN objects[u][i] ELSE NewEndpoint("configured")]]

Init ==
  /\ catalog \in SUBSET Urls
  /\ override = [u \in Urls |-> None]
  /\ disk = [overrides |-> override, health |-> [u \in Urls |-> None]]
  /\ object = [u \in Urls |-> [i \in Objects |-> NewEndpoint("configured")]]
  /\ pool = [u \in Urls |-> IF u \in (catalog \cup ConfigExtra) \ ConfigDisabled THEN 1 ELSE Gone]
  /\ rejected = {}
  /\ restored = [u \in Urls |-> None]
  /\ operator = Idle /\ sync = NoSync /\ refresh = NoRefresh
  /\ probe = Idle /\ record = NoRecord /\ flush = NothingTaken
  /\ count = 0
  /\ excused = {}

(* What comes from outside or goes wrong is bounded.                       *)
Happens == count < MaxEvents /\ count' = count + 1

-----------------------------------------------------------------------------
(* set_endpoint_override: the entry of the map, then the pool under its    *)
(* lock. Given limits always make a new endpoint.                          *)

EditPool(u, v) ==
  IF Disabled(v)
    THEN pool' = [pool EXCEPT ![u] = Gone] /\ Remain(object)
  ELSE IF InPool(u) /\ v.limits = "configured"
    THEN UNCHANGED <<pool, object>>
  ELSE /\ pool' = [pool EXCEPT ![u] = FreeObject(u)]
       /\ Remain([object EXCEPT ![u][FreeObject(u)] = NewEndpoint(v.limits)])

Known(u) == InPool(u) \/ override[u] # None \/ u \in catalog \cup ConfigExtra

Present(u) == IF override[u] = None THEN [disabled |-> "unset", limits |-> "configured"] ELSE override[u]

Operate(u, next, v) ==
  /\ operator = Idle /\ Happens
  /\ operator' = [at |-> next, url |-> u, value |-> v]

(* endpoint_action reads the override, and what it writes later starts     *)
(* from there.                                                             *)
OperatorAdds(u, l) == Operate(u, "persist", [disabled |-> "no", limits |-> l])
OperatorEnables(u) == Known(u) /\ Operate(u, "persist", [Present(u) EXCEPT !.disabled = "no"])
OperatorDisables(u) == InPool(u) /\ Operate(u, "persist", [Present(u) EXCEPT !.disabled = "yes"])
OperatorLimits(u) == Known(u) /\ Operate(u, "persist", [Present(u) EXCEPT !.limits = "changed"])
OperatorRemoves(u) == InPool(u) /\ override[u] # None /\ u \notin catalog \cup ConfigExtra
                        /\ Operate(u, "persist", None)

OperatorBegins ==
  /\ \E u \in Urls : \/ \E l \in Limits : OperatorAdds(u, l)
                     \/ OperatorEnables(u) \/ OperatorDisables(u)
                     \/ OperatorLimits(u) \/ OperatorRemoves(u)
  /\ UNCHANGED <<world, sync, refresh, probe, record, flush, excused>>

OperatorPersists ==
  /\ operator.at = "persist"
  /\ disk' = [disk EXCEPT !.overrides[operator.url] = operator.value]
  /\ operator' = [operator EXCEPT !.at = "set"]
  /\ UNCHANGED <<catalog, override, pool, object, rejected, restored,
                 sync, refresh, probe, record, flush, count, excused>>

OperatorRefused ==
  /\ operator.at = "persist" /\ Happens
  /\ operator' = Idle
  /\ UNCHANGED <<world, sync, refresh, probe, record, flush, excused>>

(* remove_runtime_endpoint leaves the pool alone if the entry is gone.     *)
OperatorSets ==
  /\ operator.at = "set"
  /\ override' = [override EXCEPT ![operator.url] = operator.value]
  /\ operator' = IF operator.value = None /\ override[operator.url] = None
                   THEN Idle ELSE [operator EXCEPT !.at = "edit"]
  /\ UNCHANGED <<catalog, disk, pool, object, rejected, restored,
                 sync, refresh, probe, record, flush, count, excused>>

OperatorEdits ==
  /\ operator.at = "edit"
  /\ operator' = Idle
  /\ UNCHANGED <<catalog, override, disk, rejected, restored,
                 sync, refresh, probe, record, flush, count, excused>>
  /\ IF operator.value = None
       THEN pool' = [pool EXCEPT ![operator.url] = Gone] /\ Remain(object)
       ELSE EditPool(operator.url, operator.value)

-----------------------------------------------------------------------------
(* apply_overrides after a reconnect, or an import, with the document that *)
(* was loaded: everything is cleared, then applied one by one.             *)

SyncLoads ==
  /\ sync.at = "idle" /\ Happens
  /\ sync' = [at |-> "clear", left |-> {u \in Urls : disk.overrides[u] # None}, loaded |-> disk.overrides]
  /\ UNCHANGED <<world, operator, refresh, probe, record, flush, excused>>

SyncClears ==
  /\ sync.at = "clear"
  /\ override' = [u \in Urls |-> None]
  /\ sync' = IF sync.left = {} THEN NoSync ELSE [sync EXCEPT !.at = "apply"]
  /\ UNCHANGED <<catalog, disk, pool, object, rejected, restored,
                 operator, refresh, probe, record, flush, count, excused>>

SyncApplies(u) ==
  /\ sync.at = "apply" /\ u \in sync.left
  /\ override' = [override EXCEPT ![u] = sync.loaded[u]]
  /\ sync' = IF sync.left = {u} THEN NoSync ELSE [sync EXCEPT !.left = @ \ {u}]
  /\ UNCHANGED <<catalog, disk, rejected, restored,
                 operator, refresh, probe, record, flush, count, excused>>
  /\ EditPool(u, sync.loaded[u])

-----------------------------------------------------------------------------
(* The refresh: set_catalog, then merge_chain of apply_snapshot, which     *)
(* looks at the pool, chooses by the overrides, installs, and restores.    *)

MergeLooks ==
  /\ refresh.at = "idle"
  /\ \/ UNCHANGED <<catalog, count>>
     \/ catalog' \in SUBSET Urls /\ Happens
  /\ refresh' = [refresh EXCEPT !.at = "choose", !.old = pool, !.rejected = rejected]
  /\ UNCHANGED <<override, disk, pool, object, rejected, restored,
                 operator, sync, probe, record, flush, excused>>

BarredByConfig == ConfigDisabled

Desired == catalog \cup ConfigExtra \cup {u \in Urls : override[u] # None /\ ~Disabled(override[u])}
Barred == ConfigDisabled \cup refresh.rejected

(* A listed endpoint keeps its object if the limits are those it wants; an *)
(* unlisted one stays for a while.                                         *)
Kept(u) == /\ refresh.old[u] # Gone
           /\ object[u][refresh.old[u]].limits = LimitsOf(override[u])
Lingers(u) == /\ u \notin Desired /\ refresh.old[u] # Gone
              /\ object[u][refresh.old[u]].missed < StaleGrace
Merged(u) ==
  CASE u \in Barred \/ (u \in Desired /\ Disabled(override[u])) -> Gone
    [] u \in Desired \ Barred /\ ~Disabled(override[u]) ->
         IF Kept(u) THEN refresh.old[u] ELSE FreeObject(u)
    [] OTHER -> IF Lingers(u) THEN refresh.old[u] ELSE Gone

MergeChooses ==
  /\ refresh.at = "choose"
  /\ refresh' = [NoRefresh EXCEPT !.at = "install", !.new = [u \in Urls |-> Merged(u)]]
  /\ UNCHANGED <<catalog, override, disk, pool, rejected, restored,
                 operator, sync, probe, record, flush, count, excused>>
  /\ Remain([u \in Urls |-> [i \in Objects |->
       IF i # Merged(u) THEN object[u][i]
       ELSE IF i # refresh.old[u] THEN NewEndpoint(LimitsOf(override[u]))
       ELSE [object[u][i] EXCEPT !.missed = IF u \in Desired THEN 0 ELSE @ + 1]]])

MergeInstalls ==
  /\ refresh.at = "install"
  /\ pool' = refresh.new
  /\ refresh' = [NoRefresh EXCEPT !.at = "restore"]
  /\ excused' = excused \cup {u \in Urls : refresh.new[u] # pool[u]}
  /\ UNCHANGED <<catalog, override, disk, rejected, restored,
                 operator, sync, probe, record, flush, count>>
  /\ Remain(object)

(* restore_health: what was stored as cooling may have cooled down.        *)
FromSnapshot(s) == IF s = "cooling" THEN {"cooling", "probation"} ELSE {"probation"}

RestoreInto(p, objects) ==
  \E after \in [Urls -> Health] :
    /\ \A u \in Urls : IF p[u] # Gone /\ restored'[u] # None
                         THEN after[u] \in FromSnapshot(restored'[u]) ELSE after[u] = "probation"
    /\ object' = [u \in Urls |-> [i \in Objects |->
         IF i = p[u] /\ restored'[u] # None
           THEN [objects[u][i] EXCEPT !.state = after[u], !.dirty = FALSE] ELSE objects[u][i]]]

MergeRestores ==
  /\ refresh.at = "restore"
  /\ UNCHANGED restored
  /\ RestoreInto(pool, object)
  /\ excused' = excused \cup {u \in Urls : InPool(u) /\ restored[u] # None}
  /\ refresh' = NoRefresh
  /\ UNCHANGED <<catalog, override, disk, pool, rejected,
                 operator, sync, probe, record, flush, count>>

-----------------------------------------------------------------------------
(* remove_endpoint, by a probe that was told another chain ID              *)

ProbeRejects(u) ==
  /\ probe = Idle /\ InPool(u) /\ Happens
  /\ rejected' = rejected \cup {u}
  /\ probe' = [Idle EXCEPT !.at = "edit", !.url = u]
  /\ UNCHANGED <<catalog, override, disk, pool, object, restored,
                 operator, sync, refresh, record, flush, excused>>

ProbeRemoves ==
  /\ probe.at = "edit"
  /\ pool' = [pool EXCEPT ![probe.url] = Gone]
  /\ probe' = Idle
  /\ UNCHANGED <<catalog, override, disk, rejected, restored,
                 operator, sync, refresh, record, flush, count, excused>>
  /\ Remain(object)

-----------------------------------------------------------------------------
(* record_success, record_failure: marked dirty first, changed afterwards; *)
(* reset_health and cool_for of an operator hold the lock of the health.   *)

RecordMarks(u) ==
  /\ record = NoRecord /\ InPool(u) /\ Happens
  /\ object' = [object EXCEPT ![u][pool[u]].dirty = TRUE]
  /\ record' = [at |-> "change", url |-> u, id |-> pool[u]]
  /\ UNCHANGED <<catalog, override, disk, pool, rejected, restored,
                 operator, sync, refresh, probe, flush, excused>>

RecordChanges ==
  /\ record.at = "change"
  /\ record' = NoRecord
  /\ excused' = IF object[record.url][record.id].dirty THEN excused ELSE excused \cup {record.url}
  /\ UNCHANGED <<catalog, override, disk, pool, rejected, restored,
                 operator, sync, refresh, probe, flush, count>>
  /\ \E s \in Health : Remain([object EXCEPT ![record.url][record.id].state = s])

OperatorSetsHealth(u) ==
  /\ operator = Idle /\ InPool(u) /\ Happens
  /\ \E s \in {"cooling", "probation"} :
       object' = [object EXCEPT ![u][pool[u]].state = s, ![u][pool[u]].dirty = TRUE]
  /\ UNCHANGED <<catalog, override, disk, pool, rejected, restored, tasks, excused>>

-----------------------------------------------------------------------------
(* The flush loop: take_dirty_health, flush_health, restore_dirty_health   *)

FlushTakes ==
  /\ flush = NothingTaken
  /\ LET dirty == {u \in Urls : InPool(u) /\ Pooled(u).dirty}
     IN /\ dirty # {}
        /\ flush' = [u \in Urls |-> IF u \in dirty THEN Pooled(u).state ELSE None]
        /\ object' = [u \in Urls |-> IF u \in dirty THEN [object[u] EXCEPT ![pool[u]].dirty = FALSE]
                                                    ELSE object[u]]
        /\ excused' = excused \ dirty
  /\ UNCHANGED <<catalog, override, disk, pool, rejected, restored,
                 operator, sync, refresh, probe, record, count>>

Taken(u) == flush[u] # None

FlushStores ==
  /\ flush # NothingTaken
  /\ disk' = [disk EXCEPT !.health = [u \in Urls |-> IF Taken(u) THEN flush[u] ELSE @[u]]]
  /\ flush' = NothingTaken
  /\ UNCHANGED <<catalog, override, pool, object, rejected, restored,
                 operator, sync, refresh, probe, record, count, excused>>

FlushForgets ==
  /\ flush # NothingTaken /\ Happens
  /\ flush' = NothingTaken
  /\ UNCHANGED <<world, operator, sync, refresh, probe, record, excused>>

(* Marks whatever endpoint the pool now has under the URL.                 *)
FlushFails ==
  /\ flush # NothingTaken /\ Happens
  /\ object' = [u \in Urls |-> IF Taken(u) /\ InPool(u) THEN [object[u] EXCEPT ![pool[u]].dirty = TRUE]
                                                        ELSE object[u]]
  /\ flush' = NothingTaken
  /\ UNCHANGED <<catalog, override, disk, pool, rejected, restored,
                 operator, sync, refresh, probe, record, excused>>

-----------------------------------------------------------------------------
(* main: overrides from the store, the first snapshot, the stored health.  *)

Restart ==
  /\ Happens
  /\ override' = disk.overrides
  /\ rejected' = {}
  /\ restored' = disk.health
  /\ LET listed == catalog \cup ConfigExtra \cup {u \in Urls : disk.overrides[u] # None}
         built == [u \in Urls |-> IF u \in listed \ ConfigDisabled /\ ~Disabled(disk.overrides[u])
                                    THEN 1 ELSE Gone]
     IN /\ pool' = built
        /\ RestoreInto(built, [u \in Urls |-> [i \in Objects |->
                         NewEndpoint(IF i = built[u] THEN LimitsOf(disk.overrides[u]) ELSE "configured")]])
        /\ excused' = {u \in Urls : built[u] # Gone /\ restored'[u] # None}
  /\ operator' = Idle /\ sync' = NoSync /\ refresh' = NoRefresh
  /\ probe' = Idle /\ record' = NoRecord /\ flush' = NothingTaken
  /\ UNCHANGED <<catalog, disk>>

OperatorStep == OperatorPersists \/ OperatorRefused \/ OperatorSets \/ OperatorEdits
SyncStep == SyncClears \/ \E u \in Urls : SyncApplies(u)
RefreshStep == MergeLooks \/ MergeChooses \/ MergeInstalls \/ MergeRestores
ProbeStep == ProbeRemoves \/ \E u \in Urls : ProbeRejects(u)
RecordStep == RecordChanges \/ \E u \in Urls : RecordMarks(u)
FlushStep == FlushTakes \/ FlushStores \/ FlushFails

Next ==
  \/ OperatorBegins \/ OperatorStep \/ \E u \in Urls : OperatorSetsHealth(u)
  \/ SyncLoads \/ SyncStep \/ RefreshStep \/ ProbeStep \/ RecordStep \/ FlushStep
  \/ Restart

(* The refresh recurs, calls that were begun end.                          *)
Spec == /\ Init /\ [][Next]_vars
        /\ WF_vars(OperatorStep) /\ WF_vars(SyncStep) /\ WF_vars(RefreshStep) /\ WF_vars(ProbeRemoves)

-----------------------------------------------------------------------------
TypeOK ==
  /\ catalog \subseteq Urls /\ rejected \subseteq Urls /\ excused \subseteq Urls
  /\ override \in Overrides /\ disk.overrides \in Overrides
  /\ {disk.health, restored} \subseteq [Urls -> Health \cup {None}]
  /\ pool \in [Urls -> Objects \cup {Gone}]
  /\ object \in [Urls -> [Objects -> Endpoint]]
  /\ {refresh.old, refresh.new} \subseteq [Urls -> Objects \cup {Gone}]

(* A change of an endpoint's health is stored, marked, or in the hands of  *)
(* the flush loop, whatever flush fails and whatever replaces the endpoint *)
(* meanwhile: but for a change after the mark was taken, an old snapshot   *)
(* restored over it, and an object that a merge puts back over its         *)
(* replacement (registry.rs 417, 1319, 1594).                              *)
UnsavedIsMarked ==
  \A u \in Urls \ excused :
    InPool(u) /\ ~Pooled(u).dirty /\ ~Taken(u) => Pooled(u).state = disk.health[u]

(* Whatever races between refreshes, operators, reconnects and probes put  *)
(* into the pool or took out of it: it ends as what the catalog, the       *)
(* configuration and the overrides ask for, with the limits they ask for,  *)
(* and without the endpoints that probes reject (registry.rs merge_chain). *)
PoolIsRight ==
  \A u \in Urls :
    /\ InPool(u) <=> u \in Desired \ (ConfigDisabled \cup rejected) /\ ~Disabled(override[u])
    /\ InPool(u) => Pooled(u).limits = LimitsOf(override[u])
PoolConverges == <>[]PoolIsRight

(* registry.rs:1161: a refresh reuses the objects so that their health is  *)
(* not lost; an Active endpoint stays Active.                              *)
RefreshKeepsHealth ==
  [][refresh.at = "restore" /\ refresh'.at = "idle" /\ count' = count
       => \A u \in Urls : InPool(u) /\ Pooled(u).state = "active"
                            => object'[u][pool[u]].state = "active"]_vars
=============================================================================
