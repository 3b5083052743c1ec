--------------------------- MODULE ChainLifecycle ---------------------------
(* The life of one chain in the registry (src/src/registry.rs): requests   *)
(* that resolve it, and materialize it under its activation lock when it   *)
(* is dormant; sweeps that demote it when it is idle or too many are hot;  *)
(* commands of the administrator and of auto-enable; the refresh of the    *)
(* chainlist. They share the chain's state through Arcs, one atomic field  *)
(* at a time. Only the state that the map holds can be seen by a newcomer, *)
(* so of an Arc it is enough to know whether it is still that one. Other   *)
(* chains matter only in that their activation may pick this one to demote.*)
EXTENDS Integers, FiniteSets

CONSTANTS
  Clients,       \* ingress requests
  Operators,     \* callers of chain_action, and auto-enable
  Sweepers,      \* housekeeping, and activations of other chains
  Refreshers,    \* the chainlist refresh
  Commands,      \* what operators may command
  ConfigPinned,  \* the chain is listed in config.chains
  IdleSeconds,   \* discovery.idle_seconds
  Grace,         \* the five seconds that spare a chain from the LRU
  MaxTime,       \* bound on the clock
  MaxCommands    \* bound on the number of commands

Settings == {"pin", "unpin", "enable", "disable"}

ASSUME LifecycleAssumption ==
  /\ Commands \subseteq Settings \cup {"activate", "demote", "autoPin", "autoUnpin"}
  /\ ConfigPinned \in BOOLEAN
  /\ IdleSeconds \in Nat /\ Grace \in Nat
  /\ MaxTime \in Nat \ {0} /\ MaxCommands \in Nat
  /\ \A S \in {Clients, Operators, Sweepers, Refreshers} : IsFiniteSet(S)
  /\ Clients \cap (Operators \cup Sweepers \cup Refreshers) = {}
  /\ Operators \cap (Sweepers \cup Refreshers) = {}
  /\ Sweepers \cap Refreshers = {}

VARIABLES
  now,         \* unix_seconds()
  chain,       \* the ChainState in Registry.chains, if any
  lockMap,     \* the chain's entry in activation_locks, or NoLock
  runtimePin,  \* the chain's entry in runtime_pinned
  autoPin,     \* the chain's entry in auto_pinned
  task,        \* each task: where it is, what it is for, what it holds
  commands,    \* how many commands were given
  activated    \* history: materialized since the chain was last demoted

vars == <<now, chain, lockMap, runtimePin, autoPin, task, commands, activated>>
pins == <<runtimePin, autoPin>>

-----------------------------------------------------------------------------
Tasks == Clients \cup Operators \cup Sweepers \cup Refreshers

NoLock == 0
Locks == 1..(Cardinality(Tasks) + 1)

(* pool: whether the chain has its endpoints. last: last_ingress.          *)
Absent == [installed |-> FALSE, pinned |-> FALSE, disabled |-> FALSE,
           last |-> 0, pool |-> FALSE]

ChainState(pinned, pool) ==
  [Absent EXCEPT !.installed = TRUE, !.pinned = pinned, !.pool = pool]

(* object: the Arc<ChainState> the task holds; it is current while it is   *)
(* the one in the map. pinned, stamp: the flag and the second it read.     *)
Done == [pc |-> "idle", purpose |-> "none", object |-> "none",
         lock |-> NoLock, pinned |-> FALSE, stamp |-> 0]

Is(t, place) == task[t].pc = place

Becomes(t, record) == task' = [task EXCEPT ![t] = record]

Goes(t, place) == Becomes(t, [task[t] EXCEPT !.pc = place])

Holds(t, place) ==
  Becomes(t, [task[t] EXCEPT !.pc = place, !.object = "current"])

(* What is written through an Arc of a state that left the map is lost.    *)
Through(t, written) ==
  chain' = IF task[t].object = "current" THEN written ELSE chain

(* The state leaves the map: every Arc of it but t's new one is an old one.*)
Outdate(record) ==
  IF record.object = "current" THEN [record EXCEPT !.object = "old"] ELSE record

(* state_label *)
Label ==
  IF ~chain.installed THEN "absent"
  ELSE IF chain.disabled THEN "disabled"
  ELSE IF chain.pinned THEN "pinned"
  ELSE IF chain.last > 0 THEN "hot"
  ELSE "dormant"

Serving == Label \in {"pinned", "hot"}
Sleeping == Label \in {"absent", "dormant"}

(* is_pinned_chain *)
IsPinned ==
  ConfigPinned \/ runtimePin = "pinned" \/ (runtimePin = "unset" /\ autoPin)

Init ==
  /\ now = 1
  /\ chain = IF ConfigPinned THEN ChainState(TRUE, TRUE) ELSE Absent
  /\ lockMap = NoLock
  /\ runtimePin = "unset"
  /\ autoPin = FALSE
  /\ task = [t \in Tasks |-> Done]
  /\ commands = 0
  /\ activated = FALSE

-----------------------------------------------------------------------------
(* resolve_for_request *)

(* An ingress request for the chain, known to the catalog.                 *)
Request(t) ==
  /\ t \in Clients /\ Is(t, "idle")
  /\ Becomes(t, [Done EXCEPT !.pc = "resolving", !.purpose = "serve"])
  /\ UNCHANGED <<now, chain, lockMap, pins, commands, activated>>

(* What the caller does with the state it asked for.                       *)
Resolved(record) ==
  IF record.object # "none" /\ record.purpose \in Settings
  THEN [record EXCEPT !.pc = "setting", !.lock = NoLock]
  ELSE Done

LookServes(t) ==
  /\ Is(t, "resolving")
  /\ Serving
  /\ Holds(t, "found")
  /\ UNCHANGED <<now, chain, lockMap, pins, commands, activated>>

(* The second is stored after the label was read, without the lock.        *)
Touch(t) ==
  /\ Is(t, "found")
  /\ Through(t, [chain EXCEPT !.last = now])
  /\ Becomes(t, Resolved(task[t]))
  /\ UNCHANGED <<now, lockMap, pins, commands, activated>>

LookDisabled(t) ==
  /\ Is(t, "resolving")
  /\ Label = "disabled"
  /\ Becomes(t, Resolved([task[t] EXCEPT !.object = "current"]))
  /\ UNCHANGED <<now, chain, lockMap, pins, commands, activated>>

FreeLock == CHOOSE l \in Locks : \A u \in Tasks : task[u].lock # l

(* Whether the chain is pinned is read before the lock is waited for; the  *)
(* lock comes from the map or is put there.                                *)
LookSleeping(t) ==
  LET lock == IF lockMap = NoLock THEN FreeLock ELSE lockMap
  IN  /\ Is(t, "resolving")
      /\ Sleeping
      /\ lockMap' = lock
      /\ Becomes(t, [task[t] EXCEPT !.pc = "locking", !.lock = lock,
                                    !.pinned = IsPinned])
      /\ UNCHANGED <<now, chain, pins, commands, activated>>

Inside == {"inside", "met", "replacing", "building", "built", "inserted",
           "evicting", "unlocking"}

Enter(t) ==
  /\ Is(t, "locking")
  /\ \A u \in Tasks : task[u].lock = task[t].lock => task[u].pc \notin Inside
  /\ Goes(t, "inside")
  /\ UNCHANGED <<now, chain, lockMap, pins, commands, activated>>

(* Somebody else activated the chain meanwhile: serve it.                  *)
MeetActive(t) ==
  /\ Is(t, "inside")
  /\ ~Sleeping
  /\ Becomes(t, [task[t] EXCEPT !.pc = "met", !.object = "current",
                                !.pinned = FALSE])
  /\ UNCHANGED <<now, chain, lockMap, pins, commands, activated>>

TouchMet(t) ==
  /\ Is(t, "met")
  /\ Through(t, [chain EXCEPT !.last = now])
  /\ Goes(t, "unlocking")
  /\ UNCHANGED <<now, lockMap, pins, commands, activated>>

MeetSleeping(t) ==
  /\ Is(t, "inside")
  /\ Sleeping
  /\ Goes(t, IF chain.installed THEN "replacing" ELSE "building")
  /\ UNCHANGED <<now, chain, lockMap, pins, commands, activated>>

(* chains.remove, whatever the label is by now.                            *)
Remove(t) ==
  /\ Is(t, "replacing")
  /\ chain' = Absent
  /\ task' = [u \in Tasks |->
       IF u = t THEN [task[t] EXCEPT !.pc = "building"] ELSE Outdate(task[u])]
  /\ UNCHANGED <<now, lockMap, pins, commands, activated>>

-----------------------------------------------------------------------------
(* materialize *)

Build(t) ==
  /\ Is(t, "building")
  /\ Becomes(t, [task[t] EXCEPT !.pc = "built", !.stamp = now])
  /\ UNCHANGED <<now, chain, lockMap, pins, commands, activated>>

(* A refresh may have put a state into the map meanwhile: it is replaced.  *)
Insert(t) ==
  /\ Is(t, "built")
  /\ chain' = ChainState(task[t].pinned, TRUE)
  /\ task' = [u \in Tasks |->
       IF u = t THEN [task[t] EXCEPT !.pc = "inserted", !.object = "current",
                                     !.pinned = FALSE]
       ELSE Outdate(task[u])]
  /\ activated' = TRUE
  /\ UNCHANGED <<now, lockMap, pins, commands>>

StoreLast(t) ==
  /\ Is(t, "inserted")
  /\ Through(t, [chain EXCEPT !.last = task[t].stamp])
  /\ Becomes(t, [task[t] EXCEPT !.pc = "evicting", !.stamp = 0])
  /\ UNCHANGED <<now, lockMap, pins, commands, activated>>

(* Too many chains are hot: another one is demoted, as Sweepers show.      *)
Evicted(t) ==
  /\ Is(t, "evicting")
  /\ Goes(t, "unlocking")
  /\ UNCHANGED <<now, chain, lockMap, pins, commands, activated>>

(* The catalog does not list the chain any more, or the client is gone and *)
(* the future is dropped at an await.                                      *)
GiveUp(t) ==
  /\ \/ /\ task[t].pc \in {"building", "built", "evicting"}
        /\ Becomes(t, [task[t] EXCEPT !.pc = "unlocking", !.object = "none",
                                      !.pinned = FALSE, !.stamp = 0])
     \/ /\ Is(t, "locking")
        /\ Becomes(t, [task[t] EXCEPT !.pc = "cleaning", !.pinned = FALSE])
  /\ UNCHANGED <<now, chain, lockMap, pins, commands, activated>>

(* Mutant: the guard is only dropped by an activation that succeeds.       *)
UnlockFound(t) ==
  /\ Is(t, "unlocking")
  /\ task[t].object # "none"
  /\ Goes(t, "cleaning")
  /\ UNCHANGED <<now, chain, lockMap, pins, commands, activated>>

(* The locals are dropped in the reverse order: the guard first, ...       *)
Unlock(t) ==
  /\ Is(t, "unlocking")
  /\ Goes(t, "cleaning")
  /\ UNCHANGED <<now, chain, lockMap, pins, commands, activated>>

(* At most two strong references: the map's and one task's.                *)
Unshared(lock) ==
  \A u, v \in Tasks : task[u].lock = lock /\ task[v].lock = lock => u = v

(* Mutant: the entry is removed whoever still uses the lock.               *)
CleanUpAlways(t) ==
  /\ Is(t, "cleaning")
  /\ lockMap' = NoLock
  /\ Goes(t, "dropping")
  /\ UNCHANGED <<now, chain, pins, commands, activated>>

(* ... then ActivationLockCleanup, which looks at the lock in the map, ... *)
CleanUp(t) ==
  /\ Is(t, "cleaning")
  /\ lockMap' = IF Unshared(lockMap) THEN NoLock ELSE lockMap
  /\ Goes(t, "dropping")
  /\ UNCHANGED <<now, chain, pins, commands, activated>>

(* ... and the Arc of the lock last.                                       *)
DropLock(t) ==
  /\ Is(t, "dropping")
  /\ Becomes(t, Resolved([task[t] EXCEPT !.lock = NoLock]))
  /\ UNCHANGED <<now, chain, lockMap, pins, commands, activated>>

-----------------------------------------------------------------------------
(* demote_if_unchanged, for a value of last_ingress read before *)

Sweep(t, reason) ==
  /\ t \in Sweepers /\ Is(t, "idle")
  /\ chain.installed /\ ~chain.pinned
  /\ Becomes(t, [Done EXCEPT !.pc = "demoting", !.purpose = reason,
                             !.stamp = chain.last])
  /\ UNCHANGED <<now, chain, lockMap, pins, commands, activated>>

(* housekeeping_at: the idle ones first ...                                *)
SweepIdle(t) ==
  /\ ~chain.disabled /\ chain.last > 0
  /\ now - chain.last > IdleSeconds
  /\ Sweep(t, "idle")

(* ... then the least recently used ones, while more than max_hot_chains.  *)
SweepLRU(t) ==
  /\ ~chain.disabled /\ chain.last > 0
  /\ now - chain.last >= Grace
  /\ Sweep(t, "lru")

(* materialize of another chain picks the least recent one in the map, hot *)
(* or not.                                                                 *)
SweepForOther(t) ==
  /\ now - chain.last >= Grace
  /\ Sweep(t, "lru")

(* The command's answer resolves the chain once more.                      *)
Demoted(t) ==
  IF task[t].purpose = "demote"
  THEN [Done EXCEPT !.pc = "resolving", !.purpose = "demote"]
  ELSE Done

DemoteLooks(t) ==
  /\ Is(t, "demoting")
  /\ IF chain.installed /\ ~chain.pinned
     THEN Holds(t, "marking")
     ELSE Becomes(t, Demoted(t))
  /\ UNCHANGED <<now, chain, lockMap, pins, commands, activated>>

(* Mutant: the mark is stored whatever last_ingress is by now.             *)
MarkAlways(t) ==
  /\ Is(t, "marking")
  /\ Through(t, [chain EXCEPT !.last = 0])
  /\ activated' = (activated /\ task[t].object # "current")
  /\ Becomes(t, [task[t] EXCEPT !.pc = "clearing", !.stamp = 0])
  /\ UNCHANGED <<now, lockMap, pins, commands>>

(* compare_exchange(expected_last, 0). Of a state that left the map the    *)
(* outcome does not matter.                                                *)
Mark(t) ==
  /\ Is(t, "marking")
  /\ IF task[t].object = "current" /\ chain.last # task[t].stamp
     THEN /\ Becomes(t, Demoted(t))
          /\ UNCHANGED <<chain, activated>>
     ELSE /\ Through(t, [chain EXCEPT !.last = 0])
          /\ activated' = (activated /\ task[t].object # "current")
          /\ Becomes(t, [task[t] EXCEPT !.pc = "clearing", !.stamp = 0])
  /\ UNCHANGED <<now, lockMap, pins, commands>>

Clear(t) ==
  /\ Is(t, "clearing")
  /\ Through(t, [chain EXCEPT !.pool = FALSE])
  /\ Becomes(t, Demoted(t))
  /\ UNCHANGED <<now, lockMap, pins, commands, activated>>

-----------------------------------------------------------------------------
(* Commands *)

Command(t, command) ==
  /\ t \in Operators /\ Is(t, "idle")
  /\ commands < MaxCommands
  /\ commands' = commands + 1
  /\ LET fresh == [Done EXCEPT !.purpose = command]
     IN  Becomes(t,
           CASE command \in Settings ->
                  IF chain.installed
                  THEN [fresh EXCEPT !.pc = "setting", !.object = "current"]
                  ELSE [fresh EXCEPT !.pc = "resolving"]
             [] command = "demote" ->
                  IF chain.installed
                  THEN [fresh EXCEPT !.pc = "demoting", !.stamp = chain.last]
                  ELSE [fresh EXCEPT !.pc = "resolving"]
             [] command = "activate" -> [fresh EXCEPT !.pc = "resolving"]
             [] OTHER -> [fresh EXCEPT !.pc = "autoSetting"])
  /\ UNCHANGED <<now, chain, lockMap, pins, activated>>

(* chain_action answers with the label the chain then has.                 *)
Answer == [Done EXCEPT !.pc = "resolving", !.purpose = "answer"]

(* set_disabled *)
SetDisabled(t) ==
  /\ Is(t, "setting") /\ task[t].purpose \in {"enable", "disable"}
  /\ Through(t, [chain EXCEPT !.disabled = (task[t].purpose = "disable")])
  /\ Becomes(t, Answer)
  /\ UNCHANGED <<now, lockMap, pins, commands, activated>>

(* set_pinned: the map of pins, then the flag, then, to unpin, the second. *)
SetRuntimePin(t) ==
  /\ Is(t, "setting") /\ task[t].purpose \in {"pin", "unpin"}
  /\ runtimePin' = IF task[t].purpose = "pin" THEN "pinned" ELSE "unpinned"
  /\ Goes(t, "storing")
  /\ UNCHANGED <<now, chain, lockMap, autoPin, commands, activated>>

StorePinned(t) ==
  /\ Is(t, "storing")
  /\ Through(t, [chain EXCEPT !.pinned = (task[t].purpose = "pin")])
  /\ IF task[t].purpose = "pin" THEN Becomes(t, Answer) ELSE Goes(t, "unpinned")
  /\ UNCHANGED <<now, lockMap, pins, commands, activated>>

TouchUnpinned(t) ==
  /\ Is(t, "unpinned")
  /\ Through(t, [chain EXCEPT !.last = now])
  /\ Becomes(t, Answer)
  /\ UNCHANGED <<now, lockMap, pins, commands, activated>>

(* set_auto_pinned and sync_auto_pinned: the set, then the flag.           *)
SetAutoPin(t) ==
  /\ Is(t, "autoSetting")
  /\ autoPin' = (task[t].purpose = "autoPin")
  /\ IF chain.installed
     THEN Holds(t, "autoStoring")
     ELSE Becomes(t, IF autoPin' THEN Answer ELSE Done)
  /\ UNCHANGED <<now, chain, lockMap, runtimePin, commands, activated>>

(* promote() resolves the chain next, to materialize it.                   *)
StoreAutoPin(t) ==
  /\ Is(t, "autoStoring")
  /\ Through(t, [chain EXCEPT !.pinned = IsPinned])
  /\ Becomes(t, IF task[t].purpose = "autoPin" THEN Answer ELSE Done)
  /\ UNCHANGED <<now, lockMap, pins, commands, activated>>

-----------------------------------------------------------------------------
(* apply_snapshot, for a chainlist that has endpoints for the chain *)

(* Mutant: the hot chains are forgotten.                                   *)
RefreshPinnedOnly(t) ==
  /\ t \in Refreshers /\ Is(t, "idle")
  /\ ConfigPinned \/ runtimePin = "pinned" \/ autoPin
  /\ Becomes(t, [Done EXCEPT !.pc = "installing", !.purpose = "refresh"])
  /\ UNCHANGED <<now, chain, lockMap, pins, commands, activated>>

(* The ids are collected first: pinned anywhere, or serving.               *)
Refresh(t) ==
  /\ t \in Refreshers /\ Is(t, "idle")
  /\ ConfigPinned \/ runtimePin = "pinned" \/ autoPin \/ Serving
  /\ Becomes(t, [Done EXCEPT !.pc = "installing", !.purpose = "refresh"])
  /\ UNCHANGED <<now, chain, lockMap, pins, commands, activated>>

RefreshInstalls(t) ==
  /\ Is(t, "installing")
  /\ chain' = IF chain.installed THEN chain ELSE ChainState(IsPinned, FALSE)
  /\ Becomes(t, [task[t] EXCEPT !.pc = "repinning", !.object = "current",
                                !.pinned = IsPinned])
  /\ UNCHANGED <<now, lockMap, pins, commands, activated>>

(* Mutant: only a state that the refresh created gets the flag.            *)
RefreshKeepsPin(t) ==
  /\ Is(t, "repinning")
  /\ Goes(t, "merging")
  /\ UNCHANGED <<now, chain, lockMap, pins, commands, activated>>

RefreshPins(t) ==
  /\ Is(t, "repinning")
  /\ Through(t, [chain EXCEPT !.pinned = task[t].pinned])
  /\ Becomes(t, [task[t] EXCEPT !.pc = "merging", !.pinned = FALSE])
  /\ UNCHANGED <<now, lockMap, pins, commands, activated>>

(* merge_chain *)
RefreshMerges(t) ==
  /\ Is(t, "merging")
  /\ Through(t, [chain EXCEPT !.pool = TRUE])
  /\ Becomes(t, Done)
  /\ UNCHANGED <<now, lockMap, pins, commands, activated>>

-----------------------------------------------------------------------------
Tick ==
  /\ now < MaxTime
  /\ now' = now + 1
  /\ UNCHANGED <<chain, lockMap, pins, task, commands, activated>>

ResolveStep(t) ==
  \/ LookServes(t) \/ Touch(t) \/ LookDisabled(t) \/ LookSleeping(t)
  \/ MeetActive(t) \/ TouchMet(t) \/ MeetSleeping(t) \/ Remove(t)
  \/ Build(t) \/ Insert(t) \/ StoreLast(t) \/ Evicted(t)
  \/ Unlock(t) \/ CleanUp(t) \/ DropLock(t)

DemoteStep(t) == DemoteLooks(t) \/ Mark(t) \/ Clear(t)

CommandStep(t) ==
  \/ SetDisabled(t) \/ SetRuntimePin(t) \/ StorePinned(t) \/ TouchUnpinned(t)
  \/ SetAutoPin(t) \/ StoreAutoPin(t)

RefreshStep(t) ==
  \/ Refresh(t) \/ RefreshInstalls(t) \/ RefreshPins(t) \/ RefreshMerges(t)

Next ==
  \/ \E t \in Tasks :
       \/ Request(t)
       \/ ResolveStep(t)
       \/ Enter(t)
       \/ GiveUp(t)
       \/ SweepIdle(t) \/ SweepLRU(t) \/ SweepForOther(t)
       \/ DemoteStep(t)
       \/ \E command \in Commands : Command(t, command)
       \/ CommandStep(t)
       \/ RefreshStep(t)
  \/ Tick

Spec == Init /\ [][Next]_vars

(* The runtime polls a task that is ready, a tokio Mutex serves its        *)
(* waiters in turn, and the chainlist is refreshed again and again.        *)
FairSpec ==
  /\ Spec
  /\ \A t \in Tasks :
       /\ WF_vars(ResolveStep(t)) /\ SF_vars(Enter(t))
       /\ WF_vars(DemoteStep(t))
       /\ WF_vars(CommandStep(t))
       /\ WF_vars(RefreshStep(t))

-----------------------------------------------------------------------------
(* Properties. *)

Waiting == {"locking", "cleaning"} \cup Inside

Place == {"idle", "resolving", "found", "dropping", "setting", "storing",
          "unpinned", "autoSetting", "autoStoring", "demoting", "marking",
          "clearing", "installing", "repinning", "merging"} \cup Waiting

Purpose == Settings \cup {"none", "serve", "answer", "activate", "demote",
                          "autoPin", "autoUnpin", "idle", "lru", "refresh"}

State == [installed : BOOLEAN, pinned : BOOLEAN, disabled : BOOLEAN,
          last : 0..MaxTime, pool : BOOLEAN]

Record == [pc : Place, purpose : Purpose, object : {"none", "current", "old"},
           lock : Locks \cup {NoLock}, pinned : BOOLEAN, stamp : 0..MaxTime]

(* Every variable has its type; no last_ingress lies in the future.        *)
TypeOK ==
  /\ now \in 1..MaxTime
  /\ chain \in State
  /\ chain.last <= now
  /\ lockMap \in Locks \cup {NoLock}
  /\ runtimePin \in {"unset", "pinned", "unpinned"}
  /\ autoPin \in BOOLEAN
  /\ task \in [Tasks -> Record]
  /\ commands \in 0..MaxCommands
  /\ activated \in BOOLEAN

(* The activation lock excludes: although its entry is removed from the    *)
(* map and created anew, all who want the chain meet at one lock, and one  *)
(* of them is inside.                                                      *)
OneInside ==
  \A t, u \in Tasks : task[t].pc \in Inside /\ task[u].pc \in Inside => t = u

(* The comment at the lock: the first requests of a chain do not activate  *)
(* it twice. Between two activations the chain was demoted, so nobody's    *)
(* fresh endpoints are thrown away by another request.                     *)
OneActivation ==
  [][\A t \in Tasks : Insert(t) => ~activated]_vars

(* A chain is demoted by a sweep only if no request touched it for         *)
(* IdleSeconds (idle) or Grace (LRU), whatever requests came between the   *)
(* sweep's reading of last_ingress and its mark.                           *)
RecentNotDemoted ==
  [][\A t \in Sweepers :
       Mark(t) /\ chain.last > 0 /\ chain'.last = 0 =>
         \/ task[t].purpose = "idle" /\ now - chain.last > IdleSeconds
         \/ task[t].purpose = "lru" /\ now - chain.last >= Grace]_vars

(* Everyone who asks for the chain gets past its lock and is answered,     *)
(* through removed locks, cancelled activations and demotions.             *)
ResolveEnds ==
  \A t \in Clients \cup Operators :
    task[t].pc \in Waiting ~> task[t].pc \notin Waiting

(* Once nobody commands any more, the refresh brings the flag of the chain *)
(* back to what the pins say, whichever stale value a race left in it. It  *)
(* passes over a disabled chain that nobody pins (apply_snapshot): such a  *)
(* chain may keep a stale flag, until it is enabled.                       *)
PinSettles ==
  <>[](chain.installed /\ (chain.disabled => IsPinned) => chain.pinned = IsPinned)

(* A chain that serves without endpoints gets them by a refresh.           *)
PoolReturns == Serving /\ ~chain.pool ~> chain.pool \/ ~Serving

(* DESIGN-v2.md, states of a chain: pinned is activated. A chain that was  *)
(* demoted stays in the map, and pinning it sets the flag only.            *)
PinnedHasPool ==
  Label = "pinned" /\ (\A t \in Tasks : Is(t, "idle")) => chain.pool

=============================================================================
