------------------------------ MODULE AutoEnable ------------------------------
(* Which chains are pinned or disabled, and who says so: the commands of   *)
(* operators (src/src/admin.rs), the chains that auto-enable adds          *)
(* (src/src/autoenable.rs), what of both the state store keeps, and the    *)
(* registry's memory of them (src/src/registry.rs), over restarts, a store *)
(* that fails, imports and resets. The chains are catalog chains that are  *)
(* neither configured nor denied. A step is what a task does between two   *)
(* awaits: most calls of the registry are one step, resolve_for_request is *)
(* several. How a chain's own state changes within such a step, and how    *)
(* the chainlist refresh sets the flag anew, is in ChainLifecycle. The     *)
(* store is one document here: the file of FileStore, or the namespace in  *)
(* Redis.                                                                  *)
EXTENDS Naturals, FiniteSets

CONSTANTS
  Chains,        \* catalog chains that pass the static filters
  Rank,          \* their position by score, then by id
  Operators,     \* who sends requests: ingress ones, and those of administrators
  Scanner,       \* the task of AutoEnableManager
  Commands,      \* what administrators may command
  Documents,     \* what may be imported, the empty one standing for a reset
  Offers,        \* which chains the upstreams may qualify at first
  MaxChains,     \* auto_enable.max_chains
  PromoteAfter,  \* auto_enable.promote_after_rounds
  ProbeBatch,    \* auto_enable.probe_batch
  MaxCommands,   \* bound on the operators' commands
  MaxFaults,     \* bound on the failures of the store
  MaxRestarts,   \* bound on the restarts
  MaxChanges     \* bound on the changes of what the upstreams offer

Callers == Operators \cup {Scanner}

Choices == {"none", "yes", "no"}

(* ChainOverrideState; its four settings of timing have no part in this.   *)
Override == [pinned : Choices, disabled : Choices]
NoOverride == [pinned |-> "none", disabled |-> "none"]

Pins == {"pin", "unpin"}
Switches == {"enable", "disable"}

Document == [overrides : [Chains -> Override], auto : SUBSET Chains]
EmptyDocument == [overrides |-> [c \in Chains |-> NoOverride], auto |-> {}]

ASSUME AutoEnableAssumption ==
  /\ IsFiniteSet(Chains) /\ Chains # {}
  /\ Rank \in [Chains -> Nat]
  /\ \A b, c \in Chains : Rank[b] = Rank[c] => b = c
  /\ Commands \subseteq Pins \cup Switches \cup {"settings"}
  /\ Documents \subseteq Document /\ Offers \subseteq SUBSET Chains
  /\ Scanner \notin Operators
  /\ MaxChains \in Nat \ {0} /\ PromoteAfter \in Nat \ {0} /\ ProbeBatch \in Nat \ {0}
  /\ MaxCommands \in Nat /\ MaxFaults \in Nat /\ MaxRestarts \in Nat /\ MaxChanges \in Nat

VARIABLES
  disk,        \* the document in the store
  storeUp,     \* the store can be reached
  overrides,   \* Registry.runtime_chain_overrides
  runtimePin,  \* Registry.runtime_pinned
  autoPin,     \* Registry.auto_pinned
  place,       \* is the chain in Registry.chains, and awake
  pinned,      \* ChainState.pinned
  disabled,    \* ChainState.disabled
  call,        \* each task's resolve_for_request under way
  op,          \* the command of each operator
  scan,        \* AutoEnableManager::run_once
  rounds,      \* ScanState.progress: qualified rounds in a row
  cursor,      \* ScanState.cursor
  sync,        \* the task that reconnects the store
  healthy,     \* the chains whose endpoints would qualify them now
  spent,       \* how much of each bound was used
  wish,        \* history: the latest choice written to the store, per field
  overtaken    \* history: auto-enabled chains that an import or reset left out

store == <<disk, storeUp>>
flags == <<place, pinned, disabled>>
pins == <<overrides, runtimePin, autoPin>>
registry == <<pins, flags, call>>
scanner == <<scan, rounds, cursor>>
vars == <<disk, storeUp, overrides, runtimePin, autoPin, place, pinned, disabled,
          call, op, scan, rounds, cursor, sync, healthy, spent, wish, overtaken>>

-----------------------------------------------------------------------------
(* The registry. *)

(* is_tombstoned *)
Tombstone(value) == value.pinned = "no" \/ value.disabled = "yes"

(* auto_chain_ids *)
AutoIds == {c \in autoPin : ~Tombstone(overrides[c])}

(* is_pinned_chain: what was chosen by hand comes first *)
PinnedBy(manual, auto, c) ==
  IF manual[c] = "none" THEN c \in auto ELSE manual[c] = "yes"

Known(c) == place[c] # "absent"

(* The next request of the chain materializes it. *)
Asleep(c) == ~Known(c) \/ (place[c] = "dormant" /\ ~pinned[c] /\ ~disabled[c])

(* set_pinned and set_disabled of a chain that the map has; to unpin it    *)
(* counts as a request.                                                    *)
SetPinned(c, choice) ==
  /\ runtimePin' = [runtimePin EXCEPT ![c] = choice]
  /\ pinned' = [pinned EXCEPT ![c] = choice = "yes"]
  /\ place' = IF choice = "yes" THEN place ELSE [place EXCEPT ![c] = "awake"]
  /\ UNCHANGED <<overrides, autoPin, disabled, call>>

SetDisabled(c, choice) ==
  /\ disabled' = [disabled EXCEPT ![c] = choice = "yes"]
  /\ UNCHANGED <<pins, place, pinned, call>>

(* apply_override *)
ApplyOverride(c, value) ==
  /\ overrides' = [overrides EXCEPT ![c] = value]
  /\ runtimePin' = IF value.pinned = "none" THEN runtimePin
                   ELSE [runtimePin EXCEPT ![c] = value.pinned]
  /\ pinned' = IF Known(c) /\ value.pinned # "none"
               THEN [pinned EXCEPT ![c] = value.pinned = "yes"] ELSE pinned
  /\ disabled' = IF Known(c) /\ value.disabled # "none"
                 THEN [disabled EXCEPT ![c] = value.disabled = "yes"] ELSE disabled
  /\ UNCHANGED <<autoPin, place, call>>

(* apply_overrides *)
ApplyOverrides(values) ==
  /\ overrides' = values
  /\ runtimePin' = [c \in Chains |-> values[c].pinned]
  /\ pinned' = [c \in Chains |-> Known(c) /\ PinnedBy(runtimePin', autoPin, c)]
  /\ disabled' = [c \in Chains |-> Known(c) /\ values[c].disabled = "yes"]
  /\ UNCHANGED <<autoPin, place, call>>

(* set_auto_pinned *)
SetAutoPinned(c) ==
  /\ autoPin' = autoPin \cup {c}
  /\ pinned' = [pinned EXCEPT ![c] = Known(c) /\ PinnedBy(runtimePin, autoPin', c)]
  /\ UNCHANGED <<overrides, runtimePin, place, disabled, call>>

(* sync_auto_pinned *)
SyncAutoPinned(chains) ==
  /\ autoPin' = {c \in chains : ~Tombstone(overrides[c])}
  /\ pinned' = [c \in Chains |->
                  IF c \in autoPin \cup autoPin'
                  THEN Known(c) /\ PinnedBy(runtimePin, autoPin', c) ELSE pinned[c]]
  /\ UNCHANGED <<overrides, runtimePin, place, disabled, call>>

-----------------------------------------------------------------------------
(* The store. *)

(* A write: done, or not done as the store is known to be away, or an      *)
(* error that leaves open whether it was done and whether it is away.      *)
Writes(document) == storeUp /\ disk' = document /\ UNCHANGED <<storeUp, spent>>

Refuses == ~storeUp /\ UNCHANGED <<disk, storeUp, spent>>

Errs(document) ==
  /\ storeUp
  /\ spent.faults < MaxFaults
  /\ spent' = [spent EXCEPT !.faults = @ + 1]
  /\ disk' \in {disk, document}
  /\ storeUp' \in BOOLEAN

WithOverride(c, value) == [disk EXCEPT !.overrides[c] = value]
WithAuto(c) == [disk EXCEPT !.auto = @ \cup {c}]

StoreGoes ==
  /\ storeUp
  /\ spent.faults < MaxFaults
  /\ spent' = [spent EXCEPT !.faults = @ + 1]
  /\ storeUp' = FALSE
  /\ UNCHANGED <<disk, registry, op, scanner, sync, healthy, wish, overtaken>>

-----------------------------------------------------------------------------
(* Tasks at rest, and the start of the process. *)

Unused == CHOOSE c \in Chains : TRUE

NoRequest ==
  [pc |-> "idle", chain |-> Unused, command |-> "none", value |-> NoOverride,
   document |-> EmptyDocument]

NoCall == [pc |-> "idle", chain |-> Unused, flag |-> FALSE]

NoScan == [pc |-> "idle", todo |-> {}, chain |-> Unused, writable |-> FALSE]

NoSync == [pc |-> "idle", overrides |-> EmptyDocument.overrides, auto |-> {}]

(* Mutant: the flags of the hot chains are set before the auto-enabled     *)
(* chains are known.                                                       *)
BootHotFirst(document, hot) ==
  LET auto == {c \in document.auto : ~Tombstone(document.overrides[c])}
      manual == [c \in Chains |-> document.overrides[c].pinned]
      restored == hot \cup auto
  IN  /\ overrides' = document.overrides
      /\ runtimePin' = manual
      /\ autoPin' = auto
      /\ place' = [c \in Chains |-> IF c \in restored THEN "awake" ELSE "absent"]
      /\ pinned' = [c \in Chains |->
                      c \in restored /\ PinnedBy(manual, auto \ hot, c)]
      /\ disabled' = [c \in Chains |->
                        c \in restored /\ document.overrides[c].disabled = "yes"]

(* main: the overrides, the hot chains, then the auto-enabled ones that no *)
(* tombstone excludes, are restored before the listener opens.             *)
Boot(document, hot) ==
  LET auto == {c \in document.auto : ~Tombstone(document.overrides[c])}
      manual == [c \in Chains |-> document.overrides[c].pinned]
      restored == hot \cup auto
  IN  /\ overrides' = document.overrides
      /\ runtimePin' = manual
      /\ autoPin' = auto
      /\ place' = [c \in Chains |-> IF c \in restored THEN "awake" ELSE "absent"]
      /\ pinned' = [c \in Chains |-> c \in restored /\ PinnedBy(manual, auto, c)]
      /\ disabled' = [c \in Chains |->
                        c \in restored /\ document.overrides[c].disabled = "yes"]

Init ==
  /\ disk = EmptyDocument
  /\ storeUp = TRUE
  /\ overrides = EmptyDocument.overrides
  /\ runtimePin = [c \in Chains |-> "none"]
  /\ autoPin = {}
  /\ place = [c \in Chains |-> "absent"]
  /\ pinned = [c \in Chains |-> FALSE]
  /\ disabled = [c \in Chains |-> FALSE]
  /\ call = [t \in Callers |-> NoCall]
  /\ op = [o \in Operators |-> NoRequest]
  /\ scan = NoScan
  /\ rounds = [c \in Chains |-> 0]
  /\ cursor = 0
  /\ sync = NoSync
  /\ healthy \in Offers
  /\ spent = [commands |-> 0, faults |-> 0, restarts |-> 0, changes |-> 0]
  /\ wish = EmptyDocument.overrides
  /\ overtaken = {}

(* The process dies at any moment and starts again from the store; a start *)
(* from the local copy of a store that is away is left out.                *)
Restart ==
  /\ storeUp
  /\ spent.restarts < MaxRestarts
  /\ spent' = [spent EXCEPT !.restarts = @ + 1]
  /\ \E hot \in SUBSET Chains : Boot(disk, hot)
  /\ call' = [t \in Callers |-> NoCall]
  /\ op' = [o \in Operators |-> NoRequest]
  /\ scan' = NoScan
  /\ rounds' = [c \in Chains |-> 0]
  /\ cursor' = 0
  /\ sync' = NoSync
  /\ overtaken' = {}
  /\ UNCHANGED <<store, healthy, wish>>

-----------------------------------------------------------------------------
(* resolve_for_request, by an ingress request, an operator or the scanner. *)

Onward == IF scan.todo = {} THEN NoScan ELSE [scan EXCEPT !.pc = "judge", !.chain = Unused]

(* The caller has its chain: the answer of a command is then complete, and *)
(* the scanner goes on to the next chain of the batch, or ends the round.  *)
Resumes(t) ==
  /\ op' = [o \in Operators |->
              IF o = t /\ op[o].pc = "answer" THEN NoRequest ELSE op[o]]
  /\ scan' = IF t = Scanner THEN Onward ELSE scan

(* What awaits nothing: a chain that is awake, or disabled, is found.      *)
Touched(c) == IF disabled[c] THEN place ELSE [place EXCEPT ![c] = "awake"]

(* Otherwise is_pinned_chain is asked before the lock is waited for.       *)
Resolves(t, c) ==
  /\ call[t].pc = "idle"
  /\ IF Asleep(c)
     THEN /\ call' = [call EXCEPT ![t] =
                        [pc |-> "waiting", chain |-> c,
                         flag |-> PinnedBy(runtimePin, autoPin, c)]]
          /\ UNCHANGED <<flags, op, scan>>
     ELSE place' = Touched(c) /\ Resumes(t) /\ UNCHANGED <<pinned, disabled, call>>
  /\ UNCHANGED <<store, pins, rounds, cursor, sync, healthy, spent, wish, overtaken>>

(* Under the lock a dormant state leaves the map; another one is found.    *)
Enter(t) ==
  LET c == call[t].chain
  IN  /\ call[t].pc = "waiting"
      /\ \A u \in Callers : ~(call[u].pc = "inside" /\ call[u].chain = c)
      /\ IF Asleep(c)
         THEN /\ call' = [call EXCEPT ![t].pc = "inside"]
              /\ place' = [place EXCEPT ![c] = "absent"]
              /\ pinned' = [pinned EXCEPT ![c] = FALSE]
              /\ disabled' = [disabled EXCEPT ![c] = FALSE]
              /\ UNCHANGED <<op, scan>>
         ELSE /\ call' = [call EXCEPT ![t] = NoCall]
              /\ place' = [place EXCEPT ![c] = "awake"]
              /\ Resumes(t)
              /\ UNCHANGED <<pinned, disabled>>
      /\ UNCHANGED <<store, pins, rounds, cursor, sync, healthy, spent, wish, overtaken>>

(* materialize: the state gets the flag that was read at first.            *)
Install(t) ==
  LET c == call[t].chain
  IN  /\ call[t].pc = "inside"
      /\ place' = [place EXCEPT ![c] = "awake"]
      /\ pinned' = [pinned EXCEPT ![c] = call[t].flag]
      /\ disabled' = [disabled EXCEPT ![c] = overrides[c].disabled = "yes"]
      /\ call' = [call EXCEPT ![t] = NoCall]
      /\ Resumes(t)
      /\ UNCHANGED <<store, pins, rounds, cursor, sync, healthy, spent, wish, overtaken>>

(* An ingress request, or the activation of a restored hot chain.          *)
Request(o, c) == op[o].pc = "idle" /\ Resolves(o, c)

(* The client is gone and the future is dropped.                           *)
GiveUp(o) ==
  /\ op[o].pc = "idle" /\ call[o].pc # "idle"
  /\ call' = [call EXCEPT ![o] = NoCall]
  /\ UNCHANGED <<store, pins, flags, op, scanner, sync, healthy, spent, wish, overtaken>>

(* demote, by housekeeping, for room, or by an operator *)
Demote(c) ==
  /\ place[c] = "awake" /\ ~pinned[c]
  /\ place' = [place EXCEPT ![c] = "dormant"]
  /\ UNCHANGED <<store, pins, pinned, disabled, call, op, scanner, sync, healthy,
                 spent, wish, overtaken>>

-----------------------------------------------------------------------------
(* Operators: chain_action, chain_settings, state_import, state_reset. *)

ChoiceOf(command) == IF command \in {"pin", "disable"} THEN "yes" ELSE "no"

(* What the command makes of an override. *)
Changed(value, command) ==
  CASE command \in Pins -> [value EXCEPT !.pinned = ChoiceOf(command)]
    [] command \in Switches -> [value EXCEPT !.disabled = ChoiceOf(command)]
    [] OTHER -> value

AtOp(o, pc) == op[o].pc = pc

OpGoes(o, pc) == op' = [op EXCEPT ![o].pc = pc]
OpEnds(o) == op' = [op EXCEPT ![o] = NoRequest]

MayCommand(o) ==
  /\ AtOp(o, "idle") /\ call[o].pc = "idle"
  /\ spent.commands < MaxCommands
  /\ spent' = [spent EXCEPT !.commands = @ + 1]

(* The override that the command starts from is the one in memory.         *)
Command(o, c, command) ==
  /\ MayCommand(o)
  /\ op' = [op EXCEPT ![o] =
              [NoRequest EXCEPT !.pc = "persist", !.chain = c, !.command = command,
                                !.value = Changed(overrides[c], command)]]
  /\ UNCHANGED <<store, registry, scanner, sync, healthy, wish, overtaken>>

Wished(c, command, document) ==
  wish' = IF document = disk THEN wish
          ELSE [wish EXCEPT ![c] = Changed(@, command)]

(* persist_chain *)
Persist(o) ==
  LET request == op[o]
      document == WithOverride(request.chain, request.value)
  IN  /\ AtOp(o, "persist")
      /\ \/ /\ Writes(document)
            /\ OpGoes(o, "apply")
            /\ wish' = [wish EXCEPT ![request.chain] = Changed(@, request.command)]
         \/ /\ Refuses
            /\ OpEnds(o)
            /\ UNCHANGED wish
         \/ /\ Errs(document)
            /\ OpEnds(o)
            /\ Wished(request.chain, request.command, disk')
      /\ UNCHANGED <<registry, scanner, sync, healthy, overtaken>>

(* A chain that the map lacks is resolved first. *)
Fetch(o) ==
  /\ AtOp(o, "apply")
  /\ op[o].command # "settings" /\ ~Known(op[o].chain)
  /\ Resolves(o, op[o].chain)

Apply(o) ==
  LET request == op[o]
      c == request.chain
      command == request.command
  IN  /\ AtOp(o, "apply") /\ call[o].pc = "idle"
      /\ command # "settings" => Known(c)
      /\ CASE command \in Pins -> SetPinned(c, ChoiceOf(command)) /\ OpGoes(o, "answer")
           [] command \in Switches ->
                SetDisabled(c, ChoiceOf(command)) /\ OpGoes(o, "answer")
           [] OTHER -> ApplyOverride(c, request.value) /\ OpEnds(o)
      /\ UNCHANGED <<store, scanner, sync, healthy, spent, wish, overtaken>>

(* The answer of chain_action names the state that a request would find.   *)
Answer(o) == AtOp(o, "answer") /\ Resolves(o, op[o].chain)

Replace(o, document) ==
  /\ MayCommand(o)
  /\ op' = [op EXCEPT ![o] =
              [NoRequest EXCEPT !.pc = "replace", !.document = document]]
  /\ UNCHANGED <<store, registry, scanner, sync, healthy, wish, overtaken>>

(* Auto-enabled chains on their way from the store to the registry. *)
Coming ==
  (IF scan.pc = "pin" THEN {scan.chain} ELSE {})
    \cup (IF sync.pc = "sync" THEN sync.auto ELSE {})
    \cup UNION {op[o].document.auto :
                  o \in {x \in Operators : op[x].pc \in {"overrides", "auto"}}}

Overtakes(document) ==
  overtaken' = (overtaken \cup autoPin \cup Coming) \ document.auto

ReplaceStored(o) ==
  LET document == op[o].document
  IN  /\ AtOp(o, "replace")
      /\ \/ /\ Writes(document)
            /\ OpGoes(o, "overrides")
            /\ wish' = document.overrides
            /\ Overtakes(document)
         \/ /\ Refuses
            /\ OpEnds(o)
            /\ UNCHANGED <<wish, overtaken>>
         \/ /\ Errs(document)
            /\ OpEnds(o)
            /\ wish' = disk'.overrides
            /\ IF disk' = disk THEN UNCHANGED overtaken ELSE Overtakes(document)
      /\ UNCHANGED <<registry, scanner, sync, healthy>>

(* An import now activates its hot chains, as requests do: Request.        *)
ReplaceOverrides(o) ==
  /\ AtOp(o, "overrides")
  /\ ApplyOverrides(op[o].document.overrides)
  /\ OpGoes(o, "auto")
  /\ UNCHANGED <<store, scanner, sync, healthy, spent, wish, overtaken>>

ReplaceAuto(o) ==
  /\ AtOp(o, "auto")
  /\ SyncAutoPinned(op[o].document.auto)
  /\ OpEnds(o)
  /\ overtaken' = overtaken \cap Coming
  /\ UNCHANGED <<store, scanner, sync, healthy, spent, wish>>

-----------------------------------------------------------------------------
(* spawn_state_reconnect: what the store holds replaces what memory holds. *)

SyncGoes(pc) == sync' = [sync EXCEPT !.pc = pc]

Reconnect ==
  /\ sync.pc = "idle" /\ ~storeUp
  /\ storeUp' = TRUE
  /\ SyncGoes("connected")
  /\ UNCHANGED <<disk, registry, op, scanner, healthy, spent, wish, overtaken>>

LoadOverrides ==
  /\ sync.pc = "connected" /\ storeUp
  /\ sync' = [sync EXCEPT !.pc = "loaded", !.overrides = disk.overrides]
  /\ UNCHANGED <<store, registry, op, scanner, healthy, spent, wish, overtaken>>

ReapplyOverrides ==
  /\ sync.pc = "loaded"
  /\ ApplyOverrides(sync.overrides)
  /\ sync' = [sync EXCEPT !.pc = "applied", !.overrides = EmptyDocument.overrides]
  /\ UNCHANGED <<store, op, scanner, healthy, spent, wish, overtaken>>

LoadAuto ==
  /\ sync.pc = "applied" /\ storeUp
  /\ sync' = [sync EXCEPT !.pc = "sync", !.auto = disk.auto]
  /\ UNCHANGED <<store, registry, op, scanner, healthy, spent, wish, overtaken>>

SyncAuto ==
  /\ sync.pc = "sync"
  /\ SyncAutoPinned(sync.auto)
  /\ sync' = NoSync
  /\ UNCHANGED <<store, op, scanner, healthy, spent, wish, overtaken>>

(* The store goes again before its document was read: the local copy is    *)
(* read, which this module leaves out, or nothing is.                      *)
SyncFails ==
  /\ sync.pc \in {"connected", "applied"} /\ ~storeUp
  /\ sync' = NoSync
  /\ UNCHANGED <<store, registry, op, scanner, healthy, spent, wish, overtaken>>

-----------------------------------------------------------------------------
(* The scanner: AutoEnableManager::run_once and promote.                   *)

(* build_candidates *)
Candidates == {c \in Chains \ AutoIds : ~Tombstone(overrides[c])}

Lesser(m, n) == IF m < n THEN m ELSE n

(* Qualified rounds in a row, as far as they are compared.                 *)
Counted(c) == IF c \in healthy THEN Lesser(rounds[c] + 1, PromoteAfter) ELSE 0

(* The next ProbeBatch candidates from the cursor on, around the end.      *)
Batch ==
  LET total == Cardinality(Candidates)
      Position(c) == Cardinality({b \in Candidates : Rank[b] < Rank[c]})
      Distance(c) == (Position(c) + total - (cursor % total)) % total
  IN  {c \in Candidates : Distance(c) < Lesser(ProbeBatch, total)}

(* Mutant: every round starts with the best candidate.                     *)
ScanFromStart ==
  /\ scan.pc = "idle"
  /\ rounds' = [c \in Chains |-> IF c \in Candidates THEN rounds[c] ELSE 0]
  /\ cursor' = 0
  /\ scan' = IF Candidates = {} THEN scan
             ELSE [NoScan EXCEPT !.pc = "judge", !.todo = Batch, !.writable = storeUp]
  /\ UNCHANGED <<store, registry, op, sync, healthy, spent, wish, overtaken>>

Scan ==
  /\ scan.pc = "idle"
  /\ rounds' = [c \in Chains |-> IF c \in Candidates THEN rounds[c] ELSE 0]
  /\ IF Candidates = {}
     THEN cursor' = 0 /\ UNCHANGED scan
     ELSE LET total == Cardinality(Candidates)
          IN  /\ cursor' = ((cursor % total) + Lesser(ProbeBatch, total)) % total
              /\ scan' = [NoScan EXCEPT !.pc = "judge", !.todo = Batch,
                                        !.writable = storeUp]
  /\ UNCHANGED <<store, registry, op, sync, healthy, spent, wish, overtaken>>

(* The probes of a chain of the batch come back, in any order. *)
Judge(c) ==
  LET promotes == /\ Counted(c) >= PromoteAfter
                  /\ Cardinality(AutoIds) < MaxChains
                  /\ scan.writable
      left == scan.todo \ {c}
  IN  /\ scan.pc = "judge" /\ c \in scan.todo
      /\ rounds' = [rounds EXCEPT ![c] = Counted(c)]
      /\ scan' = IF promotes
                 THEN [scan EXCEPT !.pc = "put", !.todo = left, !.chain = c]
                 ELSE IF left = {} THEN NoScan ELSE [scan EXCEPT !.todo = left]
      /\ UNCHANGED <<store, registry, op, cursor, sync, healthy, spent, wish,
                     overtaken>>

(* Mutant: a failed write is only logged.                                  *)
PutAutoRegardless ==
  LET document == WithAuto(scan.chain)
  IN  /\ scan.pc = "put"
      /\ Writes(document) \/ Refuses \/ Errs(document)
      /\ scan' = [scan EXCEPT !.pc = "pin"]
      /\ overtaken' = IF disk' = document THEN overtaken \ {scan.chain} ELSE overtaken
      /\ UNCHANGED <<registry, op, rounds, cursor, sync, healthy, wish>>

PutAuto ==
  LET document == WithAuto(scan.chain)
  IN  /\ scan.pc = "put"
      /\ \/ /\ Writes(document)
            /\ scan' = [scan EXCEPT !.pc = "pin"]
            /\ overtaken' = overtaken \ {scan.chain}
         \/ /\ Refuses \/ Errs(document)
            /\ scan' = Onward
            /\ UNCHANGED overtaken
      /\ UNCHANGED <<registry, op, rounds, cursor, sync, healthy, wish>>

(* set_auto_pinned asks for the tombstone once more. *)
PinAuto ==
  /\ scan.pc = "pin"
  /\ IF Tombstone(overrides[scan.chain])
     THEN scan' = Onward /\ UNCHANGED registry
     ELSE /\ SetAutoPinned(scan.chain)
          /\ scan' = [scan EXCEPT !.pc = "kick"]
  /\ UNCHANGED <<store, op, rounds, cursor, sync, healthy, spent, wish, overtaken>>

KickAuto == scan.pc = "kick" /\ Resolves(Scanner, scan.chain)

(* The endpoints of a chain come to qualify it, or cease to. *)
Change(c) ==
  /\ spent.changes < MaxChanges
  /\ spent' = [spent EXCEPT !.changes = @ + 1]
  /\ healthy' = IF c \in healthy THEN healthy \ {c} ELSE healthy \cup {c}
  /\ UNCHANGED <<store, registry, op, scanner, sync, wish, overtaken>>

-----------------------------------------------------------------------------
OperatorStep(o) ==
  \/ Persist(o) \/ Fetch(o) \/ Apply(o) \/ Answer(o)
  \/ ReplaceStored(o) \/ ReplaceOverrides(o) \/ ReplaceAuto(o)

SyncStep ==
  Reconnect \/ LoadOverrides \/ ReapplyOverrides \/ LoadAuto \/ SyncAuto \/ SyncFails

(* What the scanner does by itself, once the probes of a chain are back.    *)
OwnStep == Scan \/ PutAuto \/ PinAuto \/ KickAuto

ScannerStep == OwnStep \/ \E c \in Chains : Judge(c)

Next ==
  \/ \E o \in Operators :
       \/ OperatorStep(o)
       \/ GiveUp(o)
       \/ \E c \in Chains : Request(o, c)
       \/ \E c \in Chains, command \in Commands : Command(o, c, command)
       \/ \E document \in Documents : Replace(o, document)
  \/ SyncStep
  \/ ScannerStep
  \/ \E t \in Callers : Enter(t) \/ Install(t)
  \/ \E c \in Chains : Demote(c) \/ Change(c)
  \/ StoreGoes
  \/ Restart

Spec == Init /\ [][Next]_vars

(* The background tasks run again and again, the store comes back, and a   *)
(* request that was begun is carried out. Nothing ends a probe whose answer*)
(* trickles in without an end: neither read_capped nor the client has a    *)
(* time-out for the body, so no fairness is assumed of Judge.              *)
FairSpec ==
  /\ Spec
  /\ WF_vars(OwnStep)
  /\ WF_vars(SyncStep)
  /\ \A o \in Operators : WF_vars(OperatorStep(o))
  /\ \A t \in Callers : SF_vars(Enter(t)) /\ WF_vars(Install(t))

-----------------------------------------------------------------------------
(* Properties. *)

(* Every variable has its type. *)
TypeOK ==
  /\ disk \in Document
  /\ storeUp \in BOOLEAN
  /\ overrides \in [Chains -> Override]
  /\ runtimePin \in [Chains -> Choices]
  /\ autoPin \subseteq Chains
  /\ place \in [Chains -> {"absent", "dormant", "awake"}]
  /\ pinned \in [Chains -> BOOLEAN]
  /\ disabled \in [Chains -> BOOLEAN]
  /\ call \in [Callers -> [pc : {"idle", "waiting", "inside"}, chain : Chains,
                           flag : BOOLEAN]]
  /\ op \in [Operators ->
       [pc : {"idle", "persist", "apply", "answer", "replace", "overrides", "auto"},
        chain : Chains, command : Commands \cup {"none"}, value : Override,
        document : Documents \cup {EmptyDocument}]]
  /\ scan \in [pc : {"idle", "judge", "put", "pin", "kick"}, todo : SUBSET Chains,
               chain : Chains, writable : BOOLEAN]
  /\ rounds \in [Chains -> 0..PromoteAfter]
  /\ cursor \in Nat
  /\ sync \in [pc : {"idle", "connected", "loaded", "applied", "sync"},
               overrides : [Chains -> Override], auto : SUBSET Chains]
  /\ healthy \subseteq Chains
  /\ spent \in [commands : 0..MaxCommands, faults : 0..MaxFaults,
                restarts : 0..MaxRestarts, changes : 0..MaxChanges]
  /\ wish \in [Chains -> Override]
  /\ overtaken \subseteq Chains

Agrees(c) == pinned[c] = (Known(c) /\ PinnedBy(runtimePin, autoPin, c))

PinsChange(c) == runtimePin'[c] # runtimePin[c] \/ (c \in autoPin) # (c \in autoPin')

(* An activation puts into the map what it read before the pins changed.   *)
InstallsOld(c) ==
  \E t \in Callers :
    /\ call[t].chain = c /\ call[t].flag # PinnedBy(runtimePin, autoPin, c)
    /\ Install(t)

(* The flag by which a chain is spared, counted and shown is a copy of     *)
(* what was chosen by hand, or else by auto-enable. Every command,         *)
(* promotion, import, reset, reconnect and restart that changes either     *)
(* brings it in line, and none of them takes it out of line for another    *)
(* chain: the one way for the copy to become wrong is an activation that   *)
(* was under way when the pins changed (registry.rs, resolve_for_request). *)
PinFlagFollows ==
  [][\A c \in Chains :
       Agrees(c) \/ PinsChange(c) => Agrees(c)' \/ InstallsOld(c)]_vars

(* autoenable.rs, promote: first stored, then in memory. So a restart      *)
(* disables no chain that auto-enable had enabled; only an import or reset *)
(* that came between the two steps of a promotion, or of a reconnect, can  *)
(* leave a chain in memory that the store does not have.                   *)
AutoIsStored == autoPin \subseteq disk.auto \cup overtaken

RoundsEnd == []<>(scan.pc # "judge")

(* A candidate whose endpoints keep qualifying it, that no tombstone       *)
(* excludes, is enabled while there is room: no rotation of the batches    *)
(* starves it, and no failure of the store or restart makes it be forgotten*)
(* (autoenable.rs). That holds as long as rounds of probes end: one body   *)
(* without an end stops the scanner for good.                              *)
QualifiedIsEnabled ==
  RoundsEnd =>
    \A c \in Chains :
      <>[](/\ c \in healthy /\ ~Tombstone(overrides[c])
           /\ Cardinality(AutoIds \ {c}) < MaxChains)
        => []<>(c \in autoPin)

(* docs/DESIGN-v2.md:178: pin and disable are persisted. What was written  *)
(* last for a field is what the store holds, until it is written again.    *)
(* It fails: set_pinned and set_disabled leave runtime_chain_overrides as  *)
(* it is, from which the next command or setting of the chain starts.      *)
WishIsStored == disk.overrides = wish

=============================================================================
