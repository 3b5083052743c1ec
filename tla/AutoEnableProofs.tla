--------------------------- MODULE AutoEnableProofs ---------------------------
(* Pins, auto-enable and the store, for any chains, operators, documents   *)
(* and bounds.                                                             *)
EXTENDS AutoEnable, FiniteSetTheorems, TLAPS

-----------------------------------------------------------------------------
(* The registry: its types, and the flag that follows the pins.            *)

Calls == [pc : {"idle", "waiting", "inside"}, chain : Chains, flag : BOOLEAN]

RegistryType ==
  /\ overrides \in [Chains -> Override]
  /\ runtimePin \in [Chains -> Choices]
  /\ autoPin \subseteq Chains
  /\ place \in [Chains -> {"absent", "dormant", "awake"}]
  /\ pinned \in [Chains -> BOOLEAN]
  /\ disabled \in [Chains -> BOOLEAN]
  /\ call \in [Callers -> Calls]

(* A chain that is not in the map has no flag.                             *)
NoFlag == \A c \in Chains : Known(c) \/ ~pinned[c]

RegistryInv == RegistryType /\ NoFlag

(* A step that leaves no flag behind the pins. *)
Follows == \A c \in Chains : Agrees(c) \/ PinsChange(c) => Agrees(c)'

LEMMA OverrideFields ==
  ASSUME NEW values \in [Chains -> Override], NEW c \in Chains
  PROVE  values[c].pinned \in Choices /\ values[c].disabled \in Choices
BY DEF Override

LEMMA BooleanUpdate ==
  ASSUME NEW f \in [Chains -> BOOLEAN], NEW c \in Chains, NEW b \in BOOLEAN
  PROVE  [f EXCEPT ![c] = b] \in [Chains -> BOOLEAN]
OBVIOUS

LEMMA PinnedByType ==
  ASSUME NEW manual, NEW auto, NEW c
  PROVE  PinnedBy(manual, auto, c) \in BOOLEAN
<1>1. CASE manual[c] = "none"
  BY <1>1 DEF PinnedBy
<1>2. CASE manual[c] # "none"
  BY <1>2 DEF PinnedBy
<1>. QED
  BY <1>1, <1>2

LEMMA CallUpdate ==
  ASSUME RegistryInv, NEW t \in Callers, NEW called \in Calls,
         call' = [call EXCEPT ![t] = called]
  PROVE  call' \in [Callers -> Calls]
BY DEF RegistryInv, NoFlag, Known, RegistryType

LEMMA SetPinnedKeeps ==
  ASSUME RegistryInv, NEW c \in Chains, NEW choice \in {"yes", "no"},
         SetPinned(c, choice), Known(c)
  PROVE  RegistryInv' /\ Follows
<1>1. RegistryInv'
  BY DEF RegistryInv, NoFlag, Known, RegistryType, SetPinned, Choices
<1>2. Follows
  BY DEF RegistryInv, NoFlag, Known, RegistryType, Follows, Agrees, PinsChange, SetPinned,
              PinnedBy, Known
<1>. QED
  BY <1>1, <1>2

LEMMA SetDisabledKeeps ==
  ASSUME RegistryInv, NEW c \in Chains, NEW choice \in {"yes", "no"},
         SetDisabled(c, choice)
  PROVE  RegistryInv' /\ Follows
<1>1. disabled' \in [Chains -> BOOLEAN]
  <2>1. /\ (choice = "yes") \in BOOLEAN
        /\ disabled \in [Chains -> BOOLEAN]
        /\ disabled' = [disabled EXCEPT ![c] = choice = "yes"]
    BY DEF RegistryInv, NoFlag, Known, RegistryType, SetDisabled
  <2>. QED
    BY ONLY <2>1, BooleanUpdate, c \in Chains
<1>2. UNCHANGED <<pins, place, pinned, call>>
  BY DEF SetDisabled
<1>3. Follows
  BY <1>2 DEF Follows, Agrees, PinsChange, PinnedBy, Known, pins
<1>. QED
  BY <1>1, <1>2, <1>3 DEF RegistryInv, NoFlag, Known, RegistryType, pins

LEMMA ApplyOverrideKeeps ==
  ASSUME RegistryInv, NEW c \in Chains, NEW value \in Override,
         ApplyOverride(c, value)
  PROVE  RegistryInv' /\ Follows
<1>1. value.pinned \in Choices
  BY DEF Override
<1>2. RegistryInv'
  BY <1>1 DEF RegistryInv, NoFlag, Known, RegistryType, ApplyOverride, Choices
<1>3. Follows
  <2>1. CASE value.pinned = "none"
    BY <2>1 DEF Follows, Agrees, PinsChange, ApplyOverride, PinnedBy, Known
  <2>2. CASE value.pinned # "none"
    <3>1. /\ runtimePin' = [runtimePin EXCEPT ![c] = value.pinned]
          /\ pinned' = IF Known(c) THEN [pinned EXCEPT ![c] = value.pinned = "yes"]
                       ELSE pinned
          /\ UNCHANGED <<autoPin, place>>
      BY <2>2 DEF ApplyOverride
    <3>2. ASSUME NEW b \in Chains, Agrees(b) \/ PinsChange(b) PROVE Agrees(b)'
      BY <1>1, <2>2, <3>1, <3>2
         DEF RegistryInv, NoFlag, Known, RegistryType, Agrees, PinsChange, PinnedBy, Known
    <3>. QED
      BY <3>2 DEF Follows
  <2>. QED
    BY <2>1, <2>2
<1>. QED
  BY <1>2, <1>3

LEMMA ApplyOverridesKeeps ==
  ASSUME RegistryInv, NEW values \in [Chains -> Override], ApplyOverrides(values)
  PROVE  RegistryInv' /\ Follows
<1>1. RegistryInv'
  BY OverrideFields DEF RegistryInv, NoFlag, Known, RegistryType, ApplyOverrides, PinnedBy
<1>2. Follows
  BY DEF Follows, Agrees, ApplyOverrides, PinnedBy, Known
<1>. QED
  BY <1>1, <1>2

LEMMA SetAutoPinnedKeeps ==
  ASSUME RegistryInv, NEW c \in Chains, SetAutoPinned(c)
  PROVE  RegistryInv' /\ Follows
<1>1. RegistryInv'
  BY DEF RegistryInv, NoFlag, Known, RegistryType, SetAutoPinned, PinnedBy, Known
<1>2. Follows
  BY DEF RegistryInv, NoFlag, Known, RegistryType, Follows, Agrees, PinsChange, SetAutoPinned,
         PinnedBy, Known
<1>. QED
  BY <1>1, <1>2

(* Only the chains that leave or enter the set have their flag set anew:   *)
(* for the others it is the same as before.                                *)
LEMMA SyncAutoPinnedKeeps ==
  ASSUME RegistryInv, NEW chains \in SUBSET Chains, SyncAutoPinned(chains)
  PROVE  RegistryInv' /\ Follows
<1>1. RegistryInv'
  BY DEF RegistryInv, NoFlag, Known, RegistryType, SyncAutoPinned, PinnedBy, Known
<1>2. Follows
  BY DEF RegistryInv, NoFlag, Known, RegistryType, Follows, Agrees, PinsChange, SyncAutoPinned,
         PinnedBy, Known
<1>. QED
  BY <1>1, <1>2

LEMMA BootGives ==
  ASSUME NEW document \in Document, NEW hot \in SUBSET Chains, Boot(document, hot),
         call' \in [Callers -> Calls]
  PROVE  RegistryInv' /\ Follows
<1>1. document.overrides \in [Chains -> Override] /\ document.auto \subseteq Chains
  BY DEF Document
<1>2. RegistryInv'
  BY <1>1, OverrideFields DEF RegistryInv, NoFlag, Known, RegistryType, Boot, PinnedBy, Known
<1>3. Follows
  BY DEF Follows, Agrees, Boot, PinnedBy, Known
<1>. QED
  BY <1>2, <1>3

-----------------------------------------------------------------------------
(* The rest of the state, part by part. *)

StoreType ==
  /\ disk \in Document
  /\ storeUp \in BOOLEAN
  /\ healthy \subseteq Chains
  /\ spent \in [commands : 0..MaxCommands, faults : 0..MaxFaults,
                restarts : 0..MaxRestarts, changes : 0..MaxChanges]
  /\ wish \in [Chains -> Override]
  /\ overtaken \subseteq Chains

Requests ==
  [pc : {"idle", "persist", "apply", "answer", "replace", "overrides", "auto"},
   chain : Chains, command : Commands \cup {"none"}, value : Override,
   document : Documents \cup {EmptyDocument}]

OpType == op \in [Operators -> Requests]

Scans == [pc : {"idle", "judge", "put", "pin", "kick"}, todo : SUBSET Chains,
          chain : Chains, writable : BOOLEAN]

ScanType ==
  /\ scan \in Scans
  /\ rounds \in [Chains -> 0..PromoteAfter]
  /\ cursor \in Nat

SyncType ==
  sync \in [pc : {"idle", "connected", "loaded", "applied", "sync"},
            overrides : [Chains -> Override], auto : SUBSET Chains]

(* What memory has of auto-enabled chains, and all that is on its way      *)
(* there, is in the store, or an import or reset left it out meanwhile.    *)
(* AutoIsStored alone is not inductive: what a promotion, a reconnect or   *)
(* an import read of the store may be gone from it when it is applied.     *)
Kept == disk.auto \cup overtaken

ScanStored == scan.pc = "pin" => scan.chain \in Kept
SyncStored == sync.pc = "sync" => sync.auto \subseteq Kept
OpStored ==
  \A o \in Operators :
    op[o].pc \in {"overrides", "auto"} => op[o].document.auto \subseteq Kept

StoredInv == AutoIsStored /\ ScanStored /\ SyncStored /\ OpStored

EnableInv ==
  StoreType /\ RegistryInv /\ OpType /\ ScanType /\ SyncType /\ StoredInv

LEMMA InvTypes == EnableInv => TypeOK /\ AutoIsStored
BY DEF EnableInv, StoreType, RegistryInv, RegistryType, Calls, OpType, Requests,
       ScanType, Scans, SyncType, StoredInv, TypeOK

LEMMA ComingKept ==
  ASSUME ScanStored, SyncStored, OpStored
  PROVE  Coming \subseteq Kept
BY DEF Coming, ScanStored, SyncStored, OpStored

LEMMA EmptyDocumentType ==
  /\ NoOverride \in Override
  /\ EmptyDocument \in Document
  /\ EmptyDocument.auto = {}
  /\ EmptyDocument.overrides \in [Chains -> Override]
BY DEF NoOverride, Override, Choices, EmptyDocument, Document

LEMMA DocumentFields ==
  ASSUME NEW document \in Document
  PROVE  document.overrides \in [Chains -> Override] /\ document.auto \subseteq Chains
BY DEF Document

LEMMA AtRest ==
  /\ Unused \in Chains
  /\ NoRequest \in Requests /\ NoRequest.pc = "idle"
  /\ NoCall \in Calls
  /\ NoScan \in Scans /\ NoScan.pc = "idle"
  /\ NoSync \in [pc : {"idle", "connected", "loaded", "applied", "sync"},
                 overrides : [Chains -> Override], auto : SUBSET Chains]
  /\ NoSync.pc = "idle"
<1>1. Unused \in Chains
  BY AutoEnableAssumption DEF Unused
<1>. QED
  BY <1>1, EmptyDocumentType DEF NoRequest, Requests, NoCall, Calls, NoScan,
                                 Scans, NoSync

LEMMA ChangedType ==
  ASSUME NEW value \in Override, NEW command \in Commands \cup {"none"}
  PROVE  Changed(value, command) \in Override
BY DEF Changed, Override, Choices, ChoiceOf

LEMMA RequestFields ==
  ASSUME NEW request \in Requests
  PROVE  /\ request.chain \in Chains
         /\ request.command \in Commands \cup {"none"}
         /\ request.value \in Override
         /\ request.document \in Document
BY EmptyDocumentType, AutoEnableAssumption DEF Requests

LEMMA InitEnable == Init => EnableInv
<1>. SUFFICES ASSUME Init PROVE EnableInv
  OBVIOUS
<1>1. StoreType
  BY EmptyDocumentType, AutoEnableAssumption DEF Init, StoreType
<1>2. RegistryType
  BY EmptyDocumentType, AtRest DEF Init, RegistryType, Choices
<1>4. OpType /\ ScanType /\ SyncType
  BY AtRest, AutoEnableAssumption DEF Init, OpType, ScanType, SyncType
<1>5. StoredInv
  BY AtRest DEF Init, StoredInv, AutoIsStored, ScanStored, SyncStored, OpStored
<1>. QED
  BY <1>1, <1>2, <1>4, <1>5 DEF EnableInv, RegistryInv, NoFlag, Init

-----------------------------------------------------------------------------
(* The steps. *)

LEMMA RegistrySame ==
  ASSUME RegistryInv, UNCHANGED registry
  PROVE  RegistryInv' /\ Follows
BY DEF RegistryInv, NoFlag, Known, RegistryType, Follows, Agrees, PinsChange, registry, pins, flags,
       Known, PinnedBy

(* A step that keeps the store's document and what is on its way. *)
LEMMA StoredSame ==
  ASSUME StoredInv, Kept \subseteq Kept', autoPin' = autoPin,
         scan'.pc = "pin" => UNCHANGED scan,
         sync'.pc = "sync" => UNCHANGED sync,
         \A o \in Operators :
           op'[o].pc \in {"overrides", "auto"} =>
             /\ op[o].pc \in {"overrides", "auto"}
             /\ op'[o].document = op[o].document
  PROVE  StoredInv'
<1>1. AutoIsStored'
  BY DEF StoredInv, AutoIsStored, Kept
<1>2. ScanStored' /\ SyncStored' /\ OpStored'
  BY DEF StoredInv, ScanStored, SyncStored, OpStored
<1>. QED
  BY <1>1, <1>2 DEF StoredInv

LEMMA StoreAnswers ==
  ASSUME StoreType, NEW document \in Document,
         Writes(document) \/ Refuses \/ Errs(document)
  PROVE  /\ disk' \in Document
         /\ disk' = disk \/ disk' = document
         /\ storeUp' \in BOOLEAN
         /\ spent' \in [commands : 0..MaxCommands, faults : 0..MaxFaults,
                        restarts : 0..MaxRestarts, changes : 0..MaxChanges]
<1>1. CASE Writes(document)
  BY <1>1 DEF Writes, StoreType
<1>2. CASE Refuses
  BY <1>2 DEF Refuses, StoreType
<1>3. CASE Errs(document)
  BY <1>3, AutoEnableAssumption DEF Errs, StoreType
<1>. QED
  BY <1>1, <1>2, <1>3

LEMMA CommandSpent ==
  ASSUME StoreType, NEW o \in Operators, MayCommand(o), UNCHANGED <<store, healthy, wish, overtaken>>
  PROVE  StoreType'
BY AutoEnableAssumption DEF StoreType, MayCommand, store

LEMMA OpUpdate ==
  ASSUME OpType, NEW o \in Operators, NEW request \in Requests,
         op' = [op EXCEPT ![o] = request]
  PROVE  /\ OpType'
         /\ op'[o] = request
         /\ \A x \in Operators \ {o} : op'[x] = op[x]
BY DEF OpType

LEMMA OpStep ==
  ASSUME OpType, NEW o \in Operators,
         NEW pc \in {"idle", "persist", "apply", "answer", "replace", "overrides", "auto"},
         OpGoes(o, pc)
  PROVE  /\ OpType'
         /\ op'[o].pc = pc /\ op'[o].document = op[o].document
         /\ \A x \in Operators \ {o} : op'[x] = op[x]
BY DEF OpType, OpGoes, Requests

LEMMA OpEnd ==
  ASSUME OpType, NEW o \in Operators, OpEnds(o)
  PROVE  /\ OpType'
         /\ op'[o].pc = "idle"
         /\ \A x \in Operators \ {o} : op'[x] = op[x]
BY OpUpdate, AtRest DEF OpEnds

LEMMA OnwardType ==
  ASSUME ScanType
  PROVE  Onward \in Scans /\ Onward.pc # "pin"
<1>1. CASE scan.todo = {}
  BY <1>1, AtRest DEF Onward
<1>2. CASE scan.todo # {}
  BY <1>2, AtRest DEF ScanType, Scans, Onward
<1>. QED
  BY <1>1, <1>2

(* Whoever resolves a chain: only the commands that are answered with it   *)
(* and the scanner go on.                                                  *)
LEMMA ResumesKeeps ==
  ASSUME EnableInv, NEW t \in Callers, RegistryInv',
         \/ Resumes(t)
         \/ UNCHANGED <<op, scan>>,
         UNCHANGED <<store, pins, rounds, cursor, sync, healthy, spent, wish, overtaken>>
  PROVE  EnableInv'
<1>1. /\ OpType'
      /\ \A o \in Operators : op'[o] = op[o] \/ op'[o].pc = "idle"
  <2>1. CASE Resumes(t)
    BY <2>1, AtRest DEF EnableInv, OpType, Resumes
  <2>2. CASE UNCHANGED <<op, scan>>
    BY <2>2 DEF EnableInv, OpType
  <2>. QED
    BY <2>1, <2>2
<1>2. scan' \in Scans /\ (scan' = scan \/ scan'.pc # "pin")
  BY OnwardType DEF EnableInv, ScanType, Resumes
<1>3. StoreType' /\ ScanType' /\ SyncType'
  BY <1>2 DEF EnableInv, StoreType, ScanType, SyncType, store
<1>4. StoredInv'
  BY <1>1, <1>2, StoredSame DEF EnableInv, Kept, store, pins
<1>. QED
  BY <1>1, <1>3, <1>4 DEF EnableInv

LEMMA PlaceUpdate ==
  ASSUME RegistryInv, NEW c \in Chains, NEW p \in {"absent", "awake"}
  PROVE  [place EXCEPT ![c] = p] \in [Chains -> {"absent", "dormant", "awake"}]
BY DEF RegistryInv, NoFlag, Known, RegistryType

LEMMA ResolvesKeeps ==
  ASSUME EnableInv, NEW t \in Callers, NEW c \in Chains, Resolves(t, c)
  PROVE  EnableInv' /\ Follows
<1>1. RegistryInv
  BY DEF EnableInv
<1>2. UNCHANGED <<store, pins, rounds, cursor, sync, healthy, spent, wish, overtaken>>
  BY DEF Resolves
<1>3. CASE Asleep(c)
  <2>. DEFINE called == [pc |-> "waiting", chain |-> c,
                         flag |-> PinnedBy(runtimePin, autoPin, c)]
  <2>1. call' = [call EXCEPT ![t] = called] /\ UNCHANGED <<flags, op, scan>>
    BY <1>3 DEF Resolves
  <2>2. called \in Calls
    BY PinnedByType DEF Calls
  <2>. HIDE DEF called
  <2>3. call' \in [Callers -> Calls]
    BY <1>1, <2>1, <2>2, CallUpdate
  <2>4. RegistryInv'
    BY <1>1, <1>2, <2>1, <2>3 DEF RegistryInv, NoFlag, Known, RegistryType, pins, flags
  <2>5. Follows
    BY <1>2, <2>1 DEF Follows, Agrees, PinsChange, PinnedBy, Known, pins, flags
  <2>. QED
    BY <1>2, <2>1, <2>4, <2>5, ResumesKeeps
<1>4. CASE ~Asleep(c)
  <2>1. /\ place' = Touched(c) /\ Resumes(t)
        /\ UNCHANGED <<pinned, disabled, call>>
    BY <1>4 DEF Resolves
  <2>2. place' \in [Chains -> {"absent", "dormant", "awake"}]
    BY <1>1, <2>1, PlaceUpdate DEF Touched, RegistryInv, RegistryType
  <2>4. \A b \in Chains : Known(b)' = Known(b)
    BY <1>1, <1>4, <2>1 DEF Touched, Asleep, Known, RegistryInv, RegistryType
  <2>3. RegistryInv'
    BY <1>1, <1>2, <2>1, <2>2, <2>4 DEF RegistryInv, NoFlag, RegistryType, pins
  <2>5. Follows
    BY <1>2, <2>1, <2>4 DEF Follows, Agrees, PinsChange, PinnedBy, pins
  <2>. QED
    BY <1>2, <2>1, <2>3, <2>5, ResumesKeeps
<1>. QED
  BY <1>3, <1>4

LEMMA EnterKeeps ==
  ASSUME EnableInv, NEW t \in Callers, Enter(t)
  PROVE  EnableInv' /\ Follows
<1>. DEFINE c == call[t].chain
<1>1. RegistryInv /\ call[t] \in Calls /\ c \in Chains
  BY DEF EnableInv, RegistryInv, RegistryType, Calls
<1>2. UNCHANGED <<store, pins, rounds, cursor, sync, healthy, spent, wish, overtaken>>
  BY DEF Enter
<1>3. CASE Asleep(c)
  <2>1. /\ call' = [call EXCEPT ![t].pc = "inside"]
        /\ place' = [place EXCEPT ![c] = "absent"]
        /\ pinned' = [pinned EXCEPT ![c] = FALSE]
        /\ disabled' = [disabled EXCEPT ![c] = FALSE]
        /\ UNCHANGED <<op, scan>>
    BY <1>3 DEF Enter
  <2>. HIDE DEF c
  <2>2. [call[t] EXCEPT !.pc = "inside"] \in Calls
    BY <1>1 DEF Calls
  <2>3. call' \in [Callers -> Calls]
    BY <1>1, <2>1, <2>2, CallUpdate
  <2>4. place' \in [Chains -> {"absent", "dormant", "awake"}]
    BY <1>1, <2>1, PlaceUpdate
  <2>5. RegistryInv'
    BY <1>1, <1>2, <2>1, <2>3, <2>4, BooleanUpdate DEF RegistryInv, NoFlag, Known, RegistryType, pins
  <2>6. Follows
    BY <1>1, <1>2, <2>1
       DEF Follows, Agrees, PinsChange, PinnedBy, Known, pins, RegistryInv, RegistryType
  <2>. QED
    BY <1>2, <2>1, <2>5, <2>6, ResumesKeeps
<1>4. CASE ~Asleep(c)
  <2>1. /\ call' = [call EXCEPT ![t] = NoCall]
        /\ place' = [place EXCEPT ![c] = "awake"]
        /\ Resumes(t)
        /\ UNCHANGED <<pinned, disabled>>
    BY <1>4 DEF Enter
  <2>. HIDE DEF c
  <2>2. call' \in [Callers -> Calls]
    BY <1>1, <2>1, AtRest, CallUpdate
  <2>3. place' \in [Chains -> {"absent", "dormant", "awake"}]
    BY <1>1, <2>1, PlaceUpdate
  <2>4. RegistryInv'
    BY <1>1, <1>2, <2>1, <2>2, <2>3 DEF RegistryInv, NoFlag, Known, RegistryType, pins
  <2>5. \A b \in Chains : Known(b)' = Known(b)
    BY <1>1, <1>4, <2>1 DEF Asleep, Known, RegistryInv, RegistryType
  <2>6. Follows
    BY <1>2, <2>1, <2>5 DEF Follows, Agrees, PinsChange, PinnedBy, pins
  <2>. QED
    BY <1>2, <2>1, <2>4, <2>6, ResumesKeeps
<1>. QED
  BY <1>3, <1>4

(* An activation is the one step that may leave a flag behind. *)
LEMMA InstallKeeps ==
  ASSUME EnableInv, NEW t \in Callers, Install(t)
  PROVE  /\ EnableInv'
         /\ \A b \in Chains : Agrees(b) \/ PinsChange(b) => Agrees(b)' \/ InstallsOld(b)
<1>. DEFINE c == call[t].chain
            flag == call[t].flag
<1>1. RegistryInv /\ call[t] \in Calls /\ c \in Chains /\ flag \in BOOLEAN
  BY DEF EnableInv, RegistryInv, RegistryType, Calls
<1>2. UNCHANGED <<store, pins, rounds, cursor, sync, healthy, spent, wish, overtaken>>
  BY DEF Install
<1>3. /\ place' = [place EXCEPT ![c] = "awake"]
      /\ pinned' = [pinned EXCEPT ![c] = flag]
      /\ disabled' = [disabled EXCEPT ![c] = overrides[c].disabled = "yes"]
      /\ call' = [call EXCEPT ![t] = NoCall]
      /\ Resumes(t)
  BY DEF Install
<1>4. flag # PinnedBy(runtimePin, autoPin, c) => InstallsOld(c)
  BY DEF InstallsOld
<1>. HIDE DEF c, flag
<1>5. call' \in [Callers -> Calls]
  BY <1>1, <1>3, AtRest, CallUpdate
<1>6. place' \in [Chains -> {"absent", "dormant", "awake"}]
  BY <1>1, <1>3, PlaceUpdate
<1>7. pinned' \in [Chains -> BOOLEAN]
  BY <1>1, <1>3, BooleanUpdate DEF RegistryInv, NoFlag, Known, RegistryType
<1>8. disabled' \in [Chains -> BOOLEAN]
  <2>1. (overrides[c].disabled = "yes") \in BOOLEAN /\ disabled \in [Chains -> BOOLEAN]
    BY <1>1 DEF RegistryInv, NoFlag, Known, RegistryType
  <2>. QED
    BY ONLY <1>1, <1>3, <2>1, BooleanUpdate
<1>9. RegistryInv'
  <2>1. RegistryType'
    BY <1>1, <1>2, <1>5, <1>6, <1>7, <1>8 DEF RegistryInv, RegistryType, pins
  <2>2. NoFlag'
    BY <1>1, <1>3 DEF RegistryInv, RegistryType, NoFlag, Known
  <2>. QED
    BY <2>1, <2>2 DEF RegistryInv
<1>10. ASSUME NEW b \in Chains, Agrees(b) \/ PinsChange(b)
       PROVE  Agrees(b)' \/ InstallsOld(b)
  <2>1. runtimePin' = runtimePin /\ autoPin' = autoPin
    BY <1>2 DEF pins
  <2>2. Agrees(b)
    BY <1>10, <2>1 DEF PinsChange
  <2>3. CASE b = c
    BY <1>1, <1>3, <1>4, <2>1, <2>3
       DEF Agrees, Known, PinnedBy, RegistryInv, RegistryType
  <2>4. CASE b # c
    BY <1>1, <1>3, <2>1, <2>2, <2>4
       DEF Agrees, Known, PinnedBy, RegistryInv, RegistryType
  <2>. QED
    BY <2>3, <2>4
<1>. QED
  BY <1>2, <1>3, <1>9, <1>10, ResumesKeeps

LEMMA GiveUpKeeps ==
  ASSUME EnableInv, NEW o \in Operators, GiveUp(o)
  PROVE  EnableInv' /\ Follows
<1>1. /\ RegistryInv /\ o \in Callers
      /\ call' = [call EXCEPT ![o] = NoCall]
      /\ UNCHANGED <<store, pins, flags, op, scanner, sync, healthy, spent, wish,
                     overtaken>>
  BY DEF EnableInv, GiveUp, Callers
<1>2. call' \in [Callers -> Calls]
  BY <1>1, AtRest, CallUpdate
<1>3. RegistryInv'
  BY <1>1, <1>2 DEF RegistryInv, NoFlag, Known, RegistryType, pins, flags
<1>4. Follows
  BY <1>1 DEF Follows, Agrees, PinsChange, PinnedBy, Known, pins, flags
<1>. QED
  BY <1>1, <1>3, <1>4, ResumesKeeps DEF scanner

LEMMA RequestKeeps ==
  ASSUME EnableInv, NEW o \in Operators, NEW c \in Chains, Request(o, c)
  PROVE  EnableInv' /\ Follows
BY ResolvesKeeps DEF Request, Callers

LEMMA DemoteKeeps ==
  ASSUME EnableInv, NEW c \in Chains, Demote(c) PROVE EnableInv' /\ Follows
<1>1. RegistryInv'
  BY DEF EnableInv, Demote, RegistryInv, NoFlag, Known, RegistryType, pins
<1>2. Follows
  BY DEF EnableInv, Demote, RegistryInv, RegistryType, Follows, Agrees, PinsChange,
         Known, PinnedBy, pins
<1>3. StoreType' /\ OpType' /\ ScanType' /\ SyncType'
  BY DEF EnableInv, Demote, StoreType, OpType, ScanType, SyncType, store, scanner
<1>4. StoredInv'
  BY StoredSame DEF EnableInv, Demote, Kept, store, scanner, pins
<1>. QED
  BY <1>1, <1>2, <1>3, <1>4 DEF EnableInv

LEMMA ChangeKeeps ==
  ASSUME EnableInv, NEW c \in Chains, Change(c) PROVE EnableInv'
<1>1. RegistryInv'
  BY RegistrySame DEF EnableInv, Change
<1>2. StoreType'
  BY AutoEnableAssumption DEF EnableInv, Change, StoreType, store
<1>3. OpType' /\ ScanType' /\ SyncType'
  BY DEF EnableInv, Change, OpType, ScanType, SyncType, scanner
<1>4. StoredInv'
  BY StoredSame DEF EnableInv, Change, Kept, store, registry, pins, scanner
<1>. QED
  BY <1>1, <1>2, <1>3, <1>4 DEF EnableInv

LEMMA StoreGoesKeeps ==
  ASSUME EnableInv, StoreGoes PROVE EnableInv'
<1>1. RegistryInv'
  BY RegistrySame DEF EnableInv, StoreGoes
<1>2. StoreType'
  <2>1. spent' \in [commands : 0..MaxCommands, faults : 0..MaxFaults,
                   restarts : 0..MaxRestarts, changes : 0..MaxChanges]
    BY AutoEnableAssumption DEF EnableInv, StoreGoes, StoreType
  <2>. QED
    BY <2>1 DEF EnableInv, StoreGoes, StoreType
<1>3. OpType' /\ ScanType' /\ SyncType'
  BY DEF EnableInv, StoreGoes, OpType, ScanType, SyncType, scanner
<1>4. StoredInv'
  BY StoredSame DEF EnableInv, StoreGoes, Kept, registry, pins, scanner
<1>. QED
  BY <1>1, <1>2, <1>3, <1>4 DEF EnableInv

(* Memory is what the store has, and nothing is on its way. *)
LEMMA RestartKeeps ==
  ASSUME EnableInv, Restart PROVE EnableInv'
<1>1. disk \in Document
  BY DEF EnableInv, StoreType
<1>2. PICK hot \in SUBSET Chains : Boot(disk, hot)
  BY DEF Restart
<1>3. RegistryInv'
  BY <1>1, <1>2, AtRest, BootGives DEF Restart
<1>4. StoreType'
  BY AutoEnableAssumption DEF EnableInv, Restart, StoreType, store
<1>5. /\ op' = [o \in Operators |-> NoRequest] /\ scan' = NoScan /\ sync' = NoSync
      /\ rounds' = [c \in Chains |-> 0] /\ cursor' = 0
  BY DEF Restart
<1>6. OpType' /\ ScanType' /\ SyncType'
  BY <1>5, AtRest, AutoEnableAssumption DEF OpType, ScanType, SyncType
<1>7. AutoIsStored'
  BY <1>2 DEF AutoIsStored, Boot, Restart, store
<1>8. ScanStored' /\ SyncStored' /\ OpStored'
  BY <1>5, AtRest DEF ScanStored, SyncStored, OpStored
<1>. QED
  BY <1>3, <1>4, <1>6, <1>7, <1>8 DEF EnableInv, StoredInv

-----------------------------------------------------------------------------
(* The operators' steps. *)

LEMMA CommandKeeps ==
  ASSUME EnableInv, NEW o \in Operators, NEW c \in Chains, NEW command \in Commands,
         Command(o, c, command)
  PROVE  EnableInv'
<1>. DEFINE request == [NoRequest EXCEPT !.pc = "persist", !.chain = c,
                          !.command = command,
                          !.value = Changed(overrides[c], command)]
<1>1. Changed(overrides[c], command) \in Override
  BY ChangedType DEF EnableInv, RegistryInv, RegistryType
<1>2. request \in Requests /\ request.pc = "persist"
  BY <1>1, AtRest DEF Requests
<1>3. op' = [op EXCEPT ![o] = request]
  BY DEF Command
<1>. HIDE DEF request
<1>4. /\ OpType' /\ op'[o].pc = "persist"
      /\ \A x \in Operators \ {o} : op'[x] = op[x]
  BY <1>2, <1>3, OpUpdate DEF EnableInv
<1>5. RegistryInv'
  BY RegistrySame DEF EnableInv, Command
<1>6. StoreType'
  BY CommandSpent DEF EnableInv, Command
<1>7. ScanType' /\ SyncType'
  BY DEF EnableInv, Command, ScanType, SyncType, scanner
<1>8. StoredInv'
  BY <1>4, StoredSame DEF EnableInv, Command, Kept, store, registry, pins, scanner
<1>. QED
  BY <1>4, <1>5, <1>6, <1>7, <1>8 DEF EnableInv

LEMMA ReplaceKeeps ==
  ASSUME EnableInv, NEW o \in Operators, NEW document \in Documents,
         Replace(o, document)
  PROVE  EnableInv'
<1>. DEFINE request == [NoRequest EXCEPT !.pc = "replace", !.document = document]
<1>1. request \in Requests /\ request.pc = "replace"
  BY AtRest DEF Requests
<1>2. op' = [op EXCEPT ![o] = request]
  BY DEF Replace
<1>. HIDE DEF request
<1>3. /\ OpType' /\ op'[o].pc = "replace"
      /\ \A x \in Operators \ {o} : op'[x] = op[x]
  BY <1>1, <1>2, OpUpdate DEF EnableInv
<1>4. RegistryInv'
  BY RegistrySame DEF EnableInv, Replace
<1>5. StoreType'
  BY CommandSpent DEF EnableInv, Replace
<1>6. ScanType' /\ SyncType'
  BY DEF EnableInv, Replace, ScanType, SyncType, scanner
<1>7. StoredInv'
  BY <1>3, StoredSame DEF EnableInv, Replace, Kept, store, registry, pins, scanner
<1>. QED
  BY <1>3, <1>4, <1>5, <1>6, <1>7 DEF EnableInv

LEMMA PersistKeeps ==
  ASSUME EnableInv, NEW o \in Operators, Persist(o) PROVE EnableInv'
<1>. DEFINE c == op[o].chain
            command == op[o].command
            document == WithOverride(c, op[o].value)
<1>1. /\ c \in Chains /\ command \in Commands \cup {"none"}
      /\ op[o].value \in Override
  BY RequestFields DEF EnableInv, OpType
<1>2. document \in Document /\ document.auto = disk.auto
  BY <1>1 DEF EnableInv, StoreType, WithOverride, Document
<1>3. Writes(document) \/ Refuses \/ Errs(document)
  BY DEF Persist
<1>4. wish' = wish \/ wish' = [wish EXCEPT ![c] = Changed(wish[c], command)]
  BY DEF Persist, Wished
<1>5. OpGoes(o, "apply") \/ OpEnds(o)
  BY DEF Persist
<1>6. UNCHANGED <<registry, scanner, sync, healthy, overtaken>>
  BY DEF Persist
<1>7. wish \in [Chains -> Override]
  BY DEF EnableInv, StoreType
<1>. HIDE DEF c, command, document
<1>8. wish' \in [Chains -> Override]
  <2>1. wish[c] \in Override
    BY <1>1, <1>7
  <2>2. Changed(wish[c], command) \in Override
    BY <1>1, <2>1, ChangedType
  <2>. QED
    BY <1>1, <1>4, <1>7, <2>2
<1>9. /\ OpType' /\ op'[o].pc \in {"apply", "idle"}
      /\ \A x \in Operators \ {o} : op'[x] = op[x]
  <2>1. CASE OpGoes(o, "apply")
    BY <2>1, OpStep DEF EnableInv
  <2>2. CASE OpEnds(o)
    BY <2>2, OpEnd DEF EnableInv
  <2>. QED
    BY <1>5, <2>1, <2>2
<1>10. StoreType' /\ disk'.auto = disk.auto
  BY <1>2, <1>3, <1>6, <1>8, StoreAnswers DEF EnableInv, StoreType
<1>11. RegistryInv'
  BY <1>6, RegistrySame DEF EnableInv
<1>12. ScanType' /\ SyncType'
  BY <1>6 DEF EnableInv, ScanType, SyncType, scanner
<1>13. StoredInv'
  BY <1>6, <1>9, <1>10, StoredSame DEF EnableInv, Kept, registry, pins, scanner
<1>. QED
  BY <1>9, <1>10, <1>11, <1>12, <1>13 DEF EnableInv

LEMMA ApplyKeeps ==
  ASSUME EnableInv, NEW o \in Operators, Apply(o) PROVE EnableInv'
<1>. DEFINE c == op[o].chain
            command == op[o].command
            value == op[o].value
<1>1. /\ c \in Chains /\ value \in Override
      /\ ChoiceOf(command) \in {"yes", "no"}
  BY RequestFields DEF EnableInv, OpType, ChoiceOf
<1>2. /\ \/ SetPinned(c, ChoiceOf(command)) /\ Known(c)
         \/ SetDisabled(c, ChoiceOf(command))
         \/ ApplyOverride(c, value)
      /\ OpGoes(o, "answer") \/ OpEnds(o)
  BY DEF Apply, Pins
<1>3. UNCHANGED <<store, scanner, sync, healthy, spent, wish, overtaken>>
  BY DEF Apply
<1>. HIDE DEF c, command, value
<1>4. RegistryInv'
  BY <1>1, <1>2, SetPinnedKeeps, SetDisabledKeeps, ApplyOverrideKeeps DEF EnableInv
<1>5. autoPin' = autoPin
  BY <1>2 DEF SetPinned, SetDisabled, ApplyOverride, pins
<1>6. /\ OpType' /\ op'[o].pc \in {"answer", "idle"}
      /\ \A x \in Operators \ {o} : op'[x] = op[x]
  <2>1. CASE OpGoes(o, "answer")
    BY <2>1, OpStep DEF EnableInv
  <2>2. CASE OpEnds(o)
    BY <2>2, OpEnd DEF EnableInv
  <2>. QED
    BY <1>2, <2>1, <2>2
<1>7. StoreType' /\ ScanType' /\ SyncType'
  BY <1>3 DEF EnableInv, StoreType, ScanType, SyncType, store, scanner
<1>8. StoredInv'
  BY <1>3, <1>5, <1>6, StoredSame DEF EnableInv, Kept, store, scanner
<1>. QED
  BY <1>4, <1>6, <1>7, <1>8 DEF EnableInv

LEMMA AnswerKeeps ==
  ASSUME EnableInv, NEW o \in Operators, Fetch(o) \/ Answer(o)
  PROVE  EnableInv' /\ Follows
<1>1. op[o].chain \in Chains /\ o \in Callers
  BY RequestFields DEF EnableInv, OpType, Callers
<1>. QED
  BY <1>1, ResolvesKeeps DEF Fetch, Answer

(* Where the document of an import or reset replaces the store's, what it  *)
(* leaves out and memory has, or will have, is overtaken.                  *)
LEMMA OvertakenKept ==
  ASSUME StoredInv, NEW document \in Document, Overtakes(document), disk' = document
  PROVE  autoPin \cup Coming \subseteq Kept'
BY DEF Overtakes, Kept

LEMMA ReplaceStoredKeeps ==
  ASSUME EnableInv, NEW o \in Operators, ReplaceStored(o) PROVE EnableInv'
<1>. DEFINE document == op[o].document
<1>1. document \in Document
  BY RequestFields DEF EnableInv, OpType
<1>2. UNCHANGED <<registry, scanner, sync, healthy>>
  BY DEF ReplaceStored
<1>3. Writes(document) \/ Refuses \/ Errs(document)
  BY DEF ReplaceStored
<1>4. /\ wish' \in {wish, disk'.overrides}
      /\ \/ disk' = disk /\ overtaken' = overtaken
         \/ disk' = document /\ Overtakes(document)
      /\ OpEnds(o) \/ (OpGoes(o, "overrides") /\ disk' = document)
  BY DEF ReplaceStored, Writes, Refuses, Errs
<1>. HIDE DEF document
<1>5. /\ disk' \in Document
      /\ storeUp' \in BOOLEAN
      /\ spent' \in [commands : 0..MaxCommands, faults : 0..MaxFaults,
                     restarts : 0..MaxRestarts, changes : 0..MaxChanges]
  BY <1>1, <1>3, StoreAnswers DEF EnableInv
<1>6. wish' \in [Chains -> Override]
  BY <1>4, <1>5, DocumentFields DEF EnableInv, StoreType
<1>7. Coming \subseteq Chains
  BY RequestFields, DocumentFields
     DEF EnableInv, Coming, OpType, ScanType, Scans, SyncType
<1>8. overtaken' \subseteq Chains
  BY <1>4, <1>7 DEF EnableInv, StoreType, RegistryInv, RegistryType, Overtakes
<1>9. StoreType'
  BY <1>2, <1>5, <1>6, <1>8 DEF EnableInv, StoreType
<1>10. RegistryInv'
  BY <1>2, RegistrySame DEF EnableInv
<1>11. ScanType' /\ SyncType'
  BY <1>2 DEF EnableInv, ScanType, SyncType, scanner
<1>12. /\ OpType' /\ op'[o].pc \in {"overrides", "idle"}
       /\ op'[o].pc = "overrides" =>
            op'[o].document = document /\ disk' = document
       /\ \A x \in Operators \ {o} : op'[x] = op[x]
  <2>1. CASE OpGoes(o, "overrides") /\ disk' = document
    BY <2>1, OpStep DEF EnableInv, document
  <2>2. CASE OpEnds(o)
    BY <2>2, OpEnd DEF EnableInv
  <2>. QED
    BY <1>4, <2>1, <2>2
<1>13. autoPin \cup Coming \subseteq Kept'
  <2>1. CASE disk' = disk /\ overtaken' = overtaken
    <3>1. autoPin \subseteq Kept /\ Coming \subseteq Kept
      BY ComingKept DEF EnableInv, StoredInv, AutoIsStored, Kept
    <3>. QED
      BY <2>1, <3>1 DEF Kept
  <2>2. CASE disk' = document /\ Overtakes(document)
    BY <1>1, <2>2, OvertakenKept DEF EnableInv
  <2>. QED
    BY <1>4, <2>1, <2>2
<1>14. AutoIsStored'
  BY <1>2, <1>13 DEF AutoIsStored, Kept, registry, pins
<1>15. ScanStored' /\ SyncStored'
  BY <1>2, <1>13 DEF ScanStored, SyncStored, Coming, scanner
<1>16. OpStored'
  <2>. SUFFICES ASSUME NEW x \in Operators, op'[x].pc \in {"overrides", "auto"}
                PROVE  op'[x].document.auto \subseteq Kept'
    BY DEF OpStored
  <2>1. CASE x = o
    BY <1>12, <2>1 DEF Kept
  <2>2. CASE x # o
    BY <1>12, <1>13, <2>2 DEF Coming
  <2>. QED
    BY <2>1, <2>2
<1>. QED
  BY <1>9, <1>10, <1>11, <1>12, <1>14, <1>15, <1>16 DEF EnableInv, StoredInv

LEMMA ReplaceOverridesKeeps ==
  ASSUME EnableInv, NEW o \in Operators, ReplaceOverrides(o) PROVE EnableInv'
<1>1. op[o].document.overrides \in [Chains -> Override]
  BY RequestFields, DocumentFields DEF EnableInv, OpType
<1>2. RegistryInv' /\ autoPin' = autoPin
  BY <1>1, ApplyOverridesKeeps DEF EnableInv, ReplaceOverrides, ApplyOverrides
<1>3. /\ OpType' /\ op'[o].pc = "auto" /\ op'[o].document = op[o].document
      /\ op[o].pc = "overrides"
      /\ \A x \in Operators \ {o} : op'[x] = op[x]
  BY OpStep DEF EnableInv, ReplaceOverrides, AtOp
<1>4. StoreType' /\ ScanType' /\ SyncType'
  BY DEF EnableInv, ReplaceOverrides, StoreType, ScanType, SyncType, store, scanner
<1>5. StoredInv'
  <2>1. UNCHANGED <<store, scanner, sync, overtaken>>
    BY DEF ReplaceOverrides
  <2>. QED
    BY <1>2, <1>3, <2>1, StoredSame DEF EnableInv, Kept, store, scanner
<1>. QED
  BY <1>2, <1>3, <1>4, <1>5 DEF EnableInv

(* After the set of a document is applied, memory has nothing but chains   *)
(* of that document, so what is no longer on its way is forgotten.         *)
LEMMA ReplaceAutoKeeps ==
  ASSUME EnableInv, NEW o \in Operators, ReplaceAuto(o) PROVE EnableInv'
<1>1. op[o].document.auto \subseteq Chains /\ op[o].pc = "auto"
  BY RequestFields, DocumentFields DEF EnableInv, OpType, ReplaceAuto, AtOp
<1>2. RegistryInv' /\ autoPin' \subseteq op[o].document.auto
  BY <1>1, SyncAutoPinnedKeeps DEF EnableInv, ReplaceAuto, SyncAutoPinned
<1>3. /\ OpType' /\ op'[o].pc = "idle"
      /\ \A x \in Operators \ {o} : op'[x] = op[x]
  BY OpEnd DEF EnableInv, ReplaceAuto
<1>4. StoreType' /\ ScanType' /\ SyncType'
  BY DEF EnableInv, ReplaceAuto, StoreType, ScanType, SyncType, store, scanner
<1>5. op[o].document.auto \subseteq Coming
  BY <1>1 DEF Coming
<1>6. Coming \subseteq Kept'
  <2>1. Coming \subseteq Kept
    BY ComingKept DEF EnableInv, StoredInv
  <2>2. disk' = disk /\ overtaken' = overtaken \cap Coming
    BY DEF ReplaceAuto, store
  <2>. QED
    BY <2>1, <2>2 DEF Kept
<1>7. AutoIsStored'
  BY <1>2, <1>5, <1>6 DEF AutoIsStored, Kept
<1>8. ScanStored' /\ SyncStored'
  BY <1>6 DEF ScanStored, SyncStored, Coming, ReplaceAuto, scanner
<1>9. OpStored'
  BY <1>3, <1>6 DEF OpStored, Coming
<1>. QED
  BY <1>2, <1>3, <1>4, <1>7, <1>8, <1>9 DEF EnableInv, StoredInv

-----------------------------------------------------------------------------
(* The steps of the reconnect. *)

LEMMA ReconnectKeeps ==
  ASSUME EnableInv, Reconnect \/ LoadOverrides \/ SyncFails PROVE EnableInv'
<1>1. UNCHANGED <<disk, registry, op, scanner, healthy, spent, wish, overtaken>>
  BY DEF Reconnect, LoadOverrides, SyncFails, store
<1>2. StoreType'
  BY <1>1 DEF EnableInv, StoreType, Reconnect, LoadOverrides, SyncFails, store
<1>3. SyncType' /\ sync'.pc # "sync"
  <2>1. CASE Reconnect
    BY <2>1 DEF EnableInv, SyncType, Reconnect, SyncGoes
  <2>2. CASE LoadOverrides
    BY <2>2, DocumentFields DEF EnableInv, SyncType, StoreType, LoadOverrides
  <2>3. CASE SyncFails
    BY <2>3, AtRest DEF SyncType, SyncFails
  <2>. QED
    BY <2>1, <2>2, <2>3
<1>4. RegistryInv'
  BY <1>1, RegistrySame DEF EnableInv
<1>5. OpType' /\ ScanType'
  BY <1>1 DEF EnableInv, OpType, ScanType, scanner
<1>6. StoredInv'
  BY <1>1, <1>3, StoredSame DEF EnableInv, Kept, registry, pins, scanner
<1>. QED
  BY <1>2, <1>3, <1>4, <1>5, <1>6 DEF EnableInv

LEMMA ReapplyOverridesKeeps ==
  ASSUME EnableInv, ReapplyOverrides PROVE EnableInv'
<1>1. RegistryInv' /\ autoPin' = autoPin
  BY ApplyOverridesKeeps DEF EnableInv, SyncType, ReapplyOverrides, ApplyOverrides
<1>2. SyncType' /\ sync'.pc # "sync"
  BY EmptyDocumentType DEF EnableInv, SyncType, ReapplyOverrides
<1>3. UNCHANGED <<store, op, scanner, healthy, spent, wish, overtaken>>
  BY DEF ReapplyOverrides
<1>4. StoreType' /\ OpType' /\ ScanType'
  BY <1>3 DEF EnableInv, StoreType, OpType, ScanType, store, scanner
<1>5. StoredInv'
  BY <1>1, <1>2, <1>3, StoredSame DEF EnableInv, Kept, store, scanner
<1>. QED
  BY <1>1, <1>2, <1>4, <1>5 DEF EnableInv

LEMMA LoadAutoKeeps ==
  ASSUME EnableInv, LoadAuto PROVE EnableInv'
<1>1. UNCHANGED <<store, registry, op, scanner, healthy, spent, wish, overtaken>>
  BY DEF LoadAuto
<1>2. SyncType' /\ sync'.auto = disk.auto
  BY DocumentFields DEF EnableInv, SyncType, StoreType, LoadAuto
<1>3. RegistryInv'
  BY <1>1, RegistrySame DEF EnableInv
<1>4. StoreType' /\ OpType' /\ ScanType'
  BY <1>1 DEF EnableInv, StoreType, OpType, ScanType, store, scanner
<1>5. StoredInv'
  BY <1>1, <1>2
     DEF EnableInv, StoredInv, AutoIsStored, ScanStored, SyncStored, OpStored, Kept,
         store, registry, pins, scanner
<1>. QED
  BY <1>2, <1>3, <1>4, <1>5 DEF EnableInv

LEMMA SyncAutoKeeps ==
  ASSUME EnableInv, SyncAuto PROVE EnableInv'
<1>1. UNCHANGED <<store, op, scanner, healthy, spent, wish, overtaken>>
  BY DEF SyncAuto
<1>2. sync.auto \subseteq Chains /\ sync.auto \subseteq Kept
  BY DEF EnableInv, SyncType, StoredInv, SyncStored, SyncAuto
<1>3. RegistryInv' /\ autoPin' \subseteq sync.auto
  BY <1>2, SyncAutoPinnedKeeps DEF EnableInv, SyncAuto, SyncAutoPinned
<1>4. SyncType' /\ sync'.pc = "idle"
  BY AtRest DEF SyncType, SyncAuto
<1>5. StoreType' /\ OpType' /\ ScanType'
  BY <1>1 DEF EnableInv, StoreType, OpType, ScanType, store, scanner
<1>6. StoredInv'
  BY <1>1, <1>2, <1>3, <1>4
     DEF EnableInv, StoredInv, AutoIsStored, ScanStored, SyncStored, OpStored, Kept,
         store, scanner
<1>. QED
  BY <1>3, <1>4, <1>5, <1>6 DEF EnableInv

-----------------------------------------------------------------------------
(* The steps of the scanner. *)

LEMMA CandidatesFinite ==
  /\ IsFiniteSet(Candidates)
  /\ Cardinality(Candidates) \in Nat
  /\ Candidates # {} => Cardinality(Candidates) \in Nat \ {0}
<1>1. Candidates \subseteq Chains
  BY DEF Candidates
<1>2. IsFiniteSet(Candidates)
  BY <1>1, AutoEnableAssumption, FS_Subset
<1>. QED
  BY <1>2, FS_CardinalityType, FS_EmptySet

LEMMA CountedType ==
  ASSUME ScanType, NEW c \in Chains
  PROVE  Counted(c) \in 0..PromoteAfter
BY AutoEnableAssumption DEF ScanType, Counted, Lesser

(* A step of the scanner that is about to pin nothing new, and pins none. *)
LEMMA ScannerKeeps ==
  ASSUME EnableInv, ScanType', scan'.pc # "pin",
         UNCHANGED <<store, registry, op, sync, healthy, spent, wish, overtaken>>
  PROVE  EnableInv'
<1>1. RegistryInv'
  BY RegistrySame DEF EnableInv
<1>2. StoreType' /\ OpType' /\ SyncType'
  BY DEF EnableInv, StoreType, OpType, SyncType, store
<1>3. StoredInv'
  BY StoredSame DEF EnableInv, Kept, store, registry, pins
<1>. QED
  BY <1>1, <1>2, <1>3 DEF EnableInv

LEMMA ScanKeeps ==
  ASSUME EnableInv, Scan PROVE EnableInv'
<1>1. rounds' \in [Chains -> 0..PromoteAfter]
  BY AutoEnableAssumption DEF EnableInv, ScanType, Scan
<1>2. cursor' \in Nat
  <2>1. CASE Candidates = {}
    BY <2>1 DEF Scan
  <2>2. CASE Candidates # {}
    <3>. DEFINE total == Cardinality(Candidates)
    <3>1. cursor' = ((cursor % total) + Lesser(ProbeBatch, total)) % total
      BY <2>2 DEF Scan
    <3>2. total \in Nat \ {0}
      BY <2>2, CandidatesFinite
    <3>3. cursor \in Nat /\ ProbeBatch \in Nat
      BY AutoEnableAssumption DEF EnableInv, ScanType
    <3>. HIDE DEF total
    <3>4. Lesser(ProbeBatch, total) \in Nat
      BY <3>2, <3>3 DEF Lesser
    <3>5. cursor % total \in Nat
      BY <3>2, <3>3
    <3>. QED
      BY <3>1, <3>2, <3>4, <3>5
  <2>. QED
    BY <2>1, <2>2
<1>3. scan' \in Scans /\ scan'.pc # "pin"
  <2>1. Batch \in SUBSET Chains
    BY DEF Batch, Candidates
  <2>2. storeUp \in BOOLEAN /\ scan \in Scans
    BY DEF EnableInv, StoreType, ScanType
  <2>3. scan.pc = "idle"
    BY DEF Scan
  <2>4. CASE Candidates = {}
    BY <2>2, <2>3, <2>4 DEF Scan
  <2>5. CASE Candidates # {}
    <3>1. scan' = [NoScan EXCEPT !.pc = "judge", !.todo = Batch, !.writable = storeUp]
      BY <2>5 DEF Scan
    <3>. QED
      BY <2>1, <2>2, <3>1, AtRest DEF Scans
  <2>. QED
    BY <2>4, <2>5
<1>4. ScanType'
  BY <1>1, <1>2, <1>3 DEF ScanType
<1>. QED
  BY <1>3, <1>4, ScannerKeeps DEF Scan

LEMMA JudgeKeeps ==
  ASSUME EnableInv, NEW c \in Chains, Judge(c) PROVE EnableInv'
<1>1. scan \in Scans /\ scan.pc = "judge" /\ cursor \in Nat
  BY DEF EnableInv, ScanType, Judge
<1>. DEFINE left == scan.todo \ {c}
<1>2. left \in SUBSET Chains
  BY <1>1 DEF Scans
<1>3. \/ scan' = [scan EXCEPT !.pc = "put", !.todo = left, !.chain = c]
      \/ scan' = NoScan
      \/ scan' = [scan EXCEPT !.todo = left]
  BY DEF Judge
<1>. HIDE DEF left
<1>4. scan' \in Scans /\ scan'.pc # "pin"
  BY <1>1, <1>2, <1>3, AtRest DEF Scans
<1>5. rounds' \in [Chains -> 0..PromoteAfter]
  BY CountedType DEF EnableInv, ScanType, Judge
<1>6. ScanType'
  BY <1>1, <1>4, <1>5 DEF ScanType, Judge
<1>. QED
  BY <1>4, <1>6, ScannerKeeps DEF Judge

(* Only a write that was done is followed by the pin. *)
LEMMA PutAutoKeeps ==
  ASSUME EnableInv, PutAuto PROVE EnableInv'
<1>. DEFINE c == scan.chain
            document == WithAuto(c)
<1>1. c \in Chains /\ scan \in Scans
  BY DEF EnableInv, ScanType, Scans
<1>2. /\ document \in Document
      /\ document.auto = disk.auto \cup {c}
  <2>1. disk.auto \cup {c} \in SUBSET Chains
    BY <1>1 DEF EnableInv, StoreType, Document
  <2>. QED
    BY <2>1 DEF EnableInv, StoreType, WithAuto, Document
<1>3. /\ Writes(document) \/ Refuses \/ Errs(document)
      /\ \/ /\ disk' = document
            /\ scan' = [scan EXCEPT !.pc = "pin"]
            /\ overtaken' = overtaken \ {c}
         \/ scan' = Onward /\ overtaken' = overtaken
  BY DEF PutAuto, Writes
<1>4. UNCHANGED <<registry, op, rounds, cursor, sync, healthy, wish>>
  BY DEF PutAuto
<1>. HIDE DEF c, document
<1>5. /\ disk' \in Document /\ disk' \in {disk, document}
      /\ storeUp' \in BOOLEAN
      /\ spent' \in [commands : 0..MaxCommands, faults : 0..MaxFaults,
                     restarts : 0..MaxRestarts, changes : 0..MaxChanges]
  BY <1>2, <1>3, StoreAnswers DEF EnableInv
<1>6. StoreType'
  BY <1>3, <1>4, <1>5 DEF EnableInv, StoreType
<1>7. RegistryInv'
  BY <1>4, RegistrySame DEF EnableInv
<1>8. OpType' /\ SyncType'
  BY <1>4 DEF EnableInv, OpType, SyncType
<1>9. /\ scan' \in Scans
      /\ scan'.pc = "pin" => scan'.chain = c /\ disk' = document
  <2>1. CASE disk' = document /\ scan' = [scan EXCEPT !.pc = "pin"]
    BY <1>1, <2>1 DEF Scans, c
  <2>2. CASE scan' = Onward
    BY <2>2, OnwardType DEF EnableInv
  <2>. QED
    BY <1>3, <2>1, <2>2
<1>10. ScanType'
  BY <1>4, <1>9 DEF EnableInv, ScanType
<1>11. Kept \subseteq Kept'
  BY <1>2, <1>3, <1>5 DEF Kept
<1>12. ScanStored'
  BY <1>2, <1>9 DEF ScanStored, Kept
<1>13. AutoIsStored' /\ SyncStored' /\ OpStored'
  BY <1>4, <1>11
     DEF EnableInv, StoredInv, AutoIsStored, SyncStored, OpStored, Kept, registry, pins
<1>. QED
  BY <1>6, <1>7, <1>8, <1>10, <1>12, <1>13 DEF EnableInv, StoredInv

LEMMA PinAutoKeeps ==
  ASSUME EnableInv, PinAuto PROVE EnableInv'
<1>. DEFINE c == scan.chain
<1>1. c \in Chains /\ c \in Kept
  BY DEF EnableInv, ScanType, Scans, StoredInv, ScanStored, PinAuto
<1>2. UNCHANGED <<store, op, rounds, cursor, sync, healthy, spent, wish, overtaken>>
  BY DEF PinAuto
<1>3. \/ scan' = Onward /\ UNCHANGED registry
      \/ scan' = [scan EXCEPT !.pc = "kick"] /\ SetAutoPinned(c)
  BY DEF PinAuto
<1>. HIDE DEF c
<1>4. RegistryInv' /\ autoPin' \subseteq autoPin \cup {c}
  <2>1. CASE UNCHANGED registry
    BY <2>1, RegistrySame DEF EnableInv, registry, pins
  <2>2. CASE SetAutoPinned(c)
    BY <1>1, <2>2, SetAutoPinnedKeeps DEF EnableInv, SetAutoPinned
  <2>. QED
    BY <1>3, <2>1, <2>2
<1>5. scan' \in Scans /\ scan'.pc # "pin"
  <2>1. CASE scan' = Onward
    BY <2>1, OnwardType DEF EnableInv
  <2>2. CASE scan' = [scan EXCEPT !.pc = "kick"]
    BY <2>2 DEF EnableInv, ScanType, Scans
  <2>. QED
    BY <1>3, <2>1, <2>2
<1>6. ScanType'
  BY <1>2, <1>5 DEF EnableInv, ScanType
<1>7. StoreType' /\ OpType' /\ SyncType'
  BY <1>2 DEF EnableInv, StoreType, OpType, SyncType, store
<1>8. AutoIsStored'
  BY <1>1, <1>2, <1>4 DEF EnableInv, StoredInv, AutoIsStored, Kept, store
<1>9. ScanStored' /\ SyncStored' /\ OpStored'
  BY <1>2, <1>5
     DEF EnableInv, StoredInv, ScanStored, SyncStored, OpStored, Kept, store
<1>. QED
  BY <1>4, <1>6, <1>7, <1>8, <1>9 DEF EnableInv, StoredInv

LEMMA KickAutoKeeps ==
  ASSUME EnableInv, KickAuto PROVE EnableInv' /\ Follows
<1>1. scan.chain \in Chains /\ Scanner \in Callers
  BY DEF EnableInv, ScanType, Scans, Callers
<1>. QED
  BY <1>1, ResolvesKeeps DEF KickAuto

-----------------------------------------------------------------------------
(* The theorems. *)

LEMMA StutterKeeps ==
  ASSUME EnableInv, UNCHANGED vars PROVE EnableInv'
<1>1. /\ UNCHANGED <<store, registry, op, sync, healthy, spent, wish, overtaken>>
      /\ UNCHANGED <<store, scanner, autoPin>>
  BY DEF vars, store, registry, pins, flags, scanner
<1>2. RegistryInv'
  BY <1>1, RegistrySame DEF EnableInv
<1>3. StoreType' /\ OpType' /\ ScanType' /\ SyncType'
  BY <1>1 DEF EnableInv, StoreType, OpType, ScanType, SyncType, store, scanner
<1>4. StoredInv'
  BY <1>1, StoredSame DEF EnableInv, Kept, store, scanner
<1>. QED
  BY <1>2, <1>3, <1>4 DEF EnableInv

LEMMA StepKeeps == EnableInv /\ [Next]_vars => EnableInv'
<1>. SUFFICES ASSUME EnableInv, [Next]_vars PROVE EnableInv'
  OBVIOUS
<1>1. ASSUME NEW o \in Operators, OperatorStep(o) PROVE EnableInv'
  BY <1>1, PersistKeeps, ApplyKeeps, AnswerKeeps, ReplaceStoredKeeps,
     ReplaceOverridesKeeps, ReplaceAutoKeeps DEF OperatorStep
<1>2. ASSUME NEW o \in Operators, NEW c \in Chains, NEW command \in Commands,
             Command(o, c, command)
      PROVE  EnableInv'
  BY <1>2, CommandKeeps
<1>3. ASSUME NEW o \in Operators, NEW document \in Documents, Replace(o, document)
      PROVE  EnableInv'
  BY <1>3, ReplaceKeeps
<1>4. CASE SyncStep
  BY <1>4, ReconnectKeeps, ReapplyOverridesKeeps, LoadAutoKeeps, SyncAutoKeeps
     DEF SyncStep
<1>5. CASE ScannerStep
  BY <1>5, ScanKeeps, JudgeKeeps, PutAutoKeeps, PinAutoKeeps, KickAutoKeeps
     DEF ScannerStep, OwnStep
<1>6. ASSUME NEW c \in Chains, Demote(c) \/ Change(c) PROVE EnableInv'
  BY <1>6, DemoteKeeps, ChangeKeeps
<1>10. ASSUME NEW o \in Operators, NEW c \in Chains, Request(o, c) PROVE EnableInv'
  BY <1>10, RequestKeeps
<1>11. ASSUME NEW o \in Operators, GiveUp(o) PROVE EnableInv'
  BY <1>11, GiveUpKeeps
<1>12. ASSUME NEW t \in Callers, Enter(t) \/ Install(t) PROVE EnableInv'
  BY <1>12, EnterKeeps, InstallKeeps
<1>7. CASE StoreGoes
  BY <1>7, StoreGoesKeeps
<1>8. CASE Restart
  BY <1>8, RestartKeeps
<1>9. CASE UNCHANGED vars
  BY <1>9, StutterKeeps
<1>. QED
  BY <1>1, <1>2, <1>3, <1>4, <1>5, <1>6, <1>7, <1>8, <1>9, <1>10, <1>11, <1>12 DEF Next

LEMMA AlwaysEnable == Spec => []EnableInv
BY InitEnable, StepKeeps, PTL DEF Spec

(* Every variable has its type, through any interleaving of commands,      *)
(* rounds of the scanner, imports, reconnects and restarts.                *)
THEOREM EnableTypes == Spec => []TypeOK
<1>1. EnableInv => TypeOK
  BY InvTypes
<1>. QED
  BY <1>1, AlwaysEnable, PTL

(* The commands, the scanner and the reconnect: each through one call of   *)
(* the registry, or none.                                                  *)
LEMMA ApplyFollows ==
  ASSUME EnableInv, NEW o \in Operators, Apply(o) PROVE Follows
<1>. DEFINE c == op[o].chain
            command == op[o].command
            value == op[o].value
<1>1. /\ c \in Chains /\ value \in Override /\ RegistryInv
      /\ ChoiceOf(command) \in {"yes", "no"}
  BY RequestFields DEF EnableInv, OpType, ChoiceOf
<1>2. \/ SetPinned(c, ChoiceOf(command)) /\ Known(c)
      \/ SetDisabled(c, ChoiceOf(command))
      \/ ApplyOverride(c, value)
  BY DEF Apply, Pins
<1>. HIDE DEF c, command, value
<1>. QED
  BY <1>1, <1>2, SetPinnedKeeps, SetDisabledKeeps, ApplyOverrideKeeps

LEMMA OperatorFollows ==
  ASSUME EnableInv, NEW o \in Operators, OperatorStep(o) PROVE Follows
<1>1. RegistryInv /\ op[o].document \in Document
  BY RequestFields DEF EnableInv, OpType
<1>2. CASE Persist(o) \/ ReplaceStored(o)
  BY <1>1, <1>2, RegistrySame DEF Persist, ReplaceStored
<1>3. CASE Fetch(o) \/ Answer(o)
  BY <1>3, AnswerKeeps
<1>4. CASE Apply(o)
  BY <1>4, ApplyFollows
<1>5. CASE ReplaceOverrides(o)
  BY <1>1, <1>5, DocumentFields, ApplyOverridesKeeps DEF ReplaceOverrides
<1>6. CASE ReplaceAuto(o)
  BY <1>1, <1>6, DocumentFields, SyncAutoPinnedKeeps DEF ReplaceAuto
<1>. QED
  BY <1>2, <1>3, <1>4, <1>5, <1>6 DEF OperatorStep

LEMMA SyncFollows ==
  ASSUME EnableInv, SyncStep PROVE Follows
<1>1. /\ RegistryInv
      /\ sync.overrides \in [Chains -> Override] /\ sync.auto \subseteq Chains
  BY DEF EnableInv, SyncType
<1>2. CASE Reconnect \/ LoadOverrides \/ LoadAuto \/ SyncFails
  BY <1>1, <1>2, RegistrySame DEF Reconnect, LoadOverrides, LoadAuto, SyncFails
<1>3. CASE ReapplyOverrides
  BY <1>1, <1>3, ApplyOverridesKeeps DEF ReapplyOverrides
<1>4. CASE SyncAuto
  BY <1>1, <1>4, SyncAutoPinnedKeeps DEF SyncAuto
<1>. QED
  BY <1>2, <1>3, <1>4 DEF SyncStep

LEMMA ScannerFollows ==
  ASSUME EnableInv, ScannerStep PROVE Follows
<1>1. RegistryInv /\ scan.chain \in Chains
  BY DEF EnableInv, ScanType, Scans
<1>2. CASE Scan
  BY <1>1, <1>2, RegistrySame DEF Scan
<1>3. ASSUME NEW c \in Chains, Judge(c) PROVE Follows
  BY <1>1, <1>3, RegistrySame DEF Judge
<1>4. CASE PutAuto
  BY <1>1, <1>4, RegistrySame DEF PutAuto
<1>5. CASE PinAuto
  <2>1. UNCHANGED registry \/ SetAutoPinned(scan.chain)
    BY <1>5 DEF PinAuto
  <2>. QED
    BY <1>1, <2>1, RegistrySame, SetAutoPinnedKeeps
<1>6. CASE KickAuto
  BY <1>6, KickAutoKeeps
<1>. QED
  BY <1>2, <1>3, <1>4, <1>5, <1>6 DEF ScannerStep, OwnStep

LEMMA StepFollows ==
  ASSUME EnableInv, [Next]_vars, NEW c \in Chains, Agrees(c) \/ PinsChange(c)
  PROVE  Agrees(c)' \/ InstallsOld(c)
<1>1. SUFFICES Follows \/ \E t \in Callers : Install(t)
  BY InstallKeeps DEF Follows
<1>2. RegistryInv
  BY DEF EnableInv
<1>3. ASSUME NEW o \in Operators, OperatorStep(o) PROVE Follows
  BY <1>3, OperatorFollows
<1>4. ASSUME NEW o \in Operators, NEW b \in Chains, NEW command \in Commands,
             Command(o, b, command)
      PROVE  Follows
  BY <1>2, <1>4, RegistrySame DEF Command
<1>5. ASSUME NEW o \in Operators, NEW document \in Documents, Replace(o, document)
      PROVE  Follows
  BY <1>2, <1>5, RegistrySame DEF Replace
<1>6. CASE SyncStep
  BY <1>6, SyncFollows
<1>7. CASE ScannerStep
  BY <1>7, ScannerFollows
<1>8. ASSUME NEW b \in Chains, Demote(b) \/ Change(b) PROVE Follows
  BY <1>2, <1>8, DemoteKeeps, RegistrySame DEF Change
<1>9. ASSUME NEW o \in Operators, NEW b \in Chains, Request(o, b) PROVE Follows
  BY <1>9, RequestKeeps
<1>10. ASSUME NEW o \in Operators, GiveUp(o) PROVE Follows
  BY <1>10, GiveUpKeeps
<1>11. ASSUME NEW t \in Callers, Enter(t) PROVE Follows
  BY <1>11, EnterKeeps
<1>12. CASE StoreGoes
  BY <1>2, <1>12, RegistrySame DEF StoreGoes
<1>13. CASE Restart
  <2>1. PICK hot \in SUBSET Chains : Boot(disk, hot)
    BY <1>13 DEF Restart
  <2>2. call' \in [Callers -> Calls] /\ disk \in Document
    BY <1>13, AtRest DEF Restart, EnableInv, StoreType
  <2>. QED
    BY <2>1, <2>2, BootGives
<1>14. CASE UNCHANGED vars
  BY <1>2, <1>14, RegistrySame DEF vars, registry, pins, flags
<1>. QED
  BY <1>3, <1>4, <1>5, <1>6, <1>7, <1>8, <1>9, <1>10, <1>11, <1>12, <1>13, <1>14
     DEF Next

(* The copy of the pin in a chain's state follows the choices it is derived*)
(* from, whoever changes them; only an activation that had read them before*)
(* leaves it behind (registry.rs: several functions write one or the       *)
(* other).                                                                 *)
THEOREM PinFlagTheorem == Spec => PinFlagFollows
<1>1. EnableInv /\ [Next]_vars =>
        [\A c \in Chains :
           Agrees(c) \/ PinsChange(c) => Agrees(c)' \/ InstallsOld(c)]_vars
  BY StepFollows
<1>. QED
  BY <1>1, AlwaysEnable, PTL DEF Spec, PinFlagFollows

(* What memory has of auto-enabled chains the store has too, but for those *)
(* that an import or reset has left out (autoenable.rs, promote).          *)
THEOREM AutoStoredTheorem == Spec => []AutoIsStored
<1>1. EnableInv => AutoIsStored
  BY InvTypes
<1>. QED
  BY <1>1, AlwaysEnable, PTL

=============================================================================
