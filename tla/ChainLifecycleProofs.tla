------------------------ MODULE ChainLifecycleProofs ------------------------
(* Theorems about ChainLifecycle, for any number of tasks: the variables   *)
(* keep their types, the activation lock excludes although its entry in    *)
(* the map comes and goes, and nobody activates an active chain.           *)
EXTENDS ChainLifecycle, FiniteSetTheorems, TLAPS

-----------------------------------------------------------------------------
(* The inductive invariant. *)

(* No task holds a second that lies in the future.                         *)
StampsPast == \A t \in Tasks : task[t].stamp <= now

(* All who wait for the lock, hold it or are about to clean up meet at the *)
(* lock that is in the map: its entry outlives them.                       *)
WaitTogether ==
  \A t \in Tasks :
    task[t].pc \in Waiting => task[t].lock = lockMap /\ lockMap # NoLock

(* A task that installs a state found the chain asleep, and its own state  *)
(* stays the current one until it stored the second.                       *)
InstallsAsleep ==
  \A t \in Tasks :
    /\ task[t].pc \in {"replacing", "building", "built"} => ~activated
    /\ task[t].pc = "built" => task[t].stamp > 0
    /\ task[t].pc = "inserted" =>
         task[t].object = "current" /\ task[t].stamp > 0

(* An active chain is in the map and was asked for, or is about to be      *)
(* marked so by the task that activated it.                                *)
ActiveInMap ==
  activated =>
    /\ chain.installed
    /\ chain.last > 0 \/ \E t \in Tasks : task[t].pc = "inserted"

Inv ==
  /\ TypeOK
  /\ StampsPast
  /\ WaitTogether
  /\ OneInside
  /\ InstallsAsleep
  /\ ActiveInMap

-----------------------------------------------------------------------------
(* The helpers of the model. *)

(* There are more locks than tasks to hold them: one is free.              *)
LEMMA LockIsFree ==
  ASSUME TypeOK
  PROVE  FreeLock \in Locks
<1> DEFINE held == {task[u].lock : u \in Tasks}
<1>1. IsFiniteSet(Tasks)
  <2>1. /\ IsFiniteSet(Clients) /\ IsFiniteSet(Operators)
        /\ IsFiniteSet(Sweepers) /\ IsFiniteSet(Refreshers)
    BY LifecycleAssumption
  <2> QED BY <2>1, FS_Union DEF Tasks
<1>2. Cardinality(Tasks) \in Nat
  BY <1>1, FS_CardinalityType
<1>3. IsFiniteSet(held) /\ Cardinality(held) <= Cardinality(Tasks)
  <2> DEFINE lockOf == [u \in Tasks |-> task[u].lock]
  <2>1. lockOf \in Surjection(Tasks, held)
    BY DEF Surjection
  <2> HIDE DEF lockOf, held
  <2> QED BY <1>1, <2>1, FS_Surjection
<1>4. Cardinality(Locks) = Cardinality(Tasks) + 1
  <2>1. 1 \in Int /\ Cardinality(Tasks) + 1 \in Int
    BY <1>2
  <2>2. ~(1 > Cardinality(Tasks) + 1)
    BY <1>2
  <2> QED BY <1>2, <2>1, <2>2, FS_Interval DEF Locks
<1>5. ~(Locks \subseteq held)
  <2>1. ASSUME Locks \subseteq held PROVE Cardinality(Locks) <= Cardinality(held)
    BY <1>3, <2>1, FS_Subset
  <2>2. Cardinality(held) \in Nat
    BY <1>3, FS_CardinalityType
  <2> QED BY <1>2, <1>3, <1>4, <2>1, <2>2
<1>6. PICK l \in Locks : l \notin held
  BY <1>5
<1>7. \A u \in Tasks : task[u].lock # l
  BY <1>6
<1> QED BY <1>7 DEF FreeLock

(* A step of one task gives it a record and leaves the others theirs.      *)
LEMMA BecomesThat ==
  ASSUME TypeOK, NEW t \in Tasks, NEW record, Becomes(t, record)
  PROVE  /\ task'[t] = record
         /\ \A u \in Tasks : u # t => task'[u] = task[u]
         /\ record \in Record => task' \in [Tasks -> Record]
BY DEF TypeOK, Becomes

(* The records that tasks are given are records.                           *)
LEMMA RecordsTyped ==
  ASSUME TypeOK, StampsPast, NEW t \in Tasks
  PROVE  /\ task[t] \in Record /\ task[t].stamp <= now
         /\ Done \in Record /\ Done.stamp <= now
         /\ Answer \in Record /\ Answer.stamp <= now
         /\ Demoted(t) \in Record /\ Demoted(t).stamp <= now
<1>1. now \in 1..MaxTime /\ MaxTime \in Nat \ {0} /\ NoLock \in Locks \cup {NoLock}
  BY LifecycleAssumption DEF TypeOK
<1>2. task[t] \in Record /\ task[t].stamp <= now
  BY DEF TypeOK, StampsPast
<1>3. Done \in Record /\ Done.stamp <= now
  BY <1>1 DEF Done, Record, Place, Purpose
<1>4. Answer \in Record /\ Answer.stamp <= now
  BY <1>1, <1>3 DEF Answer, Done, Record, Place, Purpose
<1>5. Demoted(t) \in Record /\ Demoted(t).stamp <= now
  BY <1>1, <1>3 DEF Demoted, Done, Record, Place, Purpose
<1> QED BY <1>2, <1>3, <1>4, <1>5

LEMMA ResolvedTyped ==
  ASSUME TypeOK, NEW record \in Record, record.stamp <= now
  PROVE  Resolved(record) \in Record /\ Resolved(record).stamp <= now
<1>1. now \in 1..MaxTime /\ MaxTime \in Nat \ {0} /\ NoLock \in Locks \cup {NoLock}
  BY LifecycleAssumption DEF TypeOK
<1>2. Done \in Record /\ Done.stamp <= now
  BY <1>1 DEF Done, Record, Place, Purpose
<1>3. [record EXCEPT !.pc = "setting", !.lock = NoLock] \in Record
  BY <1>1 DEF Record, Place
<1>4. [record EXCEPT !.pc = "setting", !.lock = NoLock].stamp <= now
  BY DEF Record
<1> QED BY <1>2, <1>3, <1>4 DEF Resolved

LEMMA OutdatedTyped ==
  ASSUME NEW record \in Record
  PROVE  /\ Outdate(record) \in Record
         /\ Outdate(record).pc = record.pc
         /\ Outdate(record).lock = record.lock
         /\ Outdate(record).stamp = record.stamp
BY DEF Outdate, Record

(* A step that moves one task only, ...                                    *)
LEMMA TypedMove ==
  ASSUME TypeOK, StampsPast, NEW t \in Tasks,
         NEW record \in Record, record.stamp <= now, Becomes(t, record),
         UNCHANGED <<now, chain, lockMap, pins, commands, activated>>
  PROVE  TypeOK' /\ StampsPast'
<1>1. /\ task'[t] = record
      /\ \A u \in Tasks : u # t => task'[u] = task[u]
      /\ task' \in [Tasks -> Record]
  BY BecomesThat
<1>2. TypeOK'
  BY <1>1 DEF TypeOK, pins
<1>3. StampsPast'
  BY <1>1 DEF StampsPast
<1> QED BY <1>2, <1>3

(* ... and one that writes to the chain besides.                           *)
LEMMA TypedWrite ==
  ASSUME TypeOK, StampsPast, NEW t \in Tasks,
         NEW record \in Record, record.stamp <= now, Becomes(t, record),
         NEW written \in State, written.last <= now, Through(t, written),
         activated' \in BOOLEAN,
         UNCHANGED <<now, lockMap, pins, commands>>
  PROVE  TypeOK' /\ StampsPast'
<1>1. /\ task'[t] = record
      /\ \A u \in Tasks : u # t => task'[u] = task[u]
      /\ task' \in [Tasks -> Record]
  BY BecomesThat
<1>2. chain' \in State /\ chain'.last <= now
  BY DEF Through, TypeOK
<1>3. TypeOK'
  BY <1>1, <1>2 DEF TypeOK, pins
<1>4. StampsPast'
  BY <1>1 DEF StampsPast
<1> QED BY <1>3, <1>4

(* What is written to the chain is a state of a chain.                     *)
LEMMA WritesTyped ==
  ASSUME TypeOK
  PROVE  /\ chain \in State /\ chain.last <= now
         /\ \A second \in 0..MaxTime :
              second <= now => /\ [chain EXCEPT !.last = second] \in State
                               /\ [chain EXCEPT !.last = second].last <= now
         /\ \A flag \in BOOLEAN :
              /\ [chain EXCEPT !.pinned = flag] \in State
              /\ [chain EXCEPT !.pinned = flag].last <= now
              /\ [chain EXCEPT !.disabled = flag] \in State
              /\ [chain EXCEPT !.disabled = flag].last <= now
              /\ [chain EXCEPT !.pool = flag] \in State
              /\ [chain EXCEPT !.pool = flag].last <= now
         /\ Absent \in State /\ Absent.last <= now
         /\ \A pinned, pool \in BOOLEAN :
              ChainState(pinned, pool) \in State /\ ChainState(pinned, pool).last <= now
         /\ now \in 0..MaxTime /\ 0 \in 0..MaxTime /\ 0 <= now
<1>1. /\ now \in 0..MaxTime /\ 0 \in 0..MaxTime /\ 0 <= now /\ now <= now
      /\ chain \in State /\ chain.last <= now
  BY LifecycleAssumption DEF TypeOK
<1>2. Absent \in State /\ Absent.last <= now
  BY <1>1 DEF Absent, State
<1>3. \A pinned, pool \in BOOLEAN :
        ChainState(pinned, pool) \in State /\ ChainState(pinned, pool).last <= now
  BY <1>1 DEF ChainState, Absent, State
<1>4. \A second \in 0..MaxTime :
        second <= now => /\ [chain EXCEPT !.last = second] \in State
                         /\ [chain EXCEPT !.last = second].last <= now
  BY <1>1 DEF State
<1>5. \A flag \in BOOLEAN :
        /\ [chain EXCEPT !.pinned = flag] \in State
        /\ [chain EXCEPT !.pinned = flag].last <= now
        /\ [chain EXCEPT !.disabled = flag] \in State
        /\ [chain EXCEPT !.disabled = flag].last <= now
        /\ [chain EXCEPT !.pool = flag] \in State
        /\ [chain EXCEPT !.pool = flag].last <= now
  BY <1>1 DEF State
<1> QED BY <1>1, <1>2, <1>3, <1>4, <1>5

(* A task that goes elsewhere has a record.                                *)
LEMMA GoingTyped ==
  ASSUME TypeOK, StampsPast, NEW t \in Tasks, NEW place \in Place
  PROVE  /\ [task[t] EXCEPT !.pc = place] \in Record
         /\ [task[t] EXCEPT !.pc = place].stamp <= now
         /\ [task[t] EXCEPT !.pc = place, !.object = "current"] \in Record
         /\ [task[t] EXCEPT !.pc = place, !.object = "current"].stamp <= now
BY DEF TypeOK, StampsPast, Record

LEMMA PinsTyped ==
  ASSUME TypeOK
  PROVE  IsPinned \in BOOLEAN
BY LifecycleAssumption DEF TypeOK, IsPinned

-----------------------------------------------------------------------------
(* Every step keeps the types and the seconds in the past. *)

LEMMA ResolveTyped ==
  ASSUME TypeOK, StampsPast, NEW t \in Tasks,
         Request(t) \/ ResolveStep(t) \/ Enter(t) \/ GiveUp(t)
  PROVE  TypeOK' /\ StampsPast'
<1> USE RecordsTyped, WritesTyped
<1>1. CASE Request(t)
  <2>1. [Done EXCEPT !.pc = "resolving", !.purpose = "serve"] \in Record
    BY DEF Done, Record, Place, Purpose
  <2>2. [Done EXCEPT !.pc = "resolving", !.purpose = "serve"].stamp <= now
    BY DEF Done
  <2> QED BY <1>1, <2>1, <2>2, TypedMove DEF Request
<1>2. CASE LookServes(t)
  <2>1. "found" \in Place
    BY DEF Place
  <2> QED BY <1>2, <2>1, GoingTyped, TypedMove DEF LookServes, Holds
<1>3. CASE Touch(t)
  <2>1. Resolved(task[t]) \in Record /\ Resolved(task[t]).stamp <= now
    BY ResolvedTyped
  <2>2. /\ Becomes(t, Resolved(task[t])) /\ Through(t, [chain EXCEPT !.last = now])
        /\ UNCHANGED <<now, lockMap, pins, commands>> /\ activated' = activated
    BY <1>3 DEF Touch
  <2>3. activated' \in BOOLEAN
    BY <2>2 DEF TypeOK
  <2> DEFINE written == [chain EXCEPT !.last = now]
  <2>4. written \in State /\ written.last <= now
    OBVIOUS
  <2>5. Through(t, written)
    BY <2>2
  <2> HIDE DEF written
  <2> QED BY <2>1, <2>2, <2>3, <2>4, <2>5, TypedWrite
<1>4. CASE LookDisabled(t)
  <2> DEFINE found == [task[t] EXCEPT !.object = "current"]
  <2>1. found \in Record /\ found.stamp <= now
    BY DEF Record
  <2>2. Resolved(found) \in Record /\ Resolved(found).stamp <= now
    BY <2>1, ResolvedTyped
  <2> QED BY <1>4, <2>2, TypedMove DEF LookDisabled
<1>5. CASE LookSleeping(t)
  <2> DEFINE lock == IF lockMap = NoLock THEN FreeLock ELSE lockMap
             record == [task[t] EXCEPT !.pc = "locking", !.lock = lock,
                                       !.pinned = IsPinned]
  <2>1. lock \in Locks
    BY LockIsFree DEF TypeOK
  <2>2. record \in Record /\ record.stamp <= now
    BY <2>1, PinsTyped DEF Record, Place, Waiting
  <2>3. /\ task'[t] = record
        /\ \A u \in Tasks : u # t => task'[u] = task[u]
        /\ task' \in [Tasks -> Record]
    BY <1>5, <2>2, BecomesThat DEF LookSleeping
  <2>4. lockMap' = lock /\ UNCHANGED <<now, chain, pins, commands, activated>>
    BY <1>5 DEF LookSleeping
  <2> HIDE DEF lock, record
  <2>5. TypeOK'
    BY <2>1, <2>3, <2>4 DEF TypeOK, pins
  <2>6. StampsPast'
    BY <2>2, <2>3, <2>4 DEF StampsPast
  <2> QED BY <2>5, <2>6
<1>6. CASE Enter(t)
  <2>1. "inside" \in Place
    BY DEF Place, Waiting, Inside
  <2> QED BY <1>6, <2>1, GoingTyped, TypedMove DEF Enter, Goes
<1>7. CASE MeetActive(t)
  <2> DEFINE record == [task[t] EXCEPT !.pc = "met", !.object = "current",
                                       !.pinned = FALSE]
  <2>1. record \in Record /\ record.stamp <= now
    BY DEF Record, Place, Waiting, Inside
  <2> QED BY <1>7, <2>1, TypedMove DEF MeetActive
<1>8. CASE TouchMet(t)
  <2>1. "unlocking" \in Place
    BY DEF Place, Waiting, Inside
  <2> DEFINE record == [task[t] EXCEPT !.pc = "unlocking"]
  <2>2. record \in Record /\ record.stamp <= now
    BY <2>1, GoingTyped
  <2>3. /\ Becomes(t, record) /\ Through(t, [chain EXCEPT !.last = now])
        /\ UNCHANGED <<now, lockMap, pins, commands>> /\ activated' = activated
    BY <1>8 DEF TouchMet, Goes
  <2>4. activated' \in BOOLEAN
    BY <2>3 DEF TypeOK
  <2> DEFINE written == [chain EXCEPT !.last = now]
  <2>5. written \in State /\ written.last <= now
    OBVIOUS
  <2>6. Through(t, written)
    BY <2>3
  <2> HIDE DEF written, record
  <2> QED BY <2>2, <2>3, <2>4, <2>5, <2>6, TypedWrite
<1>9. CASE MeetSleeping(t)
  <2>1. "replacing" \in Place /\ "building" \in Place
    BY DEF Place, Waiting, Inside
  <2> QED BY <1>9, <2>1, GoingTyped, TypedMove DEF MeetSleeping, Goes
<1>10. CASE Remove(t)
  <2>1. [task[t] EXCEPT !.pc = "building"] \in Record
    BY DEF Record, Place, Waiting, Inside
  <2>2. /\ task' \in [Tasks -> Record]
        /\ \A u \in Tasks : task'[u].stamp = task[u].stamp
    BY <1>10, <2>1, OutdatedTyped DEF Remove, TypeOK, Record
  <2>3. chain' = Absent /\ UNCHANGED <<now, lockMap, pins, commands, activated>>
    BY <1>10 DEF Remove
  <2>4. TypeOK'
    BY <2>2, <2>3 DEF TypeOK, pins
  <2>5. StampsPast'
    BY <2>2, <2>3 DEF StampsPast
  <2> QED BY <2>4, <2>5
<1>11. CASE Build(t)
  <2> DEFINE record == [task[t] EXCEPT !.pc = "built", !.stamp = now]
  <2>0. task[t] \in Record /\ now \in 0..MaxTime /\ "built" \in Place
    BY DEF Place, Waiting, Inside
  <2>1. record \in Record /\ record.stamp = now
    BY ONLY <2>0 DEF Record
  <2>2. now <= now
    BY ONLY <2>0
  <2> QED BY <1>11, <2>1, <2>2, TypedMove DEF Build
<1>12. CASE Insert(t)
  <2> DEFINE record == [task[t] EXCEPT !.pc = "inserted", !.object = "current",
                                       !.pinned = FALSE]
  <2>1. record \in Record /\ record.stamp = task[t].stamp
    BY DEF Record, Place, Waiting, Inside
  <2>2. task' = [u \in Tasks |-> IF u = t THEN record ELSE Outdate(task[u])]
    BY <1>12 DEF Insert
  <2> HIDE DEF record
  <2>3. /\ task' \in [Tasks -> Record]
        /\ \A u \in Tasks : task'[u].stamp = task[u].stamp
    BY <2>1, <2>2, OutdatedTyped DEF TypeOK
  <2>4. /\ chain' = ChainState(task[t].pinned, TRUE) /\ activated' = TRUE
        /\ UNCHANGED <<now, lockMap, pins, commands>>
    BY <1>12 DEF Insert
  <2>5. chain' \in State /\ chain'.last <= now
    BY <2>4 DEF Record
  <2>6. TypeOK'
    BY <2>3, <2>4, <2>5 DEF TypeOK, pins
  <2>7. StampsPast'
    BY <2>3, <2>4 DEF StampsPast
  <2> QED BY <2>6, <2>7
<1>13. CASE StoreLast(t)
  <2> DEFINE record == [task[t] EXCEPT !.pc = "evicting", !.stamp = 0]
  <2>0. task[t] \in Record /\ 0 \in 0..MaxTime /\ 0 <= now /\ "evicting" \in Place
    BY DEF Place, Waiting, Inside
  <2>1. record \in Record /\ record.stamp <= now
    <3>1. record \in Record
      BY ONLY <2>0 DEF Record
    <3>2. record.stamp = 0
      BY ONLY <2>0 DEF Record
    <3> QED BY <3>1, <3>2
  <2>2. task[t].stamp \in 0..MaxTime
    BY DEF Record
  <2>3. /\ Becomes(t, record)
        /\ Through(t, [chain EXCEPT !.last = task[t].stamp])
        /\ UNCHANGED <<now, lockMap, pins, commands>> /\ activated' = activated
    BY <1>13 DEF StoreLast
  <2>4. activated' \in BOOLEAN
    BY <2>3 DEF TypeOK
  <2> QED BY <2>1, <2>2, <2>3, <2>4, TypedWrite
<1>14. CASE Evicted(t)
  <2>1. "unlocking" \in Place
    BY DEF Place, Waiting, Inside
  <2> QED BY <1>14, <2>1, GoingTyped, TypedMove DEF Evicted, Goes
<1>15. CASE GiveUp(t)
  <2> DEFINE unlocks == [task[t] EXCEPT !.pc = "unlocking", !.object = "none",
                                        !.pinned = FALSE, !.stamp = 0]
             cleans == [task[t] EXCEPT !.pc = "cleaning", !.pinned = FALSE]
  <2>1. unlocks \in Record /\ unlocks.stamp <= now
    BY DEF Record, Place, Waiting, Inside
  <2>2. cleans \in Record /\ cleans.stamp <= now
    BY DEF Record, Place, Waiting
  <2>3. Becomes(t, unlocks) \/ Becomes(t, cleans)
    BY <1>15 DEF GiveUp
  <2>4. UNCHANGED <<now, chain, lockMap, pins, commands, activated>>
    BY <1>15 DEF GiveUp
  <2> QED BY <2>1, <2>2, <2>3, <2>4, TypedMove
<1>16. CASE Unlock(t)
  <2>1. "cleaning" \in Place
    BY DEF Place, Waiting
  <2> QED BY <1>16, <2>1, GoingTyped, TypedMove DEF Unlock, Goes
<1>17. CASE CleanUp(t)
  <2>1. "dropping" \in Place
    BY DEF Place
  <2>2. /\ task'[t] = [task[t] EXCEPT !.pc = "dropping"]
        /\ \A u \in Tasks : u # t => task'[u] = task[u]
        /\ task' \in [Tasks -> Record]
    BY <1>17, <2>1, GoingTyped, BecomesThat DEF CleanUp, Goes
  <2>3. /\ lockMap' \in {lockMap, NoLock}
        /\ UNCHANGED <<now, chain, pins, commands, activated>>
    BY <1>17 DEF CleanUp
  <2>4. TypeOK'
    BY <2>2, <2>3 DEF TypeOK, pins
  <2>5. StampsPast'
    BY <2>1, <2>2, <2>3, GoingTyped DEF StampsPast
  <2> QED BY <2>4, <2>5
<1>18. CASE DropLock(t)
  <2> DEFINE dropped == [task[t] EXCEPT !.lock = NoLock]
  <2>1. dropped \in Record /\ dropped.stamp <= now
    BY DEF Record
  <2>2. Resolved(dropped) \in Record /\ Resolved(dropped).stamp <= now
    BY <2>1, ResolvedTyped
  <2> QED BY <1>18, <2>2, TypedMove DEF DropLock
<1> QED
  BY <1>1, <1>2, <1>3, <1>4, <1>5, <1>6, <1>7, <1>8, <1>9, <1>10, <1>11, <1>12,
     <1>13, <1>14, <1>15, <1>16, <1>17, <1>18 DEF ResolveStep

LEMMA DemoteTyped ==
  ASSUME TypeOK, StampsPast, NEW t \in Tasks,
         SweepIdle(t) \/ SweepLRU(t) \/ SweepForOther(t) \/ DemoteStep(t)
  PROVE  TypeOK' /\ StampsPast'
<1>0. /\ task[t] \in Record /\ task[t].stamp <= now /\ Done \in Record
      /\ Demoted(t) \in Record /\ Demoted(t).stamp <= now
      /\ chain \in State /\ chain.last <= now /\ chain.last \in 0..MaxTime
      /\ 0 \in 0..MaxTime /\ 0 <= now /\ activated \in BOOLEAN
  BY RecordsTyped, WritesTyped DEF TypeOK, State
<1>1. ASSUME NEW reason \in {"idle", "lru"}, Sweep(t, reason)
      PROVE  TypeOK' /\ StampsPast'
  <2> DEFINE record == [Done EXCEPT !.pc = "demoting", !.purpose = reason,
                                    !.stamp = chain.last]
  <2>1. "demoting" \in Place /\ reason \in Purpose
    BY DEF Place, Purpose
  <2>2. record \in Record /\ record.stamp = chain.last
    BY ONLY <1>0, <2>1 DEF Record
  <2> QED BY <1>0, <1>1, <2>2, TypedMove DEF Sweep
<1>2. CASE SweepIdle(t)
  BY <1>1, <1>2 DEF SweepIdle
<1>3. CASE SweepLRU(t)
  BY <1>1, <1>3 DEF SweepLRU
<1>4. CASE SweepForOther(t)
  BY <1>1, <1>4 DEF SweepForOther
<1>5. CASE DemoteLooks(t)
  <2>1. "marking" \in Place
    BY DEF Place
  <2>2. CASE chain.installed /\ ~chain.pinned
    BY <1>5, <2>1, <2>2, GoingTyped, TypedMove DEF DemoteLooks, Holds
  <2>3. CASE ~(chain.installed /\ ~chain.pinned)
    BY <1>0, <1>5, <2>3, TypedMove DEF DemoteLooks
  <2> QED BY <2>2, <2>3
<1>6. CASE Mark(t)
  <2> DEFINE record == [task[t] EXCEPT !.pc = "clearing", !.stamp = 0]
             written == [chain EXCEPT !.last = 0]
  <2>1. "clearing" \in Place
    BY DEF Place
  <2>2. record \in Record /\ record.stamp = 0
    BY ONLY <1>0, <2>1 DEF Record
  <2>3. written \in State /\ written.last <= now
    BY <1>0, WritesTyped
  <2>4. CASE task[t].object = "current" /\ chain.last # task[t].stamp
    <3>1. Becomes(t, Demoted(t))
          /\ UNCHANGED <<now, chain, lockMap, pins, commands, activated>>
      BY <1>6, <2>4 DEF Mark
    <3> QED BY <1>0, <3>1, TypedMove
  <2>5. CASE ~(task[t].object = "current" /\ chain.last # task[t].stamp)
    <3>1. /\ Becomes(t, record) /\ Through(t, written)
          /\ UNCHANGED <<now, lockMap, pins, commands>>
      BY <1>6, <2>5 DEF Mark
    <3>2. activated' \in BOOLEAN
      BY <1>6, <2>5 DEF Mark
    <3> HIDE DEF record, written
    <3> QED BY <1>0, <2>2, <2>3, <3>1, <3>2, TypedWrite
  <2> QED BY <2>4, <2>5
<1>7. CASE Clear(t)
  <2> DEFINE written == [chain EXCEPT !.pool = FALSE]
  <2>1. written \in State /\ written.last <= now
    BY WritesTyped
  <2>2. /\ Becomes(t, Demoted(t)) /\ Through(t, written)
        /\ UNCHANGED <<now, lockMap, pins, commands>> /\ activated' = activated
    BY <1>7 DEF Clear
  <2> HIDE DEF written
  <2> QED BY <1>0, <2>1, <2>2, TypedWrite
<1> QED
  BY <1>2, <1>3, <1>4, <1>5, <1>6, <1>7 DEF DemoteStep

LEMMA CommandTyped ==
  ASSUME TypeOK, StampsPast, NEW t \in Tasks,
         CommandStep(t) \/ \E command \in Commands : Command(t, command)
  PROVE  TypeOK' /\ StampsPast'
<1>0. /\ task[t] \in Record /\ task[t].stamp <= now
      /\ Done \in Record /\ Done.stamp <= now /\ Done.stamp = 0
      /\ Answer \in Record /\ Answer.stamp <= now
      /\ chain \in State /\ chain.last <= now /\ chain.last \in 0..MaxTime
      /\ now \in 0..MaxTime /\ activated \in BOOLEAN
  BY RecordsTyped, WritesTyped DEF TypeOK, State, Done
<1>1. ASSUME NEW command \in Commands, Command(t, command)
      PROVE  TypeOK' /\ StampsPast'
  <2> DEFINE fresh == [Done EXCEPT !.purpose = command]
             sets == [fresh EXCEPT !.pc = "setting", !.object = "current"]
             resolves == [fresh EXCEPT !.pc = "resolving"]
             demotes == [fresh EXCEPT !.pc = "demoting", !.stamp = chain.last]
             autoSets == [fresh EXCEPT !.pc = "autoSetting"]
  <2>1. /\ command \in Purpose
        /\ "setting" \in Place /\ "resolving" \in Place
        /\ "demoting" \in Place /\ "autoSetting" \in Place
    BY LifecycleAssumption DEF Purpose, Place, Settings
  <2>2. fresh \in Record /\ fresh.stamp = 0
    BY ONLY <1>0, <2>1 DEF Record
  <2> HIDE DEF fresh
  <2>3. sets \in Record /\ sets.stamp = 0
    BY ONLY <2>1, <2>2 DEF Record
  <2>4. resolves \in Record /\ resolves.stamp = 0
    BY ONLY <2>1, <2>2 DEF Record
  <2>5. demotes \in Record /\ demotes.stamp = chain.last
    BY ONLY <1>0, <2>1, <2>2 DEF Record
  <2>6. autoSets \in Record /\ autoSets.stamp = 0
    BY ONLY <2>1, <2>2 DEF Record
  <2>7. \E record \in {sets, resolves, demotes, autoSets} : Becomes(t, record)
    BY <1>1 DEF Command, fresh
  <2>8. UNCHANGED <<now, chain, lockMap, pins, activated>>
        /\ commands' = commands + 1 /\ commands < MaxCommands
    BY <1>1 DEF Command
  <2> HIDE DEF sets, resolves, demotes, autoSets
  <2>9. PICK record \in {sets, resolves, demotes, autoSets} : Becomes(t, record)
    BY <2>7
  <2>10. record \in Record /\ record.stamp <= now
    BY <1>0, <2>3, <2>4, <2>5, <2>6
  <2>11. /\ task'[t] = record
         /\ \A u \in Tasks : u # t => task'[u] = task[u]
         /\ task' \in [Tasks -> Record]
    BY <2>9, <2>10, BecomesThat
  <2>12. commands' \in 0..MaxCommands
    BY <2>8, LifecycleAssumption DEF TypeOK
  <2>13. TypeOK'
    BY <2>8, <2>11, <2>12 DEF TypeOK, pins
  <2>14. StampsPast'
    BY <2>8, <2>10, <2>11 DEF StampsPast
  <2> QED BY <2>13, <2>14
<1>2. CASE SetDisabled(t)
  <2> DEFINE flag == (task[t].purpose = "disable")
             written == [chain EXCEPT !.disabled = flag]
  <2>1. written \in State /\ written.last <= now
    BY WritesTyped
  <2>2. /\ Becomes(t, Answer) /\ Through(t, written)
        /\ UNCHANGED <<now, lockMap, pins, commands>> /\ activated' = activated
    BY <1>2 DEF SetDisabled
  <2> HIDE DEF written
  <2> QED BY <1>0, <2>1, <2>2, TypedWrite
<1>3. CASE SetRuntimePin(t)
  <2> DEFINE record == [task[t] EXCEPT !.pc = "storing"]
  <2>1. "storing" \in Place
    BY DEF Place
  <2>2. record \in Record /\ record.stamp <= now
    BY <2>1, GoingTyped
  <2>3. /\ Becomes(t, record) /\ runtimePin' \in {"unset", "pinned", "unpinned"}
        /\ UNCHANGED <<now, chain, lockMap, autoPin, commands, activated>>
    BY <1>3 DEF SetRuntimePin, Goes
  <2> HIDE DEF record
  <2>4. /\ task'[t] = record
        /\ \A u \in Tasks : u # t => task'[u] = task[u]
        /\ task' \in [Tasks -> Record]
    BY <2>2, <2>3, BecomesThat
  <2>5. TypeOK'
    BY <2>3, <2>4 DEF TypeOK
  <2>6. StampsPast'
    BY <2>2, <2>3, <2>4 DEF StampsPast
  <2> QED BY <2>5, <2>6
<1>4. CASE StorePinned(t)
  <2> DEFINE record == [task[t] EXCEPT !.pc = "unpinned"]
             written == [chain EXCEPT !.pinned = (task[t].purpose = "pin")]
  <2>1. "unpinned" \in Place
    BY DEF Place
  <2>2. record \in Record /\ record.stamp <= now
    BY <2>1, GoingTyped
  <2>3. written \in State /\ written.last <= now
    BY WritesTyped
  <2>4. /\ Becomes(t, Answer) \/ Becomes(t, record)
        /\ Through(t, written)
        /\ UNCHANGED <<now, lockMap, pins, commands>> /\ activated' = activated
    BY <1>4 DEF StorePinned, Goes
  <2> HIDE DEF record, written
  <2> QED BY <1>0, <2>2, <2>3, <2>4, TypedWrite
<1>5. CASE TouchUnpinned(t)
  <2> DEFINE written == [chain EXCEPT !.last = now]
  <2>1. written \in State /\ written.last <= now
    BY <1>0, WritesTyped
  <2>2. /\ Becomes(t, Answer) /\ Through(t, written)
        /\ UNCHANGED <<now, lockMap, pins, commands>> /\ activated' = activated
    BY <1>5 DEF TouchUnpinned
  <2> HIDE DEF written
  <2> QED BY <1>0, <2>1, <2>2, TypedWrite
<1>6. CASE SetAutoPin(t)
  <2> DEFINE record == [task[t] EXCEPT !.pc = "autoStoring", !.object = "current"]
  <2>1. "autoStoring" \in Place
    BY DEF Place
  <2>2. record \in Record /\ record.stamp <= now
    BY <2>1, GoingTyped
  <2>3. /\ autoPin' \in BOOLEAN
        /\ UNCHANGED <<now, chain, lockMap, runtimePin, commands, activated>>
    BY <1>6 DEF SetAutoPin
  <2>4. \E given \in {record, Answer, Done} : Becomes(t, given)
    BY <1>6 DEF SetAutoPin, Holds
  <2> HIDE DEF record
  <2>5. PICK given \in {record, Answer, Done} : Becomes(t, given)
    BY <2>4
  <2>6. given \in Record /\ given.stamp <= now
    BY <1>0, <2>2
  <2>7. /\ task'[t] = given
        /\ \A u \in Tasks : u # t => task'[u] = task[u]
        /\ task' \in [Tasks -> Record]
    BY <2>5, <2>6, BecomesThat
  <2>8. TypeOK'
    BY <2>3, <2>7 DEF TypeOK
  <2>9. StampsPast'
    BY <2>3, <2>6, <2>7 DEF StampsPast
  <2> QED BY <2>8, <2>9
<1>7. CASE StoreAutoPin(t)
  <2> DEFINE written == [chain EXCEPT !.pinned = IsPinned]
  <2>1. written \in State /\ written.last <= now
    BY WritesTyped, PinsTyped
  <2>2. /\ Becomes(t, Answer) \/ Becomes(t, Done)
        /\ Through(t, written)
        /\ UNCHANGED <<now, lockMap, pins, commands>> /\ activated' = activated
    BY <1>7 DEF StoreAutoPin
  <2> HIDE DEF written
  <2> QED BY <1>0, <2>1, <2>2, TypedWrite
<1> QED
  BY <1>1, <1>2, <1>3, <1>4, <1>5, <1>6, <1>7 DEF CommandStep

LEMMA RefreshTyped ==
  ASSUME TypeOK, StampsPast, NEW t \in Tasks, RefreshStep(t)
  PROVE  TypeOK' /\ StampsPast'
<1>0. /\ task[t] \in Record /\ task[t].stamp <= now
      /\ Done \in Record /\ Done.stamp <= now /\ Done.stamp = 0
      /\ chain \in State /\ chain.last <= now
      /\ activated \in BOOLEAN /\ IsPinned \in BOOLEAN
  BY RecordsTyped, WritesTyped, PinsTyped DEF TypeOK, Done
<1>1. CASE Refresh(t)
  <2> DEFINE record == [Done EXCEPT !.pc = "installing", !.purpose = "refresh"]
  <2>1. "installing" \in Place /\ "refresh" \in Purpose
    BY DEF Place, Purpose
  <2>2. record \in Record /\ record.stamp = Done.stamp
    BY ONLY <1>0, <2>1 DEF Record
  <2>3. Becomes(t, record)
        /\ UNCHANGED <<now, chain, lockMap, pins, commands, activated>>
    BY <1>1 DEF Refresh
  <2> HIDE DEF record
  <2> QED BY <1>0, <2>2, <2>3, TypedMove
<1>2. CASE RefreshInstalls(t)
  <2> DEFINE record == [task[t] EXCEPT !.pc = "repinning", !.object = "current",
                                       !.pinned = IsPinned]
  <2>1. "repinning" \in Place
    BY DEF Place
  <2>2. record \in Record /\ record.stamp = task[t].stamp
    BY ONLY <1>0, <2>1 DEF Record
  <2>3. /\ Becomes(t, record)
        /\ chain' = IF chain.installed THEN chain ELSE ChainState(IsPinned, FALSE)
        /\ UNCHANGED <<now, lockMap, pins, commands, activated>>
    BY <1>2 DEF RefreshInstalls
  <2> HIDE DEF record
  <2>4. chain' \in State /\ chain'.last <= now
    BY <1>0, <2>3, WritesTyped
  <2>5. /\ task'[t] = record
        /\ \A u \in Tasks : u # t => task'[u] = task[u]
        /\ task' \in [Tasks -> Record]
    BY <2>2, <2>3, BecomesThat
  <2>6. TypeOK'
    BY <2>3, <2>4, <2>5 DEF TypeOK, pins
  <2>7. StampsPast'
    BY <1>0, <2>2, <2>3, <2>5 DEF StampsPast
  <2> QED BY <2>6, <2>7
<1>3. CASE RefreshPins(t)
  <2> DEFINE record == [task[t] EXCEPT !.pc = "merging", !.pinned = FALSE]
             written == [chain EXCEPT !.pinned = task[t].pinned]
  <2>1. "merging" \in Place
    BY DEF Place
  <2>2. record \in Record /\ record.stamp = task[t].stamp
    BY ONLY <1>0, <2>1 DEF Record
  <2>3. task[t].pinned \in BOOLEAN
    BY ONLY <1>0 DEF Record
  <2>4. written \in State /\ written.last <= now
    BY <2>3, WritesTyped
  <2>5. /\ Becomes(t, record) /\ Through(t, written)
        /\ UNCHANGED <<now, lockMap, pins, commands>> /\ activated' = activated
    BY <1>3 DEF RefreshPins
  <2> HIDE DEF record, written
  <2> QED BY <1>0, <2>2, <2>4, <2>5, TypedWrite
<1>4. CASE RefreshMerges(t)
  <2> DEFINE written == [chain EXCEPT !.pool = TRUE]
  <2>1. written \in State /\ written.last <= now
    BY WritesTyped
  <2>2. /\ Becomes(t, Done) /\ Through(t, written)
        /\ UNCHANGED <<now, lockMap, pins, commands>> /\ activated' = activated
    BY <1>4 DEF RefreshMerges
  <2> HIDE DEF written
  <2> QED BY <1>0, <2>1, <2>2, TypedWrite
<1> QED
  BY <1>1, <1>2, <1>3, <1>4 DEF RefreshStep

LEMMA TypeStep ==
  ASSUME TypeOK, StampsPast, [Next]_vars
  PROVE  TypeOK' /\ StampsPast'
<1>1. CASE Tick
  <2>1. now' = now + 1 /\ now < MaxTime
        /\ UNCHANGED <<chain, lockMap, pins, task, commands, activated>>
    BY <1>1 DEF Tick
  <2>2. now \in 1..MaxTime /\ MaxTime \in Nat
    BY LifecycleAssumption DEF TypeOK
  <2>3. now' \in 1..MaxTime
    BY <2>1, <2>2
  <2>4. chain' = chain /\ chain.last \in 0..MaxTime /\ chain.last <= now
    BY <2>1 DEF TypeOK, State
  <2>5. chain'.last <= now'
    BY <2>1, <2>2, <2>4
  <2>6. TypeOK'
    BY <2>1, <2>3, <2>5 DEF TypeOK, pins
  <2>7. \A t \in Tasks : task[t].stamp \in 0..MaxTime /\ task[t].stamp <= now
    BY DEF TypeOK, Record, StampsPast
  <2>8. StampsPast'
    BY <2>1, <2>2, <2>7 DEF StampsPast
  <2> QED BY <2>6, <2>8
<1>2. CASE UNCHANGED vars
  BY <1>2 DEF vars, pins, TypeOK, StampsPast
<1> QED
  BY <1>1, <1>2, ResolveTyped, DemoteTyped, CommandTyped, RefreshTyped DEF Next

-----------------------------------------------------------------------------
(* Every step keeps the lock and the chain's activity in order. *)

Orderly == WaitTogether /\ OneInside /\ InstallsAsleep /\ ActiveInMap

Installing == {"replacing", "building", "built", "inserted"}

(* A write that takes neither the state nor its second away.               *)
Spares ==
  activated' /\ chain.installed =>
    chain'.installed /\ (chain.last > 0 => chain'.last > 0)

(* A step that leads its task elsewhere than to the lock.                  *)
LEMMA ApartOrderly ==
  ASSUME Inv, NEW t \in Tasks, NEW record, Becomes(t, record),
         record.pc \notin Waiting, task[t].pc # "inserted",
         lockMap' = lockMap, activated' => activated, Spares
  PROVE  Orderly'
<1>1. task'[t] = record /\ \A u \in Tasks : u # t => task'[u] = task[u]
  BY BecomesThat DEF Inv
<1>2. record.pc \notin Inside /\ record.pc \notin Installing
  BY DEF Waiting, Inside, Installing
<1>3. WaitTogether'
  BY <1>1 DEF Inv, WaitTogether
<1>4. OneInside'
  BY <1>1, <1>2 DEF Inv, OneInside
<1>5. InstallsAsleep'
  BY <1>1, <1>2 DEF Inv, InstallsAsleep, Installing
<1>6. ActiveInMap'
  <2>1. ASSUME NEW u \in Tasks, task[u].pc = "inserted" PROVE task'[u].pc = "inserted"
    BY <1>1, <2>1
  <2> QED BY <2>1 DEF Inv, ActiveInMap, Spares
<1> QED BY <1>3, <1>4, <1>5, <1>6 DEF Orderly

(* A step of a task at the lock that installs nothing and leaves it there. *)
LEMMA HolderOrderly ==
  ASSUME Inv, NEW t \in Tasks, NEW record, Becomes(t, record),
         task[t].pc \in Waiting, record.lock = task[t].lock,
         record.pc \in Inside => task[t].pc \in Inside,
         record.pc \notin Installing, task[t].pc # "inserted",
         lockMap' = lockMap, activated' => activated, Spares
  PROVE  Orderly'
<1>1. task'[t] = record /\ \A u \in Tasks : u # t => task'[u] = task[u]
  BY BecomesThat DEF Inv
<1>2. WaitTogether'
  BY <1>1 DEF Inv, WaitTogether
<1>3. OneInside'
  BY <1>1 DEF Inv, OneInside
<1>4. InstallsAsleep'
  BY <1>1 DEF Inv, InstallsAsleep, Installing
<1>5. ActiveInMap'
  <2>1. ASSUME NEW u \in Tasks, task[u].pc = "inserted" PROVE task'[u].pc = "inserted"
    BY <1>1, <2>1
  <2> QED BY <2>1 DEF Inv, ActiveInMap, Spares
<1> QED BY <1>2, <1>3, <1>4, <1>5 DEF Orderly

(* What a task writes through its Arc, unless it marks the chain.          *)
LEMMA ThroughSpares ==
  ASSUME TypeOK, NEW t \in Tasks, NEW written, Through(t, written),
         written.installed = chain.installed,
         written.last = chain.last \/ written.last > 0
  PROVE  Spares
BY DEF Through, Spares

(* Where the records of the model lead.                                    *)
LEMMA RecordsApart ==
  /\ Done.pc \notin Waiting /\ Answer.pc \notin Waiting
  /\ \A t : Demoted(t).pc \notin Waiting
  /\ \A record \in Record : Resolved(record).pc \notin Waiting
<1>1. Done.pc \notin Waiting /\ Answer.pc \notin Waiting
  BY DEF Done, Answer, Waiting, Inside
<1>2. \A t : Demoted(t).pc \notin Waiting
  BY DEF Demoted, Done, Waiting, Inside
<1>3. \A record \in Record : Resolved(record).pc \notin Waiting
  BY DEF Resolved, Record, Done, Waiting, Inside
<1> QED BY <1>1, <1>2, <1>3

LEMMA UnchangedSpares ==
  ASSUME chain' = chain
  PROVE  Spares
BY DEF Spares

(* The steps away from the lock.                                           *)
LEMMA AwayOrderly ==
  ASSUME Inv, NEW t \in Tasks,
         \/ Request(t) \/ LookServes(t) \/ Touch(t) \/ LookDisabled(t)
         \/ SweepIdle(t) \/ SweepLRU(t) \/ SweepForOther(t) \/ DemoteStep(t)
  PROVE  Orderly'
<1>0. /\ TypeOK /\ StampsPast /\ task[t] \in Record
      /\ now > 0 /\ chain \in State /\ activated \in BOOLEAN
  BY LifecycleAssumption DEF Inv, TypeOK
<1> USE RecordsApart
<1>1. CASE Request(t)
  <2> DEFINE record == [Done EXCEPT !.pc = "resolving", !.purpose = "serve"]
  <2>1. Becomes(t, record) /\ task[t].pc = "idle"
        /\ lockMap' = lockMap /\ chain' = chain /\ activated' = activated
    BY <1>1 DEF Request, Is
  <2>2. record.pc \notin Waiting
    BY DEF Done, Waiting, Inside
  <2> HIDE DEF record
  <2> QED BY <2>1, <2>2, UnchangedSpares, ApartOrderly
<1>2. CASE LookServes(t)
  <2> DEFINE record == [task[t] EXCEPT !.pc = "found", !.object = "current"]
  <2>1. Becomes(t, record) /\ task[t].pc = "resolving"
        /\ lockMap' = lockMap /\ chain' = chain /\ activated' = activated
    BY <1>2 DEF LookServes, Holds, Is
  <2>2. record.pc \notin Waiting
    BY <1>0 DEF Record, Waiting, Inside
  <2> HIDE DEF record
  <2> QED BY <2>1, <2>2, UnchangedSpares, ApartOrderly
<1>3. CASE Touch(t)
  <2> DEFINE written == [chain EXCEPT !.last = now]
  <2>1. /\ Becomes(t, Resolved(task[t])) /\ Through(t, written)
        /\ task[t].pc = "found" /\ lockMap' = lockMap /\ activated' = activated
    BY <1>3 DEF Touch, Is
  <2>2. written.installed = chain.installed /\ written.last > 0
    BY <1>0 DEF State
  <2>3. Resolved(task[t]).pc \notin Waiting
    BY <1>0
  <2> HIDE DEF written
  <2>4. Spares
    BY <1>0, <2>1, <2>2, ThroughSpares
  <2> QED BY <2>1, <2>3, <2>4, ApartOrderly
<1>4. CASE LookDisabled(t)
  <2> DEFINE found == [task[t] EXCEPT !.object = "current"]
  <2>1. Becomes(t, Resolved(found)) /\ task[t].pc = "resolving"
        /\ lockMap' = lockMap /\ chain' = chain /\ activated' = activated
    BY <1>4 DEF LookDisabled, Is
  <2>2. found \in Record
    BY <1>0 DEF Record
  <2> HIDE DEF found
  <2> QED BY <2>1, <2>2, UnchangedSpares, ApartOrderly
<1>5. ASSUME NEW reason, Sweep(t, reason)
      PROVE  Orderly'
  <2> DEFINE record == [Done EXCEPT !.pc = "demoting", !.purpose = reason,
                                    !.stamp = chain.last]
  <2>1. Becomes(t, record) /\ task[t].pc = "idle"
        /\ lockMap' = lockMap /\ chain' = chain /\ activated' = activated
    BY <1>5 DEF Sweep, Is
  <2>2. record.pc \notin Waiting
    BY DEF Done, Waiting, Inside
  <2> HIDE DEF record
  <2> QED BY <2>1, <2>2, UnchangedSpares, ApartOrderly
<1>6. CASE SweepIdle(t) \/ SweepLRU(t) \/ SweepForOther(t)
  BY <1>5, <1>6 DEF SweepIdle, SweepLRU, SweepForOther
<1>7. CASE DemoteLooks(t)
  <2> DEFINE record == [task[t] EXCEPT !.pc = "marking", !.object = "current"]
  <2>1. /\ Becomes(t, record) \/ Becomes(t, Demoted(t))
        /\ task[t].pc = "demoting"
        /\ lockMap' = lockMap /\ chain' = chain /\ activated' = activated
    BY <1>7 DEF DemoteLooks, Holds, Is
  <2>2. record.pc \notin Waiting
    BY <1>0 DEF Record, Waiting, Inside
  <2> HIDE DEF record
  <2> QED BY <2>1, <2>2, UnchangedSpares, ApartOrderly
<1>8. CASE Mark(t)
  <2> DEFINE record == [task[t] EXCEPT !.pc = "clearing", !.stamp = 0]
             written == [chain EXCEPT !.last = 0]
  <2>1. task[t].pc = "marking" /\ lockMap' = lockMap
    BY <1>8 DEF Mark, Is
  <2>2. record.pc \notin Waiting
    BY <1>0 DEF Record, Waiting, Inside
  <2>3. CASE task[t].object = "current" /\ chain.last # task[t].stamp
    <3>1. Becomes(t, Demoted(t)) /\ chain' = chain /\ activated' = activated
      BY <1>8, <2>3 DEF Mark
    <3> QED BY <2>1, <3>1, UnchangedSpares, ApartOrderly
  <2>4. CASE ~(task[t].object = "current" /\ chain.last # task[t].stamp)
    <3>1. /\ Becomes(t, record) /\ Through(t, written)
          /\ activated' = (activated /\ task[t].object # "current")
      BY <1>8, <2>4 DEF Mark
    <3>2. Spares
      BY <3>1 DEF Spares, Through
    <3> HIDE DEF record, written
    <3> QED BY <2>1, <2>2, <3>1, <3>2, ApartOrderly
  <2> QED BY <2>3, <2>4
<1>9. CASE Clear(t)
  <2> DEFINE written == [chain EXCEPT !.pool = FALSE]
  <2>1. /\ Becomes(t, Demoted(t)) /\ Through(t, written)
        /\ task[t].pc = "clearing" /\ lockMap' = lockMap /\ activated' = activated
    BY <1>9 DEF Clear, Is
  <2>2. written.installed = chain.installed /\ written.last = chain.last
    BY <1>0 DEF State
  <2> HIDE DEF written
  <2>3. Spares
    BY <1>0, <2>1, <2>2, ThroughSpares
  <2> QED BY <2>1, <2>3, ApartOrderly
<1> QED
  BY <1>1, <1>2, <1>3, <1>4, <1>6, <1>7, <1>8, <1>9 DEF DemoteStep

LEMMA CommandOrderly ==
  ASSUME Inv, NEW t \in Tasks,
         CommandStep(t) \/ \E command \in Commands : Command(t, command)
  PROVE  Orderly'
<1>0. /\ TypeOK /\ StampsPast /\ task[t] \in Record
      /\ now > 0 /\ chain \in State /\ activated \in BOOLEAN
  BY LifecycleAssumption DEF Inv, TypeOK
<1> USE RecordsApart
<1>1. ASSUME NEW command \in Commands, Command(t, command)
      PROVE  Orderly'
  <2>1. /\ task[t].pc = "idle" /\ lockMap' = lockMap /\ chain' = chain
        /\ activated' = activated
    BY <1>1 DEF Command, Is
  <2>2. \E record : Becomes(t, record) /\ record.pc \in Place \ Waiting
    <3> DEFINE fresh == [Done EXCEPT !.purpose = command]
               sets == [fresh EXCEPT !.pc = "setting", !.object = "current"]
               resolves == [fresh EXCEPT !.pc = "resolving"]
               demotes == [fresh EXCEPT !.pc = "demoting", !.stamp = chain.last]
               autoSets == [fresh EXCEPT !.pc = "autoSetting"]
    <3>1. /\ sets.pc \in Place \ Waiting /\ resolves.pc \in Place \ Waiting
          /\ demotes.pc \in Place \ Waiting /\ autoSets.pc \in Place \ Waiting
      BY DEF Done, Place, Waiting, Inside
    <3>2. \E record \in {sets, resolves, demotes, autoSets} : Becomes(t, record)
      BY <1>1 DEF Command
    <3> HIDE DEF sets, resolves, demotes, autoSets
    <3> QED BY <3>1, <3>2
  <2> QED BY <2>1, <2>2, UnchangedSpares, ApartOrderly
<1>2. CASE SetDisabled(t)
  <2> DEFINE flag == (task[t].purpose = "disable")
             written == [chain EXCEPT !.disabled = flag]
  <2>1. /\ Becomes(t, Answer) /\ Through(t, written)
        /\ task[t].pc = "setting" /\ lockMap' = lockMap /\ activated' = activated
    BY <1>2 DEF SetDisabled, Is
  <2>2. written.installed = chain.installed /\ written.last = chain.last
    BY <1>0 DEF State
  <2> HIDE DEF written
  <2>3. Spares
    BY <1>0, <2>1, <2>2, ThroughSpares
  <2> QED BY <2>1, <2>3, ApartOrderly
<1>3. CASE SetRuntimePin(t)
  <2> DEFINE record == [task[t] EXCEPT !.pc = "storing"]
  <2>1. /\ Becomes(t, record) /\ chain' = chain
        /\ task[t].pc = "setting" /\ lockMap' = lockMap /\ activated' = activated
    BY <1>3 DEF SetRuntimePin, Goes, Is
  <2>2. record.pc \notin Waiting
    BY <1>0 DEF Record, Waiting, Inside
  <2> HIDE DEF record
  <2> QED BY <2>1, <2>2, UnchangedSpares, ApartOrderly
<1>4. CASE StorePinned(t)
  <2> DEFINE record == [task[t] EXCEPT !.pc = "unpinned"]
             written == [chain EXCEPT !.pinned = (task[t].purpose = "pin")]
  <2>1. /\ Becomes(t, Answer) \/ Becomes(t, record)
        /\ Through(t, written)
        /\ task[t].pc = "storing" /\ lockMap' = lockMap /\ activated' = activated
    BY <1>4 DEF StorePinned, Goes, Is
  <2>2. written.installed = chain.installed /\ written.last = chain.last
    BY <1>0 DEF State
  <2>3. record.pc \notin Waiting
    BY <1>0 DEF Record, Waiting, Inside
  <2> HIDE DEF record, written
  <2>4. Spares
    BY <1>0, <2>1, <2>2, ThroughSpares
  <2> QED BY <2>1, <2>3, <2>4, ApartOrderly
<1>5. CASE TouchUnpinned(t)
  <2> DEFINE written == [chain EXCEPT !.last = now]
  <2>1. /\ Becomes(t, Answer) /\ Through(t, written)
        /\ task[t].pc = "unpinned" /\ lockMap' = lockMap /\ activated' = activated
    BY <1>5 DEF TouchUnpinned, Is
  <2>2. written.installed = chain.installed /\ written.last > 0
    BY <1>0 DEF State
  <2> HIDE DEF written
  <2>3. Spares
    BY <1>0, <2>1, <2>2, ThroughSpares
  <2> QED BY <2>1, <2>3, ApartOrderly
<1>6. CASE SetAutoPin(t)
  <2> DEFINE record == [task[t] EXCEPT !.pc = "autoStoring", !.object = "current"]
  <2>1. /\ \E given \in {record, Answer, Done} : Becomes(t, given)
        /\ task[t].pc = "autoSetting" /\ lockMap' = lockMap /\ chain' = chain
        /\ activated' = activated
    BY <1>6 DEF SetAutoPin, Holds, Is
  <2>2. record.pc \notin Waiting
    BY <1>0 DEF Record, Waiting, Inside
  <2> HIDE DEF record
  <2> QED BY <2>1, <2>2, UnchangedSpares, ApartOrderly
<1>7. CASE StoreAutoPin(t)
  <2> DEFINE written == [chain EXCEPT !.pinned = IsPinned]
  <2>1. /\ Becomes(t, Answer) \/ Becomes(t, Done)
        /\ Through(t, written)
        /\ task[t].pc = "autoStoring" /\ lockMap' = lockMap /\ activated' = activated
    BY <1>7 DEF StoreAutoPin, Is
  <2>2. written.installed = chain.installed /\ written.last = chain.last
    BY <1>0 DEF State
  <2> HIDE DEF written
  <2>3. Spares
    BY <1>0, <2>1, <2>2, ThroughSpares
  <2> QED BY <2>1, <2>3, ApartOrderly
<1> QED
  BY <1>1, <1>2, <1>3, <1>4, <1>5, <1>6, <1>7 DEF CommandStep

LEMMA RefreshOrderly ==
  ASSUME Inv, NEW t \in Tasks, RefreshStep(t)
  PROVE  Orderly'
<1>0. /\ TypeOK /\ StampsPast /\ task[t] \in Record
      /\ chain \in State /\ activated \in BOOLEAN
  BY DEF Inv, TypeOK
<1> USE RecordsApart
<1>1. CASE Refresh(t)
  <2> DEFINE record == [Done EXCEPT !.pc = "installing", !.purpose = "refresh"]
  <2>1. Becomes(t, record) /\ task[t].pc = "idle"
        /\ lockMap' = lockMap /\ chain' = chain /\ activated' = activated
    BY <1>1 DEF Refresh, Is
  <2>2. record.pc \notin Waiting
    BY DEF Done, Waiting, Inside
  <2> HIDE DEF record
  <2> QED BY <2>1, <2>2, UnchangedSpares, ApartOrderly
<1>2. CASE RefreshInstalls(t)
  <2> DEFINE record == [task[t] EXCEPT !.pc = "repinning", !.object = "current",
                                       !.pinned = IsPinned]
  <2>1. /\ Becomes(t, record) /\ task[t].pc = "installing"
        /\ chain.installed => chain' = chain
        /\ lockMap' = lockMap /\ activated' = activated
    BY <1>2 DEF RefreshInstalls, Is
  <2>2. record.pc \notin Waiting
    BY <1>0 DEF Record, Waiting, Inside
  <2>3. Spares
    BY <2>1 DEF Spares
  <2> HIDE DEF record
  <2> QED BY <2>1, <2>2, <2>3, ApartOrderly
<1>3. CASE RefreshPins(t)
  <2> DEFINE record == [task[t] EXCEPT !.pc = "merging", !.pinned = FALSE]
             written == [chain EXCEPT !.pinned = task[t].pinned]
  <2>1. /\ Becomes(t, record) /\ Through(t, written)
        /\ task[t].pc = "repinning" /\ lockMap' = lockMap /\ activated' = activated
    BY <1>3 DEF RefreshPins, Is
  <2>2. written.installed = chain.installed /\ written.last = chain.last
    BY <1>0 DEF State
  <2>3. record.pc \notin Waiting
    BY <1>0 DEF Record, Waiting, Inside
  <2> HIDE DEF record, written
  <2>4. Spares
    BY <1>0, <2>1, <2>2, ThroughSpares
  <2> QED BY <2>1, <2>3, <2>4, ApartOrderly
<1>4. CASE RefreshMerges(t)
  <2> DEFINE written == [chain EXCEPT !.pool = TRUE]
  <2>1. /\ Becomes(t, Done) /\ Through(t, written)
        /\ task[t].pc = "merging" /\ lockMap' = lockMap /\ activated' = activated
    BY <1>4 DEF RefreshMerges, Is
  <2>2. written.installed = chain.installed /\ written.last = chain.last
    BY <1>0 DEF State
  <2> HIDE DEF written
  <2>3. Spares
    BY <1>0, <2>1, <2>2, ThroughSpares
  <2> QED BY <2>1, <2>3, ApartOrderly
<1> QED
  BY <1>1, <1>2, <1>3, <1>4 DEF RefreshStep

(* Before it waits for the lock: no entry in the map means nobody waits.   *)
LEMMA LookSleepingOrderly ==
  ASSUME Inv, NEW t \in Tasks, LookSleeping(t)
  PROVE  Orderly'
<1> DEFINE lock == IF lockMap = NoLock THEN FreeLock ELSE lockMap
           record == [task[t] EXCEPT !.pc = "locking", !.lock = lock,
                                     !.pinned = IsPinned]
<1>1. /\ Becomes(t, record) /\ task[t].pc = "resolving" /\ lockMap' = lock
      /\ chain' = chain /\ activated' = activated
  BY DEF LookSleeping, Is
<1>2. lock \in Locks /\ lock # NoLock
  BY LockIsFree DEF Inv, TypeOK, Locks, NoLock
<1>3. record.pc = "locking" /\ record.lock = lock
  BY DEF Inv, TypeOK, Record
<1>4. lockMap # NoLock => lock = lockMap
  OBVIOUS
<1> HIDE DEF lock, record
<1>5. task'[t] = record /\ \A u \in Tasks : u # t => task'[u] = task[u]
  BY <1>1, BecomesThat DEF Inv
<1>6. "locking" \notin Inside /\ "locking" \notin Installing
  BY DEF Inside, Installing
<1>7. WaitTogether'
  BY <1>1, <1>2, <1>3, <1>4, <1>5 DEF Inv, WaitTogether
<1>8. OneInside'
  BY <1>3, <1>5, <1>6 DEF Inv, OneInside
<1>9. InstallsAsleep'
  BY <1>1, <1>3, <1>5, <1>6 DEF Inv, InstallsAsleep, Installing
<1>10. ActiveInMap'
  <2>1. ASSUME NEW u \in Tasks, task[u].pc = "inserted" PROVE task'[u].pc = "inserted"
    BY <1>1, <1>5, <2>1
  <2> QED BY <1>1, <2>1 DEF Inv, ActiveInMap
<1> QED BY <1>7, <1>8, <1>9, <1>10 DEF Orderly

(* All who wait do so at the same lock: who enters it is alone.            *)
LEMMA EnterOrderly ==
  ASSUME Inv, NEW t \in Tasks, Enter(t)
  PROVE  Orderly'
<1> DEFINE record == [task[t] EXCEPT !.pc = "inside"]
<1>1. /\ Becomes(t, record) /\ task[t].pc = "locking" /\ lockMap' = lockMap
      /\ chain' = chain /\ activated' = activated
      /\ \A u \in Tasks : task[u].lock = task[t].lock => task[u].pc \notin Inside
  BY DEF Enter, Goes, Is
<1>2. record.pc = "inside" /\ record.lock = task[t].lock
  BY DEF Inv, TypeOK, Record
<1> HIDE DEF record
<1>3. task'[t] = record /\ \A u \in Tasks : u # t => task'[u] = task[u]
  BY <1>1, BecomesThat DEF Inv
<1>4. task[t].pc \in Waiting /\ Inside \subseteq Waiting
  BY <1>1 DEF Waiting
<1>5. \A u \in Tasks : task[u].pc \notin Inside
  BY <1>1, <1>4 DEF Inv, WaitTogether
<1>6. WaitTogether'
  BY <1>1, <1>2, <1>3, <1>4 DEF Inv, WaitTogether
<1>7. OneInside'
  BY <1>3, <1>5 DEF OneInside
<1>8. InstallsAsleep'
  BY <1>1, <1>2, <1>3 DEF Inv, InstallsAsleep
<1>9. ActiveInMap'
  <2>1. ASSUME NEW u \in Tasks, task[u].pc = "inserted" PROVE task'[u].pc = "inserted"
    BY <1>1, <1>3, <2>1
  <2> QED BY <1>1, <2>1 DEF Inv, ActiveInMap
<1> QED BY <1>6, <1>7, <1>8, <1>9 DEF Orderly

(* The entry is removed only by the last who holds the lock.               *)
LEMMA CleanUpOrderly ==
  ASSUME Inv, NEW t \in Tasks, CleanUp(t)
  PROVE  Orderly'
<1> DEFINE record == [task[t] EXCEPT !.pc = "dropping"]
<1>1. /\ Becomes(t, record) /\ task[t].pc = "cleaning"
      /\ lockMap' = IF Unshared(lockMap) THEN NoLock ELSE lockMap
      /\ chain' = chain /\ activated' = activated
  BY DEF CleanUp, Goes, Is
<1>2. record.pc = "dropping"
  BY DEF Inv, TypeOK, Record
<1> HIDE DEF record
<1>3. task'[t] = record /\ \A u \in Tasks : u # t => task'[u] = task[u]
  BY <1>1, BecomesThat DEF Inv
<1>4. "dropping" \notin Waiting /\ "dropping" \notin Inside /\ "cleaning" \in Waiting
  BY DEF Waiting, Inside
<1>5. WaitTogether'
  <2>1. task[t].lock = lockMap
    BY <1>1, <1>4 DEF Inv, WaitTogether
  <2>2. CASE Unshared(lockMap)
    <3>1. \A u \in Tasks : u # t => task[u].pc \notin Waiting
      BY <2>1, <2>2 DEF Inv, WaitTogether, Unshared
    <3> QED BY <1>2, <1>3, <1>4, <3>1 DEF WaitTogether
  <2>3. CASE ~Unshared(lockMap)
    BY <1>1, <1>2, <1>3, <1>4, <2>3 DEF Inv, WaitTogether
  <2> QED BY <2>2, <2>3
<1>6. OneInside'
  BY <1>2, <1>3, <1>4 DEF Inv, OneInside
<1>7. InstallsAsleep'
  BY <1>1, <1>2, <1>3 DEF Inv, InstallsAsleep
<1>8. ActiveInMap'
  <2>1. ASSUME NEW u \in Tasks, task[u].pc = "inserted" PROVE task'[u].pc = "inserted"
    BY <1>1, <1>3, <2>1
  <2> QED BY <1>1, <2>1 DEF Inv, ActiveInMap
<1> QED BY <1>5, <1>6, <1>7, <1>8 DEF Orderly

(* The steps under the lock, and off it, that install nothing.             *)
LEMMA HoldersOrderly ==
  ASSUME Inv, NEW t \in Tasks,
         \/ MeetActive(t) \/ TouchMet(t) \/ Evicted(t) \/ GiveUp(t)
         \/ Unlock(t) \/ DropLock(t)
  PROVE  Orderly'
<1>0. /\ TypeOK /\ StampsPast /\ task[t] \in Record
      /\ now > 0 /\ chain \in State
  BY LifecycleAssumption DEF Inv, TypeOK
<1>1. CASE MeetActive(t)
  <2> DEFINE record == [task[t] EXCEPT !.pc = "met", !.object = "current",
                                       !.pinned = FALSE]
  <2>1. /\ Becomes(t, record) /\ task[t].pc = "inside"
        /\ lockMap' = lockMap /\ chain' = chain /\ activated' = activated
    BY <1>1 DEF MeetActive, Is
  <2>2. record.pc = "met" /\ record.lock = task[t].lock
    BY <1>0 DEF Record
  <2>3. "inside" \in Inside /\ "inside" \in Waiting /\ "met" \notin Installing
    BY DEF Inside, Waiting, Installing
  <2> HIDE DEF record
  <2> QED BY <2>1, <2>2, <2>3, UnchangedSpares, HolderOrderly
<1>2. CASE TouchMet(t)
  <2> DEFINE record == [task[t] EXCEPT !.pc = "unlocking"]
             written == [chain EXCEPT !.last = now]
  <2>1. /\ Becomes(t, record) /\ Through(t, written) /\ task[t].pc = "met"
        /\ lockMap' = lockMap /\ activated' = activated
    BY <1>2 DEF TouchMet, Goes, Is
  <2>2. record.pc = "unlocking" /\ record.lock = task[t].lock
    BY <1>0 DEF Record
  <2>3. "met" \in Inside /\ "met" \in Waiting /\ "unlocking" \notin Installing
    BY DEF Inside, Waiting, Installing
  <2>4. written.installed = chain.installed /\ written.last > 0
    BY <1>0 DEF State
  <2> HIDE DEF record, written
  <2>5. Spares
    BY <1>0, <2>1, <2>4, ThroughSpares
  <2> QED BY <2>1, <2>2, <2>3, <2>5, HolderOrderly
<1>3. CASE Evicted(t)
  <2> DEFINE record == [task[t] EXCEPT !.pc = "unlocking"]
  <2>1. /\ Becomes(t, record) /\ task[t].pc = "evicting"
        /\ lockMap' = lockMap /\ chain' = chain /\ activated' = activated
    BY <1>3 DEF Evicted, Goes, Is
  <2>2. record.pc = "unlocking" /\ record.lock = task[t].lock
    BY <1>0 DEF Record
  <2>3. "evicting" \in Inside /\ "evicting" \in Waiting /\ "unlocking" \notin Installing
    BY DEF Inside, Waiting, Installing
  <2> HIDE DEF record
  <2> QED BY <2>1, <2>2, <2>3, UnchangedSpares, HolderOrderly
<1>4. CASE GiveUp(t)
  <2> DEFINE unlocks == [task[t] EXCEPT !.pc = "unlocking", !.object = "none",
                                        !.pinned = FALSE, !.stamp = 0]
             cleans == [task[t] EXCEPT !.pc = "cleaning", !.pinned = FALSE]
  <2>1. /\ unlocks.pc = "unlocking" /\ unlocks.lock = task[t].lock
        /\ cleans.pc = "cleaning" /\ cleans.lock = task[t].lock
    BY <1>0 DEF Record
  <2>2. lockMap' = lockMap /\ chain' = chain /\ activated' = activated
    BY <1>4 DEF GiveUp
  <2>3. \/ task[t].pc \in {"building", "built", "evicting"} /\ Becomes(t, unlocks)
        \/ task[t].pc = "locking" /\ Becomes(t, cleans)
    BY <1>4 DEF GiveUp, Is
  <2> HIDE DEF unlocks, cleans
  <2>4. CASE task[t].pc \in {"building", "built", "evicting"} /\ Becomes(t, unlocks)
    <3>1. task[t].pc \in Inside /\ task[t].pc \in Waiting /\ task[t].pc # "inserted"
          /\ "unlocking" \notin Installing
      BY <2>4 DEF Inside, Waiting, Installing
    <3> QED BY <2>1, <2>2, <2>4, <3>1, UnchangedSpares, HolderOrderly
  <2>5. CASE task[t].pc = "locking" /\ Becomes(t, cleans)
    <3>1. "locking" \in Waiting /\ "cleaning" \notin Inside /\ "cleaning" \notin Installing
      BY DEF Inside, Waiting, Installing
    <3> QED BY <2>1, <2>2, <2>5, <3>1, UnchangedSpares, HolderOrderly
  <2> QED BY <2>3, <2>4, <2>5
<1>5. CASE Unlock(t)
  <2> DEFINE record == [task[t] EXCEPT !.pc = "cleaning"]
  <2>1. /\ Becomes(t, record) /\ task[t].pc = "unlocking"
        /\ lockMap' = lockMap /\ chain' = chain /\ activated' = activated
    BY <1>5 DEF Unlock, Goes, Is
  <2>2. record.pc = "cleaning" /\ record.lock = task[t].lock
    BY <1>0 DEF Record
  <2>3. "unlocking" \in Waiting /\ "cleaning" \notin Inside /\ "cleaning" \notin Installing
    BY DEF Inside, Waiting, Installing
  <2> HIDE DEF record
  <2> QED BY <2>1, <2>2, <2>3, UnchangedSpares, HolderOrderly
<1>6. CASE DropLock(t)
  <2> DEFINE dropped == [task[t] EXCEPT !.lock = NoLock]
  <2>1. /\ Becomes(t, Resolved(dropped)) /\ task[t].pc = "dropping"
        /\ lockMap' = lockMap /\ chain' = chain /\ activated' = activated
    BY <1>6 DEF DropLock, Is
  <2>2. dropped \in Record
    BY <1>0 DEF Record
  <2> HIDE DEF dropped
  <2> QED BY <2>1, <2>2, RecordsApart, UnchangedSpares, ApartOrderly
<1> QED
  BY <1>1, <1>2, <1>3, <1>4, <1>5, <1>6

(* Who goes to install a state is alone inside, and the chain that sleeps  *)
(* was demoted since it was activated.                                     *)
LEMMA MeetSleepingOrderly ==
  ASSUME Inv, NEW t \in Tasks, MeetSleeping(t)
  PROVE  Orderly'
<1> DEFINE place == IF chain.installed THEN "replacing" ELSE "building"
           record == [task[t] EXCEPT !.pc = place]
<1>1. /\ Becomes(t, record) /\ task[t].pc = "inside" /\ Sleeping
      /\ lockMap' = lockMap /\ chain' = chain /\ activated' = activated
  BY DEF MeetSleeping, Goes, Is
<1>2. record.pc \in {"replacing", "building"} /\ record.lock = task[t].lock
  BY DEF Inv, TypeOK, Record
<1> HIDE DEF place, record
<1>3. task'[t] = record /\ \A u \in Tasks : u # t => task'[u] = task[u]
  BY <1>1, BecomesThat DEF Inv
<1>4. "inside" \in Inside /\ "inside" \in Waiting /\ "inserted" \in Inside
  BY DEF Inside, Waiting
<1>5. \A u \in Tasks : task[u].pc # "inserted"
  BY <1>1, <1>4 DEF Inv, OneInside
<1>6. ~activated
  <2>1. ASSUME activated PROVE FALSE
    <3>1. chain.installed /\ chain.last > 0
      BY <1>5, <2>1 DEF Inv, ActiveInMap
    <3> QED BY <1>1, <3>1 DEF Sleeping, Label
  <2> QED BY <2>1
<1>7. WaitTogether'
  BY <1>1, <1>2, <1>3, <1>4 DEF Inv, WaitTogether
<1>8. OneInside'
  BY <1>1, <1>3, <1>4 DEF Inv, OneInside
<1>9. InstallsAsleep'
  BY <1>1, <1>2, <1>3, <1>6 DEF Inv, InstallsAsleep
<1>10. ActiveInMap'
  BY <1>1, <1>6 DEF ActiveInMap
<1> QED BY <1>7, <1>8, <1>9, <1>10 DEF Orderly

LEMMA RemoveOrderly ==
  ASSUME Inv, NEW t \in Tasks, Remove(t)
  PROVE  Orderly'
<1> DEFINE record == [task[t] EXCEPT !.pc = "building"]
<1>1. /\ task' = [u \in Tasks |-> IF u = t THEN record ELSE Outdate(task[u])]
      /\ task[t].pc = "replacing" /\ lockMap' = lockMap /\ activated' = activated
  BY DEF Remove, Is
<1>2. record.pc = "building" /\ record.lock = task[t].lock
  BY DEF Inv, TypeOK, Record
<1> HIDE DEF record
<1>3. /\ task'[t] = record
      /\ \A u \in Tasks : u # t => task'[u].pc = task[u].pc /\ task'[u].lock = task[u].lock
  BY <1>1, OutdatedTyped DEF Inv, TypeOK
<1>4. {"replacing", "building", "built", "inserted"} \subseteq Inside /\ Inside \subseteq Waiting
  BY DEF Inside, Waiting
<1>5. \A u \in Tasks : u # t => task[u].pc \notin Inside
  BY <1>1, <1>4 DEF Inv, OneInside
<1>6. ~activated
  BY <1>1 DEF Inv, InstallsAsleep
<1>7. WaitTogether'
  BY <1>1, <1>2, <1>3, <1>4 DEF Inv, WaitTogether
<1>8. OneInside'
  BY <1>3, <1>5 DEF OneInside
<1>9. InstallsAsleep'
  BY <1>1, <1>2, <1>3, <1>4, <1>5, <1>6 DEF InstallsAsleep
<1>10. ActiveInMap'
  BY <1>1, <1>6 DEF ActiveInMap
<1> QED BY <1>7, <1>8, <1>9, <1>10 DEF Orderly

LEMMA BuildOrderly ==
  ASSUME Inv, NEW t \in Tasks, Build(t)
  PROVE  Orderly'
<1> DEFINE record == [task[t] EXCEPT !.pc = "built", !.stamp = now]
<1>1. /\ Becomes(t, record) /\ task[t].pc = "building"
      /\ lockMap' = lockMap /\ chain' = chain /\ activated' = activated
  BY DEF Build, Is
<1>2. record.pc = "built" /\ record.lock = task[t].lock /\ record.stamp = now /\ now > 0
  BY LifecycleAssumption DEF Inv, TypeOK, Record
<1> HIDE DEF record
<1>3. task'[t] = record /\ \A u \in Tasks : u # t => task'[u] = task[u]
  BY <1>1, BecomesThat DEF Inv
<1>4. "building" \in Inside /\ "building" \in Waiting
  BY DEF Inside, Waiting
<1>5. ~activated
  BY <1>1 DEF Inv, InstallsAsleep
<1>6. WaitTogether'
  BY <1>1, <1>2, <1>3, <1>4 DEF Inv, WaitTogether
<1>7. OneInside'
  BY <1>1, <1>3, <1>4 DEF Inv, OneInside
<1>8. InstallsAsleep'
  BY <1>1, <1>2, <1>3, <1>5 DEF Inv, InstallsAsleep
<1>9. ActiveInMap'
  BY <1>1, <1>5 DEF ActiveInMap
<1> QED BY <1>6, <1>7, <1>8, <1>9 DEF Orderly

LEMMA InsertOrderly ==
  ASSUME Inv, NEW t \in Tasks, Insert(t)
  PROVE  Orderly'
<1> DEFINE record == [task[t] EXCEPT !.pc = "inserted", !.object = "current",
                                     !.pinned = FALSE]
<1>1. /\ task' = [u \in Tasks |-> IF u = t THEN record ELSE Outdate(task[u])]
      /\ task[t].pc = "built" /\ lockMap' = lockMap
      /\ chain' = ChainState(task[t].pinned, TRUE)
  BY DEF Insert, Is
<1>2. /\ record.pc = "inserted" /\ record.lock = task[t].lock
      /\ record.object = "current" /\ record.stamp = task[t].stamp
  BY DEF Inv, TypeOK, Record
<1> HIDE DEF record
<1>3. /\ task'[t] = record
      /\ \A u \in Tasks : u # t => task'[u].pc = task[u].pc /\ task'[u].lock = task[u].lock
  BY <1>1, OutdatedTyped DEF Inv, TypeOK
<1>4. {"replacing", "building", "built", "inserted"} \subseteq Inside /\ Inside \subseteq Waiting
  BY DEF Inside, Waiting
<1>5. \A u \in Tasks : u # t => task[u].pc \notin Inside
  BY <1>1, <1>4 DEF Inv, OneInside
<1>6. task[t].stamp > 0
  BY <1>1 DEF Inv, InstallsAsleep
<1>7. WaitTogether'
  BY <1>1, <1>2, <1>3, <1>4 DEF Inv, WaitTogether
<1>8. OneInside'
  BY <1>3, <1>5 DEF OneInside
<1>9. InstallsAsleep'
  BY <1>2, <1>3, <1>4, <1>5, <1>6 DEF InstallsAsleep
<1>10. ActiveInMap'
  <2>1. chain'.installed
    BY <1>1 DEF ChainState, Absent
  <2> QED BY <1>2, <1>3, <2>1 DEF ActiveInMap
<1> QED BY <1>7, <1>8, <1>9, <1>10 DEF Orderly

LEMMA StoreLastOrderly ==
  ASSUME Inv, NEW t \in Tasks, StoreLast(t)
  PROVE  Orderly'
<1> DEFINE record == [task[t] EXCEPT !.pc = "evicting", !.stamp = 0]
<1>1. /\ Becomes(t, record) /\ task[t].pc = "inserted"
      /\ Through(t, [chain EXCEPT !.last = task[t].stamp])
      /\ lockMap' = lockMap /\ activated' = activated
  BY DEF StoreLast, Is
<1>2. record.pc = "evicting" /\ record.lock = task[t].lock
  BY DEF Inv, TypeOK, Record
<1> HIDE DEF record
<1>3. task'[t] = record /\ \A u \in Tasks : u # t => task'[u] = task[u]
  BY <1>1, BecomesThat DEF Inv
<1>4. "inserted" \in Inside /\ "inserted" \in Waiting
  BY DEF Inside, Waiting
<1>5. task[t].object = "current" /\ task[t].stamp > 0
  BY <1>1 DEF Inv, InstallsAsleep
<1>6. chain'.installed = chain.installed /\ chain'.last > 0
  BY <1>1, <1>5 DEF Through, Inv, TypeOK, State
<1>7. WaitTogether'
  BY <1>1, <1>2, <1>3, <1>4 DEF Inv, WaitTogether
<1>8. OneInside'
  BY <1>1, <1>3, <1>4 DEF Inv, OneInside
<1>9. InstallsAsleep'
  BY <1>1, <1>2, <1>3 DEF Inv, InstallsAsleep
<1>10. ActiveInMap'
  BY <1>1, <1>6 DEF Inv, ActiveInMap
<1> QED BY <1>7, <1>8, <1>9, <1>10 DEF Orderly

-----------------------------------------------------------------------------
(* A sweep that is about to mark the chain read an old second. *)

Marking == {"demoting", "marking"}

SweepsStale ==
  \A t \in Sweepers :
    task[t].pc \in Marking =>
      \/ task[t].purpose = "idle" /\ now - task[t].stamp > IdleSeconds
      \/ task[t].purpose = "lru" /\ now - task[t].stamp >= Grace

(* A step that leads its task elsewhere than to the mark.                  *)
LEMMA StaleKept ==
  ASSUME SweepsStale, now' = now, NEW t \in Tasks,
         task'[t].pc \notin Marking,
         \A u \in Tasks : u # t => /\ task'[u].pc = task[u].pc
                                   /\ task'[u].purpose = task[u].purpose
                                   /\ task'[u].stamp = task[u].stamp
  PROVE  SweepsStale'
BY DEF SweepsStale, Tasks

LEMMA StaleMoved ==
  ASSUME TypeOK, SweepsStale, now' = now, NEW t \in Tasks,
         NEW record, Becomes(t, record), record.pc \notin Marking
  PROVE  SweepsStale'
BY BecomesThat, StaleKept

LEMMA SweepStale ==
  ASSUME TypeOK, SweepsStale, NEW t \in Tasks,
         SweepIdle(t) \/ SweepLRU(t) \/ SweepForOther(t)
  PROVE  SweepsStale'
<1>1. ASSUME NEW reason, Sweep(t, reason),
             \/ reason = "idle" /\ now - chain.last > IdleSeconds
             \/ reason = "lru" /\ now - chain.last >= Grace
      PROVE  SweepsStale'
  <2> DEFINE record == [Done EXCEPT !.pc = "demoting", !.purpose = reason,
                                    !.stamp = chain.last]
  <2>1. Becomes(t, record) /\ now' = now
    BY <1>1 DEF Sweep
  <2>2. record.purpose = reason /\ record.stamp = chain.last
    BY DEF Done
  <2> HIDE DEF record
  <2>3. task'[t] = record /\ \A u \in Tasks : u # t => task'[u] = task[u]
    BY <2>1, BecomesThat
  <2> QED BY <1>1, <2>1, <2>2, <2>3 DEF SweepsStale, Tasks
<1> QED BY <1>1 DEF SweepIdle, SweepLRU, SweepForOther

LEMMA DemoteStale ==
  ASSUME TypeOK, SweepsStale, NEW t \in Tasks, DemoteStep(t)
  PROVE  SweepsStale'
<1>0. task[t] \in Record
  BY DEF TypeOK
<1>1. Done.pc \notin Marking /\ Demoted(t).pc \notin Marking
  BY DEF Done, Demoted, Marking
<1>2. CASE DemoteLooks(t)
  <2> DEFINE record == [task[t] EXCEPT !.pc = "marking", !.object = "current"]
  <2>1. /\ Becomes(t, record) \/ Becomes(t, Demoted(t))
        /\ task[t].pc = "demoting" /\ now' = now
    BY <1>2 DEF DemoteLooks, Holds, Is
  <2>2. record.purpose = task[t].purpose /\ record.stamp = task[t].stamp
    BY <1>0 DEF Record
  <2> HIDE DEF record
  <2>3. CASE Becomes(t, record)
    <3>1. task'[t] = record /\ \A u \in Tasks : u # t => task'[u] = task[u]
      BY <2>3, BecomesThat
    <3>2. "demoting" \in Marking
      BY DEF Marking
    <3> QED BY <2>1, <2>2, <3>1, <3>2 DEF SweepsStale, Tasks
  <2> QED BY <1>1, <2>1, <2>3, StaleMoved
<1>3. CASE Mark(t)
  <2> DEFINE record == [task[t] EXCEPT !.pc = "clearing", !.stamp = 0]
  <2>1. (Becomes(t, record) \/ Becomes(t, Demoted(t))) /\ now' = now
    BY <1>3 DEF Mark
  <2>2. record.pc \notin Marking
    BY <1>0 DEF Record, Marking
  <2> HIDE DEF record
  <2> QED BY <1>1, <2>1, <2>2, StaleMoved
<1>4. CASE Clear(t)
  BY <1>1, <1>4, StaleMoved DEF Clear
<1> QED BY <1>2, <1>3, <1>4 DEF DemoteStep

LEMMA ResolveStale ==
  ASSUME TypeOK, SweepsStale, NEW t \in Tasks,
         Request(t) \/ ResolveStep(t) \/ Enter(t) \/ GiveUp(t)
  PROVE  SweepsStale'
<1>0. task[t] \in Record
  BY DEF TypeOK
<1>1. \A record \in Record : Resolved(record).pc \notin Marking
  BY DEF Resolved, Done, Record, Marking
<1>2. CASE Request(t)
  <2> DEFINE record == [Done EXCEPT !.pc = "resolving", !.purpose = "serve"]
  <2>1. record.pc \notin Marking
    BY DEF Done, Marking
  <2> QED BY <1>2, <2>1, StaleMoved DEF Request
<1>3. CASE Touch(t)
  BY <1>0, <1>1, <1>3, StaleMoved DEF Touch
<1>4. CASE LookDisabled(t) \/ DropLock(t)
  <2> DEFINE found == [task[t] EXCEPT !.object = "current"]
             dropped == [task[t] EXCEPT !.lock = NoLock]
  <2>1. found \in Record /\ dropped \in Record
    BY <1>0 DEF Record
  <2>2. now' = now /\ (Becomes(t, Resolved(found)) \/ Becomes(t, Resolved(dropped)))
    BY <1>4 DEF LookDisabled, DropLock
  <2> HIDE DEF found, dropped
  <2> QED BY <1>1, <2>1, <2>2, StaleMoved
<1>5. CASE Remove(t) \/ Insert(t)
  <2>1. /\ now' = now /\ task'[t].pc \in {"building", "inserted"}
        /\ \A u \in Tasks : u # t => task'[u] = Outdate(task[u])
    BY <1>0, <1>5 DEF Remove, Insert, Record
  <2>2. \A u \in Tasks : u # t => /\ task'[u].pc = task[u].pc
                                  /\ task'[u].purpose = task[u].purpose
                                  /\ task'[u].stamp = task[u].stamp
    BY <2>1 DEF TypeOK, Outdate, Record
  <2>3. task'[t].pc \notin Marking
    BY <2>1 DEF Marking
  <2> QED BY <2>1, <2>2, <2>3, StaleKept
<1>7. CASE LookServes(t) \/ Enter(t) \/ TouchMet(t) \/ MeetSleeping(t)
           \/ Evicted(t) \/ Unlock(t) \/ CleanUp(t)
  <2>1. /\ now' = now
        /\ \E place \in {"found", "inside", "unlocking", "replacing", "building",
                         "cleaning", "dropping"} : Goes(t, place) \/ Holds(t, place)
    BY <1>7 DEF LookServes, Enter, TouchMet, MeetSleeping, Evicted, Unlock, CleanUp
  <2>2. PICK place \in {"found", "inside", "unlocking", "replacing", "building",
                        "cleaning", "dropping"} : Goes(t, place) \/ Holds(t, place)
    BY <2>1
  <2>3. /\ [task[t] EXCEPT !.pc = place].pc \notin Marking
        /\ [task[t] EXCEPT !.pc = place, !.object = "current"].pc \notin Marking
    BY <1>0, <2>2 DEF Record, Marking
  <2> QED BY <2>1, <2>2, <2>3, StaleMoved DEF Goes, Holds
<1>8. CASE LookSleeping(t)
  <2> DEFINE lock == IF lockMap = NoLock THEN FreeLock ELSE lockMap
             record == [task[t] EXCEPT !.pc = "locking", !.lock = lock,
                                       !.pinned = IsPinned]
  <2>1. Becomes(t, record) /\ now' = now
    BY <1>8 DEF LookSleeping
  <2>2. record.pc \notin Marking
    BY <1>0 DEF Record, Marking
  <2> HIDE DEF record
  <2> QED BY <2>1, <2>2, StaleMoved
<1>9. CASE MeetActive(t)
  <2> DEFINE record == [task[t] EXCEPT !.pc = "met", !.object = "current",
                                       !.pinned = FALSE]
  <2>1. record.pc \notin Marking
    BY <1>0 DEF Record, Marking
  <2> QED BY <1>9, <2>1, StaleMoved DEF MeetActive
<1>10. CASE Build(t)
  <2> DEFINE record == [task[t] EXCEPT !.pc = "built", !.stamp = now]
  <2>1. record.pc \notin Marking
    BY <1>0 DEF Record, Marking
  <2> QED BY <1>10, <2>1, StaleMoved DEF Build
<1>11. CASE StoreLast(t)
  <2> DEFINE record == [task[t] EXCEPT !.pc = "evicting", !.stamp = 0]
  <2>1. record.pc \notin Marking
    BY <1>0 DEF Record, Marking
  <2> QED BY <1>11, <2>1, StaleMoved DEF StoreLast
<1>12. CASE GiveUp(t)
  <2> DEFINE unlocks == [task[t] EXCEPT !.pc = "unlocking", !.object = "none",
                                        !.pinned = FALSE, !.stamp = 0]
             cleans == [task[t] EXCEPT !.pc = "cleaning", !.pinned = FALSE]
  <2>1. unlocks.pc \notin Marking /\ cleans.pc \notin Marking
    BY <1>0 DEF Record, Marking
  <2>2. now' = now /\ (Becomes(t, unlocks) \/ Becomes(t, cleans))
    BY <1>12 DEF GiveUp
  <2> HIDE DEF unlocks, cleans
  <2> QED BY <2>1, <2>2, StaleMoved
<1> QED
  BY <1>2, <1>3, <1>4, <1>5, <1>7, <1>8, <1>9, <1>10, <1>11, <1>12 DEF ResolveStep

LEMMA CommandStale ==
  ASSUME TypeOK, SweepsStale, NEW t \in Tasks,
         CommandStep(t) \/ \E command \in Commands : Command(t, command)
  PROVE  SweepsStale'
<1>0. task[t] \in Record
  BY DEF TypeOK
<1>1. Done.pc \notin Marking /\ Answer.pc \notin Marking
  BY DEF Done, Answer, Marking
<1>2. ASSUME NEW command \in Commands, Command(t, command)
      PROVE  SweepsStale'
  <2>1. \E record : Becomes(t, record)
    BY <1>2 DEF Command
  <2>2. \A u \in Tasks : u # t => task'[u] = task[u]
    BY <2>1, BecomesThat
  <2>3. t \notin Sweepers /\ now' = now
    BY <1>2, LifecycleAssumption DEF Command
  <2> QED BY <2>2, <2>3 DEF SweepsStale, Tasks
<1>3. CASE SetDisabled(t) \/ TouchUnpinned(t) \/ StoreAutoPin(t)
  <2>1. now' = now /\ (Becomes(t, Answer) \/ Becomes(t, Done))
    BY <1>3 DEF SetDisabled, TouchUnpinned, StoreAutoPin
  <2> QED BY <1>1, <2>1, StaleMoved
<1>4. CASE SetRuntimePin(t) \/ StorePinned(t)
  <2> DEFINE stores == [task[t] EXCEPT !.pc = "storing"]
             touches == [task[t] EXCEPT !.pc = "unpinned"]
  <2>1. stores.pc \notin Marking /\ touches.pc \notin Marking
    BY <1>0 DEF Record, Marking
  <2>2. now' = now /\ (Becomes(t, stores) \/ Becomes(t, touches) \/ Becomes(t, Answer))
    BY <1>4 DEF SetRuntimePin, StorePinned, Goes
  <2> HIDE DEF stores, touches
  <2> QED BY <1>1, <2>1, <2>2, StaleMoved
<1>5. CASE SetAutoPin(t)
  <2> DEFINE record == [task[t] EXCEPT !.pc = "autoStoring", !.object = "current"]
  <2>1. record.pc \notin Marking
    BY <1>0 DEF Record, Marking
  <2>2. now' = now /\ (Becomes(t, record) \/ Becomes(t, Answer) \/ Becomes(t, Done))
    BY <1>5 DEF SetAutoPin, Holds
  <2> HIDE DEF record
  <2> QED BY <1>1, <2>1, <2>2, StaleMoved
<1> QED BY <1>2, <1>3, <1>4, <1>5 DEF CommandStep

LEMMA RefreshStale ==
  ASSUME TypeOK, SweepsStale, NEW t \in Tasks, RefreshStep(t)
  PROVE  SweepsStale'
<1> DEFINE starts == [Done EXCEPT !.pc = "installing", !.purpose = "refresh"]
           installs == [task[t] EXCEPT !.pc = "repinning", !.object = "current",
                                       !.pinned = IsPinned]
           merges == [task[t] EXCEPT !.pc = "merging", !.pinned = FALSE]
<1>1. /\ starts.pc \notin Marking /\ installs.pc \notin Marking
      /\ merges.pc \notin Marking /\ Done.pc \notin Marking
  BY DEF TypeOK, Done, Record, Marking
<1>2. \/ Becomes(t, starts) \/ Becomes(t, installs) \/ Becomes(t, merges)
      \/ Becomes(t, Done)
  BY DEF RefreshStep, Refresh, RefreshInstalls, RefreshPins, RefreshMerges
<1>3. now' = now
  BY DEF RefreshStep, Refresh, RefreshInstalls, RefreshPins, RefreshMerges
<1> HIDE DEF starts, installs, merges
<1> QED BY <1>1, <1>2, <1>3, StaleMoved

LEMMA SweepsStaleStep ==
  ASSUME TypeOK, SweepsStale, [Next]_vars
  PROVE  SweepsStale'
<1>1. CASE Tick
  <2>1. now' = now + 1 /\ task' = task
    BY <1>1 DEF Tick
  <2>2. now \in Nat /\ IdleSeconds \in Nat /\ Grace \in Nat
        /\ \A t \in Sweepers : task[t].stamp \in Nat
    BY LifecycleAssumption DEF TypeOK, Record, Tasks
  <2> QED BY <2>1, <2>2 DEF SweepsStale
<1>2. CASE UNCHANGED vars
  BY <1>2 DEF vars, SweepsStale
<1> QED
  BY <1>1, <1>2, ResolveStale, SweepStale, DemoteStale, CommandStale, RefreshStale
     DEF Next

-----------------------------------------------------------------------------
(* The theorems. *)

LEMMA InvInit ==
  ASSUME Init
  PROVE  Inv
<1>1. now = 1 /\ MaxTime \in Nat \ {0} /\ MaxCommands \in Nat /\ ConfigPinned \in BOOLEAN
  BY LifecycleAssumption DEF Init
<1>2. Absent \in State /\ Absent.last = 0
  BY <1>1 DEF Absent, State
<1>3. ChainState(TRUE, TRUE) \in State /\ ChainState(TRUE, TRUE).last = 0
  <2>1. ChainState(TRUE, TRUE) = [Absent EXCEPT !.installed = TRUE, !.pinned = TRUE,
                                                !.pool = TRUE]
    BY DEF ChainState
  <2> QED BY ONLY <1>2, <2>1 DEF State
<1>4. chain \in State /\ chain.last = 0
  BY <1>2, <1>3 DEF Init
<1>5. Done \in Record
  BY <1>1 DEF Done, Record, Place, Purpose
<1>6. \A t \in Tasks : task[t] = Done
  BY DEF Init
<1>7. Done.stamp = 0 /\ Done.pc = "idle"
  BY DEF Done
<1>8. TypeOK
  <2>1. task \in [Tasks -> Record]
    BY <1>5 DEF Init
  <2>2. /\ lockMap \in Locks \cup {NoLock}
        /\ runtimePin \in {"unset", "pinned", "unpinned"}
    BY DEF Init
  <2>4. autoPin \in BOOLEAN /\ activated \in BOOLEAN
    BY DEF Init
  <2>5. commands \in 0..MaxCommands
    BY <1>1 DEF Init
  <2>3. now \in 1..MaxTime /\ chain.last <= now
    BY <1>1, <1>4
  <2> QED BY <1>1, <1>4, <2>1, <2>2, <2>3, <2>4, <2>5 DEF TypeOK
<1>9. StampsPast
  BY <1>1, <1>6, <1>7 DEF StampsPast
<1>10. "idle" \notin Waiting /\ "idle" \notin Inside
  BY DEF Waiting, Inside
<1>11. WaitTogether /\ OneInside /\ InstallsAsleep
  BY <1>6, <1>7, <1>10 DEF WaitTogether, OneInside, InstallsAsleep
<1>12. ActiveInMap
  BY DEF Init, ActiveInMap
<1> QED BY <1>8, <1>9, <1>11, <1>12 DEF Inv

LEMMA InvStep ==
  ASSUME Inv, [Next]_vars
  PROVE  Inv'
<1>1. TypeOK' /\ StampsPast'
  BY TypeStep DEF Inv
<1>2. Orderly'
  <2>1. ASSUME NEW t \in Tasks, ResolveStep(t)
        PROVE  Orderly'
    BY <2>1, AwayOrderly, LookSleepingOrderly, HoldersOrderly, MeetSleepingOrderly,
       RemoveOrderly, BuildOrderly, InsertOrderly, StoreLastOrderly, CleanUpOrderly
       DEF ResolveStep
  <2>2. CASE Tick \/ UNCHANGED vars
    <3>1. UNCHANGED <<task, chain, lockMap, activated>>
      BY <2>2 DEF Tick, vars
    <3> QED BY <3>1 DEF Inv, Orderly, WaitTogether, OneInside, InstallsAsleep, ActiveInMap
  <2> QED
    BY <2>1, <2>2, AwayOrderly, EnterOrderly, HoldersOrderly, CommandOrderly,
       RefreshOrderly DEF Next
<1> QED BY <1>1, <1>2 DEF Inv, Orderly

LEMMA InvHolds == Spec => []Inv
BY InvInit, InvStep, PTL DEF Spec

(* Every variable keeps its type, however many tasks there are.            *)
THEOREM TypesHold == Spec => []TypeOK
<1>1. Inv => TypeOK
  BY DEF Inv
<1> QED BY <1>1, InvHolds, PTL

(* The activation lock excludes, although who waits for it may create it   *)
(* anew and who leaves it may remove it from the map (registry.rs,         *)
(* resolve_for_request and ActivationLockCleanup).                         *)
THEOREM LockExcludes == Spec => []OneInside
<1>1. Inv => OneInside
  BY DEF Inv
<1> QED BY <1>1, InvHolds, PTL

(* The mutex in the map is never replaced under those who wait for it or   *)
(* hold it: an activation removes the entry only when nobody else has it.  *)
THEOREM LockStaysInMap == Spec => []WaitTogether
<1>1. Inv => WaitTogether
  BY DEF Inv
<1> QED BY <1>1, InvHolds, PTL

(* The endpoints of an activation are thrown away by no other activation:  *)
(* materialize inserts a state only if the chain was demoted since the     *)
(* last one, whatever commands, sweeps and refreshes come between.         *)
THEOREM ActivatedOnce == Spec => OneActivation
<1>1. ASSUME Inv
      PROVE  \A t \in Tasks : Insert(t) => ~activated
  BY <1>1 DEF Inv, InstallsAsleep, Insert, Is
<1>2. Inv /\ [Next]_vars => [\A t \in Tasks : Insert(t) => ~activated]_vars
  BY <1>1
<1> QED BY <1>2, InvHolds, PTL DEF OneActivation, Spec

(* No sweep takes the endpoints of a chain that was asked for lately: the  *)
(* mark compares the second it read with the one that is stored, so that a *)
(* touch in between saves the chain (registry.rs, demote_if_unchanged).    *)
THEOREM SweepsSpareRecent == Spec => RecentNotDemoted
<1> DEFINE Spared(t) ==
      Mark(t) /\ chain.last > 0 /\ chain'.last = 0 =>
        \/ task[t].purpose = "idle" /\ now - chain.last > IdleSeconds
        \/ task[t].purpose = "lru" /\ now - chain.last >= Grace
<1>1. Init => SweepsStale
  BY DEF Init, Done, SweepsStale, Marking, Tasks
<1>2. TypeOK /\ SweepsStale /\ [Next]_vars => SweepsStale'
  BY SweepsStaleStep
<1>3. ASSUME SweepsStale, NEW t \in Sweepers PROVE Spared(t)
  <2>1. SUFFICES ASSUME Mark(t), chain.last > 0, chain'.last = 0
                 PROVE  \/ task[t].purpose = "idle" /\ now - chain.last > IdleSeconds
                        \/ task[t].purpose = "lru" /\ now - chain.last >= Grace
    OBVIOUS
  <2>2. chain.last = task[t].stamp
    <3>1. chain' # chain
      BY <2>1
    <3> QED BY <2>1, <3>1 DEF Mark, Through
  <2>3. task[t].pc \in Marking
    BY <2>1 DEF Mark, Is, Marking
  <2> QED BY <1>3, <2>2, <2>3 DEF SweepsStale
<1>4. TypeOK /\ SweepsStale /\ [Next]_vars => [\A t \in Sweepers : Spared(t)]_vars
  BY <1>3
<1> QED BY <1>1, <1>2, <1>4, TypesHold, PTL DEF Spec, RecentNotDemoted

=============================================================================
