----------------------------- MODULE UpstreamProofs -----------------------------
(* The parts that ask the upstreams, whatever the constants: the probes of *)
(* endpoints and candidates, the refresh of the chain list, the cache; and *)
(* the configuration.                                                      *)
EXTENDS Parts, Sequences, FiniteSetTheorems, WellFoundedInduction, TLAPS

-----------------------------------------------------------------------------
(* The queue of probes (ProbeScheduler), for any endpoints, chains,        *)
(* capacity and workers.                                                   *)

(* An instance has names of its own for what it takes from FiniteSets.     *)
LEMMA SchedulerCounts == \A S : Scheduler!Cardinality(S) = Cardinality(S)
BY DEF Cardinality, Scheduler!Cardinality

Phases == {"none", "begin", "call", "ended", "scheduled"}

Holds == pool = Scheduler!Waiting \/ \E u \in Urls : pool = [at |-> "mark", got |-> {u}]

(* No endpoint is twice in the queue, and none in two of the three places  *)
(* between its entry and the end of its probe. With the keys equal to what *)
(* is there, an endpoint whose key is missing can be sent, and only one    *)
(* whose probe ends loses its key.                                         *)
Apart ==
  /\ \A i, j \in DOMAIN queue : queue[i] = queue[j] => i = j
  /\ Scheduler!Queued \cap pool.got = {}
  /\ Scheduler!Queued \cap Scheduler!Active = {}
  /\ pool.got \cap Scheduler!Active = {}

QueueInv ==
  /\ queue \in Seq(Urls)
  /\ probe \in [Urls -> Phases]
  /\ Holds
  /\ Apart
  /\ queued = Scheduler!Queued \cup pool.got \cup Scheduler!Active

-----------------------------------------------------------------------------
(* What comes last in the queue, and what leaves it.                       *)
LEMMA AppendDistinct ==
  ASSUME NEW S, NEW s \in Seq(S), NEW x \in S,
         \A i, j \in DOMAIN s : s[i] = s[j] => i = j,
         \A i \in DOMAIN s : s[i] # x
  PROVE  LET t == Append(s, x) IN
         /\ t \in Seq(S)
         /\ {t[i] : i \in DOMAIN t} = {s[i] : i \in DOMAIN s} \cup {x}
         /\ \A i, j \in DOMAIN t : t[i] = t[j] => i = j
<1>. DEFINE t == Append(s, x)
<1>1. /\ t \in Seq(S) /\ Len(t) = Len(s) + 1 /\ Len(s) \in Nat
      /\ DOMAIN t = 1..(Len(s) + 1) /\ DOMAIN s = 1..Len(s)
      /\ t[Len(s) + 1] = x
  OBVIOUS
<1>2. \A i \in 1..Len(s) : t[i] = s[i]
  OBVIOUS
<1>3. \A i \in DOMAIN t : i \in DOMAIN s \/ i = Len(s) + 1
  BY <1>1
<1>4. {t[i] : i \in DOMAIN t} = {s[i] : i \in DOMAIN s} \cup {x}
  BY <1>1, <1>2, <1>3
<1>5. \A i, j \in DOMAIN t : t[i] = t[j] => i = j
  BY <1>1, <1>2, <1>3
<1>. QED
  BY <1>1, <1>4, <1>5

LEMMA TailDistinct ==
  ASSUME NEW S, NEW s \in Seq(S), s # <<>>,
         \A i, j \in DOMAIN s : s[i] = s[j] => i = j
  PROVE  LET t == Tail(s) IN
         /\ t \in Seq(S) /\ Head(s) \in S
         /\ {t[i] : i \in DOMAIN t} = {s[i] : i \in DOMAIN s} \ {Head(s)}
         /\ \A i, j \in DOMAIN t : t[i] = t[j] => i = j
<1>. DEFINE t == Tail(s)
<1>1. /\ t \in Seq(S) /\ Len(s) \in Nat \ {0} /\ Len(t) = Len(s) - 1
      /\ DOMAIN t = 1..(Len(s) - 1) /\ DOMAIN s = 1..Len(s)
      /\ Head(s) = s[1] /\ Head(s) \in S
  OBVIOUS
<1>2. \A i \in DOMAIN t : t[i] = s[i + 1] /\ i + 1 \in DOMAIN s
  BY <1>1
<1>3. \A j \in DOMAIN s : j # 1 => j - 1 \in DOMAIN t /\ t[j - 1] = s[j]
  BY <1>1, <1>2
<1>4. {t[i] : i \in DOMAIN t} = {s[i] : i \in DOMAIN s} \ {Head(s)}
  <2>1. ASSUME NEW i \in DOMAIN t
        PROVE  t[i] \in {s[j] : j \in DOMAIN s} \ {Head(s)}
    <3>1. i + 1 # 1 /\ 1 \in DOMAIN s
      BY <1>1
    <3>. QED
      BY <1>1, <1>2, <3>1
  <2>2. ASSUME NEW j \in DOMAIN s, s[j] # Head(s)
        PROVE  s[j] \in {t[i] : i \in DOMAIN t}
    BY <1>1, <1>3, <2>2
  <2>. QED
    BY <2>1, <2>2
<1>5. \A i, j \in DOMAIN t : t[i] = t[j] => i = j
  BY <1>1, <1>2
<1>. QED
  BY <1>1, <1>4, <1>5

(* An injective sequence has as many elements as it is long.               *)
LEMMA DistinctCount ==
  ASSUME NEW S, NEW s \in Seq(S), \A i, j \in DOMAIN s : s[i] = s[j] => i = j
  PROVE  /\ IsFiniteSet({s[i] : i \in DOMAIN s})
         /\ Cardinality({s[i] : i \in DOMAIN s}) = Len(s)
<1>. DEFINE T == {s[i] : i \in DOMAIN s}
            f == [i \in 1..Len(s) |-> s[i]]
<1>1. Len(s) \in Nat /\ DOMAIN s = 1..Len(s)
  OBVIOUS
<1>2. f \in Bijection(1..Len(s), T)
  <2>1. f \in [1..Len(s) -> T]
    BY <1>1
  <2>2. \A i, j \in 1..Len(s) : f[i] = f[j] => i = j
    BY <1>1
  <2>3. \A y \in T : \E i \in 1..Len(s) : f[i] = y
    BY <1>1
  <2>. QED
    BY <2>1, <2>2, <2>3, Zenon DEF Bijection, Injection, IsInjective, Surjection
<1>3. ExistsBijection(1..Len(s), T)
  BY <1>2 DEF ExistsBijection
<1>4. IsFiniteSet(1..Len(s)) /\ Cardinality(1..Len(s)) = Len(s)
  BY <1>1, FS_Interval
<1>. QED
  BY <1>3, <1>4, FS_Bijection

-----------------------------------------------------------------------------
LEMMA QueueStarts == Scheduler!Init => QueueInv
<1>. SUFFICES ASSUME Scheduler!Init PROVE QueueInv
  OBVIOUS
<1>. USE DEF Scheduler!Init
<1>1. queue = <<>> /\ DOMAIN queue = {} /\ Scheduler!Queued = {} /\ Scheduler!Active = {}
  BY DEF Scheduler!Queued, Scheduler!Active
<1>2. pool = Scheduler!Waiting /\ pool.got = {}
  BY DEF Scheduler!Waiting
<1>3. probe \in [Urls -> Phases]
  BY DEF Phases
<1>. QED
  BY <1>1, <1>2, <1>3 DEF QueueInv, Apart, Holds

(* What touches neither the queue nor the places behind it.                *)
LEMMA QueueUntouched ==
  ASSUME QueueInv, UNCHANGED <<queue, queued, pool, probe>>
  PROVE  QueueInv'
<1>1. Scheduler!Queued' = Scheduler!Queued /\ Scheduler!Active' = Scheduler!Active
  BY DEF Scheduler!Queued, Scheduler!Active
<1>. QED
  BY <1>1 DEF QueueInv, Apart, Holds

LEMMA TrySendKeeps ==
  ASSUME QueueInv, NEW u \in Urls, Scheduler!TrySend(u)
  PROVE  QueueInv'
<1>1. /\ u \notin Scheduler!Queued \cup pool.got \cup Scheduler!Active
      /\ queue' = Append(queue, u) /\ queued' = queued \cup {u}
      /\ pool' = pool /\ probe' = probe
  BY DEF QueueInv, Scheduler!TrySend
<1>2. \A i \in DOMAIN queue : queue[i] # u
  BY <1>1 DEF Scheduler!Queued
<1>3. /\ queue' \in Seq(Urls)
      /\ Scheduler!Queued' = Scheduler!Queued \cup {u}
      /\ \A i, j \in DOMAIN queue' : queue'[i] = queue'[j] => i = j
  BY <1>1, <1>2, AppendDistinct DEF QueueInv, Apart, Scheduler!Queued
<1>4. Scheduler!Active' = Scheduler!Active
  BY <1>1 DEF Scheduler!Active
<1>5. Apart'
  BY <1>1, <1>3, <1>4 DEF QueueInv, Apart
<1>. QED
  BY <1>1, <1>3, <1>4, <1>5 DEF QueueInv, Holds

LEMMA ReceiveKeeps ==
  ASSUME QueueInv, Scheduler!Receive
  PROVE  QueueInv'
<1>1. /\ queue # <<>> /\ queue' = Tail(queue)
      /\ pool' = [at |-> "mark", got |-> {Head(queue)}]
      /\ probe' = probe /\ queued' = queued
  BY DEF Scheduler!Receive
<1>2. pool.got = {}
  BY DEF QueueInv, Holds, Scheduler!Receive, Scheduler!Waiting
<1>3. /\ queue' \in Seq(Urls) /\ Head(queue) \in Urls
      /\ Scheduler!Queued' = Scheduler!Queued \ {Head(queue)}
      /\ \A i, j \in DOMAIN queue' : queue'[i] = queue'[j] => i = j
  BY <1>1, TailDistinct DEF QueueInv, Apart, Scheduler!Queued
<1>4. Head(queue) \in Scheduler!Queued
  BY <1>1 DEF QueueInv, Scheduler!Queued
<1>5. pool'.got = {Head(queue)} /\ Scheduler!Active' = Scheduler!Active
  BY <1>1 DEF Scheduler!Active
<1>6. Apart'
  BY <1>3, <1>4, <1>5 DEF QueueInv, Apart
<1>7. Holds'
  BY <1>1, <1>3 DEF Holds
<1>. QED
  BY <1>1, <1>2, <1>3, <1>4, <1>5, <1>6, <1>7 DEF QueueInv

LEMMA MarkReceivedKeeps ==
  ASSUME QueueInv, Scheduler!MarkReceived
  PROVE  QueueInv'
<1>1. /\ queue' = queue /\ queued' = queued /\ pool' = Scheduler!Waiting
      /\ probe' = [u \in Urls |-> IF u \in pool.got THEN "begin" ELSE probe[u]]
  BY DEF Scheduler!MarkReceived
<1>2. pool.got \subseteq Urls
  BY DEF QueueInv, Holds, Scheduler!Waiting
<1>3. Scheduler!Active' = Scheduler!Active \cup pool.got
  BY <1>1, <1>2 DEF Scheduler!Active
<1>4. Scheduler!Queued' = Scheduler!Queued /\ pool'.got = {}
  BY <1>1 DEF Scheduler!Queued, Scheduler!Waiting
<1>5. probe' \in [Urls -> Phases]
  BY <1>1 DEF QueueInv, Phases
<1>6. Apart'
  BY <1>1, <1>3, <1>4 DEF QueueInv, Apart
<1>. QED
  BY <1>1, <1>3, <1>4, <1>5, <1>6 DEF QueueInv, Holds

(* A probe that goes on stays active, and its key stays.                   *)
LEMMA ProbeGoesOn ==
  ASSUME QueueInv, NEW u \in Urls, NEW p \in Phases \ {"none"}, probe[u] # "none",
         probe' = [probe EXCEPT ![u] = p], UNCHANGED <<queue, queued, pool>>
  PROVE  QueueInv'
<1>1. Scheduler!Active' = Scheduler!Active
  BY DEF QueueInv, Scheduler!Active
<1>2. Scheduler!Queued' = Scheduler!Queued
  BY DEF Scheduler!Queued
<1>3. probe' \in [Urls -> Phases]
  BY DEF QueueInv
<1>. QED
  BY <1>1, <1>2, <1>3 DEF QueueInv, Apart, Holds

LEMMA CompleteKeeps ==
  ASSUME QueueInv, NEW u \in Urls, Scheduler!Complete(u)
  PROVE  QueueInv'
<1>1. /\ probe[u] = "scheduled" /\ probe' = [probe EXCEPT ![u] = "none"]
      /\ queued' = queued \ {u} /\ queue' = queue /\ pool' = pool
  BY DEF Scheduler!Complete
<1>2. u \in Scheduler!Active /\ Scheduler!Active' = Scheduler!Active \ {u}
  BY <1>1 DEF QueueInv, Scheduler!Active
<1>3. Scheduler!Queued' = Scheduler!Queued
  BY <1>1 DEF Scheduler!Queued
<1>4. probe' \in [Urls -> Phases]
  BY <1>1 DEF QueueInv, Phases
<1>5. Apart'
  BY <1>1, <1>2, <1>3 DEF QueueInv, Apart
<1>. QED
  BY <1>1, <1>2, <1>3, <1>4, <1>5 DEF QueueInv, Apart, Holds

LEMMA QueueKept == QueueInv /\ [Scheduler!Next]_(Scheduler!vars) => QueueInv'
<1>. SUFFICES ASSUME QueueInv, [Scheduler!Next]_(Scheduler!vars) PROVE QueueInv'
  OBVIOUS
<1>1. ASSUME NEW c \in Chains, Scheduler!Activate(c) \/ Scheduler!Demote(c)
      PROVE  QueueInv'
  BY <1>1, QueueUntouched DEF Scheduler!Activate, Scheduler!Demote
<1>2. CASE Scheduler!SchedulerStep
  <2>1. CASE \/ Scheduler!ScheduleDueProbes \/ Scheduler!ProcessKick
             \/ Scheduler!NoMoreKicks \/ Scheduler!AddDepth
    BY <2>1, QueueUntouched DEF Scheduler!ScheduleDueProbes, Scheduler!ProcessKick,
       Scheduler!NoMoreKicks, Scheduler!AddDepth
  <2>2. ASSUME NEW u \in Urls, Scheduler!AlreadyQueued(u) \/ Scheduler!QueueFull(u)
        PROVE  QueueInv'
    BY <2>2, QueueUntouched DEF Scheduler!AlreadyQueued, Scheduler!QueueFull
  <2>3. ASSUME NEW u \in Urls, Scheduler!TrySend(u)
        PROVE  QueueInv'
    BY <2>3, TrySendKeeps
  <2>. QED
    BY <1>2, <2>1, <2>2, <2>3 DEF Scheduler!SchedulerStep
<1>3. CASE Scheduler!PoolStep
  BY <1>3, ReceiveKeeps, MarkReceivedKeeps DEF Scheduler!PoolStep
<1>4. ASSUME NEW u \in Urls, Scheduler!TaskStep(u)
      PROVE  QueueInv'
  <2>1. CASE Scheduler!ProbeBegins(u)
    BY <2>1, ProbeGoesOn DEF Scheduler!ProbeBegins, Phases
  <2>2. CASE Scheduler!ScheduleAfterCompletion(u)
    BY <2>2, ProbeGoesOn DEF Scheduler!ScheduleAfterCompletion, Phases
  <2>3. CASE Scheduler!Complete(u)
    BY <2>3, CompleteKeeps
  <2>. QED
    BY <1>4, <2>1, <2>2, <2>3 DEF Scheduler!TaskStep
<1>5. ASSUME NEW u \in Urls, Scheduler!ProbeEnds(u)
      PROVE  QueueInv'
  BY <1>5, ProbeGoesOn DEF Scheduler!ProbeEnds, Phases
<1>6. ASSUME NEW u \in Urls, Scheduler!Cool(u) \/ Scheduler!TimePasses(u)
      PROVE  QueueInv'
  BY <1>6, QueueUntouched DEF Scheduler!Cool, Scheduler!TimePasses,
     Scheduler!CooldownRunsOut, Scheduler!BecomesDue
<1>7. CASE UNCHANGED Scheduler!vars
  BY <1>7, QueueUntouched DEF Scheduler!vars
<1>8. CASE Scheduler!Next
  BY <1>1, <1>2, <1>3, <1>4, <1>5, <1>6, <1>8 DEF Scheduler!Next
<1>. QED
  BY <1>7, <1>8

-----------------------------------------------------------------------------
LEMMA ApartCount ==
  ASSUME NEW S, NEW T, IsFiniteSet(S), IsFiniteSet(T), S \cap T = {}
  PROVE  IsFiniteSet(S \cup T) /\ Cardinality(S \cup T) = Cardinality(S) + Cardinality(T)
<1>1. Cardinality(S) \in Nat /\ Cardinality(T) \in Nat /\ Cardinality(S \cap T) = 0
  BY FS_CardinalityType, FS_EmptySet
<1>2. /\ IsFiniteSet(S \cup T)
      /\ Cardinality(S \cup T) = Cardinality(S) + Cardinality(T) - Cardinality(S \cap T)
  BY FS_Union
<1>. QED
  BY <1>1, <1>2

(* Three places that share nothing hold as many endpoints as their sizes   *)
(* say; at most one is between queue and task.                             *)
LEMMA PlacesCount ==
  ASSUME QueueInv
  PROVE  QueuedOnce
<1>. DEFINE Q == Scheduler!Queued
            A == Scheduler!Active
<1>1. IsFiniteSet(Q) /\ Cardinality(Q) = Len(queue) /\ Len(queue) \in Nat
  <2>1. queue \in Seq(Urls) /\ \A i, j \in DOMAIN queue : queue[i] = queue[j] => i = j
    BY DEF QueueInv, Apart
  <2>2. /\ IsFiniteSet({queue[i] : i \in DOMAIN queue})
        /\ Cardinality({queue[i] : i \in DOMAIN queue}) = Len(queue)
    BY <2>1, DistinctCount
  <2>. QED
    BY <2>1, <2>2 DEF Scheduler!Queued
<1>2. IsFiniteSet(pool.got)
  <2>1. pool.got = {} \/ \E u \in Urls : pool.got = {u}
    BY DEF QueueInv, Holds, Scheduler!Waiting
  <2>. QED
    BY <2>1, FS_EmptySet, FS_Singleton
<1>3. IsFiniteSet(A)
  BY FS_Subset, SchedulerAssumption DEF Scheduler!Active
<1>4. Q \cap pool.got = {} /\ (Q \cup pool.got) \cap A = {} /\ queued = (Q \cup pool.got) \cup A
  BY DEF QueueInv, Apart
<1>. HIDE DEF Q, A
<1>5. /\ IsFiniteSet(Q \cup pool.got)
      /\ Cardinality(Q \cup pool.got) = Cardinality(Q) + Cardinality(pool.got)
  BY <1>1, <1>2, <1>4, ApartCount
<1>6. Cardinality(queued) = Cardinality(Q \cup pool.got) + Cardinality(A)
  BY <1>3, <1>4, <1>5, ApartCount
<1>7. Cardinality(queued) = Len(queue) + Cardinality(pool.got) + Cardinality(A)
  BY <1>1, <1>5, <1>6
<1>. QED
  BY <1>4, <1>7, SchedulerCounts DEF QueuedOnce, Scheduler!QueuedOnce, Q, A

(* Each endpoint is queued or probed once, exactly when its key is in the  *)
(* set, for any finite set of endpoints, any chains, and any capacity of   *)
(* the queue and number of workers (probe.rs enqueue, CompletionGuard).    *)
THEOREM QueuedOnceTheorem == Scheduler!Spec => []QueuedOnce
<1>1. QueueInv => QueuedOnce
  BY PlacesCount
<1>. QED
  BY <1>1, QueueStarts, QueueKept, PTL DEF Scheduler!Spec

-----------------------------------------------------------------------------
(* The refresh of the chain list (ChainlistRefresh), for any refreshers,   *)
(* versions and faults.                                                    *)

(* A refresher that holds the flag is the only one between the request and *)
(* its end, and it asked with the ETag the loader still has: an answer 304 *)
(* is about the catalog in memory.                                         *)
Between == {"asking", "persist", "remember"}

ListTypes ==
  /\ DOMAIN loader = {"etag", "last"}
  /\ DOMAIN task = Refreshers
  /\ \A t \in Refreshers : DOMAIN task[t] = {"at", "etag", "version", "fresh"}

HoldsFlag ==
  \A t \in Refreshers : task[t].at \in Between => flag = t

AsksForMemory ==
  \A t \in Refreshers : task[t].at = "asking" => task[t].etag = loader.etag

ListInv == ListTypes /\ HoldsFlag /\ AsksForMemory /\ EtagIsOfCatalog

LEMMA ListStarts == List!Init => ListInv
BY DEF List!Init, List!Idle, ListInv, ListTypes, HoldsFlag, AsksForMemory, Between,
       EtagIsOfCatalog, List!EtagIsOfCatalog

(* One refresher goes on, outside of the flag or in it as before.          *)
LEMMA RefresherGoesOn ==
  ASSUME ListInv, NEW t \in Refreshers, NEW q,
         task' = [task EXCEPT ![t] = q], DOMAIN q = {"at", "etag", "version", "fresh"},
         q.at \in Between => flag' = t /\ (flag = t \/ flag = List!Free),
         q.at = "asking" => q.etag = loader.etag,
         flag' \in {flag, t} \/ flag = t \/ flag = List!Free,
         flag' = flag \/ flag \in {t, List!Free},
         loader' = loader
  PROVE  ListInv'
<1>1. /\ task'[t] = q /\ DOMAIN task' = Refreshers
      /\ \A s \in Refreshers \ {t} : task'[s] = task[s]
  BY DEF ListInv, ListTypes
<1>2. List!Free \notin Refreshers
  BY ListAssumption DEF List!Free
<1>3. HoldsFlag'
  BY <1>1, <1>2 DEF ListInv, HoldsFlag
<1>. QED
  BY <1>1, <1>3 DEF ListInv, ListTypes, AsksForMemory, EtagIsOfCatalog, List!EtagIsOfCatalog

LEMMA RefreshKeeps ==
  ASSUME ListInv, NEW t \in Refreshers,
         \/ List!Begin(t) \/ List!NotModified(t) \/ List!Modified(t)
         \/ List!PersistCache(t) \/ List!Fallback(t) \/ List!Gone(t)
  PROVE  ListInv'
<1>. DEFINE old == task[t]
<1>1. DOMAIN old = {"at", "etag", "version", "fresh"} /\ DOMAIN task = Refreshers
      /\ (old.at \in Between => flag = t) /\ t # List!Free
  BY ListAssumption DEF ListInv, ListTypes, HoldsFlag, List!Free
<1>2. CASE List!Begin(t)
  <2>. DEFINE q == [List!Idle EXCEPT !.at = "asking", !.etag = loader.etag]
  <2>1. DOMAIN q = {"at", "etag", "version", "fresh"} /\ q.at = "asking" /\ q.etag = loader.etag
    BY DEF List!Idle
  <2>2. task' = [task EXCEPT ![t] = q] /\ flag = List!Free /\ flag' = t /\ loader' = loader
    BY <1>2 DEF List!Begin
  <2>. HIDE DEF q
  <2>. QED
    BY <2>1, <2>2, RefresherGoesOn
<1>3. CASE List!NotModified(t) \/ List!Fallback(t)
  <2>1. PICK fresh \in BOOLEAN : task' = [task EXCEPT ![t] = List!Loaded(loader.last, fresh)]
    BY <1>3 DEF List!NotModified, List!Fallback, List!Ends
  <2>. DEFINE q == List!Loaded(loader.last, fresh)
  <2>2. DOMAIN q = {"at", "etag", "version", "fresh"} /\ q.at = "loaded"
    BY DEF List!Loaded
  <2>3. flag = t /\ flag' = List!Free /\ loader' = loader
    BY <1>1, <1>3 DEF List!NotModified, List!Fallback, List!Ends, Between
  <2>. HIDE DEF q
  <2>. QED
    BY <2>1, <2>2, <2>3, RefresherGoesOn DEF q, Between
<1>4. CASE List!Modified(t)
  <2>. DEFINE q == [old EXCEPT !.at = "persist", !.version = published]
  <2>1. DOMAIN q = {"at", "etag", "version", "fresh"} /\ q.at = "persist"
    BY <1>1
  <2>2. task' = [task EXCEPT ![t] = q]
    BY <1>1, <1>4 DEF List!Modified
  <2>3. flag = t /\ flag' = flag /\ loader' = loader
    BY <1>1, <1>4 DEF List!Modified, Between
  <2>. HIDE DEF q
  <2>. QED
    BY <2>1, <2>2, <2>3, RefresherGoesOn
<1>5. CASE List!PersistCache(t)
  <2>. DEFINE q == [old EXCEPT !.at = "remember"]
  <2>1. DOMAIN q = {"at", "etag", "version", "fresh"} /\ q.at = "remember"
    BY <1>1
  <2>2. task' = [task EXCEPT ![t] = q]
    BY <1>1, <1>5 DEF List!PersistCache
  <2>3. flag = t /\ flag' = flag /\ loader' = loader
    BY <1>1, <1>5 DEF List!PersistCache, Between
  <2>. HIDE DEF q
  <2>. QED
    BY <2>1, <2>2, <2>3, RefresherGoesOn
<1>6. CASE List!Gone(t)
  <2>1. DOMAIN List!Idle = {"at", "etag", "version", "fresh"} /\ List!Idle.at = "idle"
    BY DEF List!Idle
  <2>2. task' = [task EXCEPT ![t] = List!Idle] /\ loader' = loader
        /\ flag' = IF flag = t THEN List!Free ELSE flag
    BY <1>6 DEF List!Gone
  <2>. QED
    BY <2>1, <2>2, RefresherGoesOn DEF Between
<1>. QED
  BY <1>2, <1>3, <1>4, <1>5, <1>6

(* The loader takes over the version it persisted, and the ETag with it:   *)
(* nobody else is asking meanwhile.                                        *)
LEMMA RememberKeeps ==
  ASSUME ListInv, NEW t \in Refreshers, List!Remember(t)
  PROVE  ListInv'
<1>. DEFINE v == task[t].version
            q == List!Loaded(v, TRUE)
<1>1. flag = t /\ flag' = List!Free /\ task' = [task EXCEPT ![t] = q]
      /\ loader' = [etag |-> v, last |-> v]
  BY DEF List!Remember, List!Ends, ListInv, HoldsFlag, Between
<1>2. DOMAIN q = {"at", "etag", "version", "fresh"} /\ q.at = "loaded"
  BY DEF List!Loaded
<1>. HIDE DEF q, v
<1>3. /\ task'[t] = q /\ DOMAIN task' = Refreshers
      /\ \A s \in Refreshers \ {t} : task'[s] = task[s]
  BY <1>1 DEF ListInv, ListTypes
<1>4. \A s \in Refreshers : task'[s].at \notin Between
  BY <1>1, <1>2, <1>3 DEF ListInv, HoldsFlag, Between
<1>5. ListTypes'
  BY <1>1, <1>2, <1>3 DEF ListInv, ListTypes
<1>6. EtagIsOfCatalog'
  BY <1>1 DEF EtagIsOfCatalog, List!EtagIsOfCatalog
<1>. QED
  BY <1>4, <1>5, <1>6 DEF ListInv, HoldsFlag, AsksForMemory, Between

(* Storing and applying happen without the flag.                           *)
LEMMA ApplyKeeps ==
  ASSUME ListInv, NEW t \in Refreshers,
         \/ List!Store(t) \/ List!StoreFails(t) \/ List!StaleIsNotStored(t)
         \/ List!SetCatalog(t) \/ List!ApplySnapshot(t)
  PROVE  ListInv'
<1>. DEFINE old == task[t]
            stores == [old EXCEPT !.at = "stored"]
            sets == [old EXCEPT !.at = "set"]
<1>1. DOMAIN old = {"at", "etag", "version", "fresh"} /\ DOMAIN task = Refreshers
  BY DEF ListInv, ListTypes
<1>2. /\ DOMAIN stores = {"at", "etag", "version", "fresh"} /\ stores.at = "stored"
      /\ DOMAIN sets = {"at", "etag", "version", "fresh"} /\ sets.at = "set"
      /\ DOMAIN List!Idle = {"at", "etag", "version", "fresh"} /\ List!Idle.at = "idle"
  BY <1>1 DEF List!Idle
<1>3. /\ flag' = flag /\ loader' = loader
      /\ \/ task' = [task EXCEPT ![t] = stores]
         \/ task' = [task EXCEPT ![t] = sets]
         \/ task' = [task EXCEPT ![t] = List!Idle]
  BY DEF List!Store, List!StoreFails, List!StaleIsNotStored, List!SetCatalog, List!ApplySnapshot
<1>. HIDE DEF stores, sets
<1>. QED
  BY <1>2, <1>3, RefresherGoesOn DEF Between

LEMMA RestartKeeps ==
  ASSUME ListInv, List!Restart
  PROVE  ListInv'
<1>1. PICK v, etag : List!Booted(v, etag) /\ (etag = v \/ etag = List!None)
  BY DEF List!Restart, List!BootFromNetwork, List!BootFromFallback
<1>2. DOMAIN List!Idle = {"at", "etag", "version", "fresh"} /\ List!Idle.at = "idle"
  BY DEF List!Idle
<1>3. /\ loader' = [etag |-> etag, last |-> v]
      /\ task' = [t \in Refreshers |-> List!Idle]
  BY <1>1 DEF List!Booted
<1>. QED
  BY <1>1, <1>2, <1>3 DEF ListInv, ListTypes, HoldsFlag, AsksForMemory, Between,
     EtagIsOfCatalog, List!EtagIsOfCatalog

LEMMA ListKept == ListInv /\ [List!Next]_(List!vars) => ListInv'
<1>. SUFFICES ASSUME ListInv, [List!Next]_(List!vars) PROVE ListInv'
  OBVIOUS
<1>1. CASE List!Publish \/ UNCHANGED List!vars
  BY <1>1 DEF List!Publish, List!vars, ListInv, ListTypes, HoldsFlag, AsksForMemory,
     EtagIsOfCatalog, List!EtagIsOfCatalog
<1>2. CASE List!Restart
  BY <1>2, RestartKeeps
<1>3. ASSUME NEW t \in Refreshers,
             List!Begin(t) \/ List!Work(t) \/ List!Fallback(t) \/ List!StoreFails(t) \/ List!Gone(t)
      PROVE  ListInv'
  BY <1>3, RefreshKeeps, RememberKeeps, ApplyKeeps DEF List!Work
<1>. QED
  BY <1>1, <1>2, <1>3 DEF List!Next

(* chainlist.rs fetch_network: the ETag that is kept, and sent, is that of *)
(* the catalog in memory, whatever fails and whoever is gone or restarts.  *)
THEOREM EtagTheorem == List!Spec => []EtagIsOfCatalog
<1>1. ListInv => EtagIsOfCatalog
  BY DEF ListInv
<1>. QED
  BY <1>1, ListStarts, ListKept, PTL DEF List!Spec

(* chainlist.rs refresh: while a refresher waits for the publisher, nobody *)
(* else changes what the loader holds, so that an answer 304 stands for    *)
(* the catalog that is in memory when it comes.                            *)
THEOREM AsksForMemoryTheorem == List!Spec => [](HoldsFlag /\ AsksForMemory)
<1>1. ListInv => HoldsFlag /\ AsksForMemory
  BY DEF ListInv
<1>. QED
  BY <1>1, ListStarts, ListKept, PTL DEF List!Spec

-----------------------------------------------------------------------------
(* The archive probe (ArchiveProbe), for any depths, chain and faults.     *)

(* The probe of a height the chain has, and past the near phase a block    *)
(* that is too old for a full node.                                        *)
ReadingSound(q) ==
  /\ DOMAIN q = {"at", "height", "block", "step", "phase", "balance"}
  /\ q.at # "idle" => q.height \in Nat /\ MinHead <= q.height /\ q.height <= top
  /\ q.phase \in {"near", "far"} /\ (q.at = "balance" => q.phase = "near")
  /\ q.at \in {"block", "trace"} =>
       /\ q.block \in Int
       /\ q.phase = "far" => q.block <= Archive!Far(q.height)
       /\ node.genesis = node.archive => q.balance \in {"inconclusive", Archive!Truth}

ArchiveInv ==
  /\ node \in Archive!Nodes /\ (node.archive => node.genesis /\ node.bodies)
  /\ top \in Nat
  /\ ReadingSound(reading)
  /\ VerdictIsTrue

LEMMA ArchiveNumbers ==
  /\ RecentDepth \in Nat /\ TraceLookback \in Nat /\ BlockWalk \in Nat
  /\ MinHead \in Nat /\ Interval \in Nat /\ Window \in Nat
  /\ Window <= TraceLookback /\ Window < MinHead
BY ArchiveAssumption

(* What goes wrong on the way says nothing of the node.                    *)
LEMMA FaultyTellsNothing ==
  \A a \in Archive!Faulty : /\ Archive!ClassifyArchiveResponse(a) = "inconclusive"
                            /\ Archive!ClassifyTraceResponse(a) = "inconclusive"
<1>. SUFFICES ASSUME NEW a \in Archive!Faulty
              PROVE  /\ Archive!ClassifyArchiveResponse(a) = "inconclusive"
                     /\ Archive!ClassifyTraceResponse(a) = "inconclusive"
  OBVIOUS
<1>1. /\ a.html = TRUE \/ a.html = FALSE
      /\ \/ a.status \in {429, 500} \/ a.html \/ a.body \in {"garbage", "otherId"}
         \/ a.body \in {"quota", "apiKey", "other", "null"}
  BY DEF Archive!Faulty, Archive!Lost, Archive!Refusals, Archive!Garbled, Archive!Answer
<1>. QED
  BY <1>1 DEF Archive!ClassifyArchiveResponse, Archive!ClassifyTraceResponse, Archive!Unusable,
     Archive!IsHistoricalStateUnavailable, Archive!IsDebugUnsupported

(* An honest answer about the first block says what it is asked, where     *)
(* block 1 tells; one about an old block only what is true.                *)
LEMMA HonestTells ==
  ASSUME node \in Archive!Nodes, node.archive => node.genesis /\ node.bodies, NEW b
  PROVE  /\ node.genesis = node.archive =>
              Archive!ClassifyArchiveResponse(Archive!HonestBalance) = Archive!Truth
         /\ Archive!ClassifyTraceResponse(Archive!HonestBlock(b)) = "pruned" => ~node.archive
         /\ Archive!ClassifyTraceResponse(Archive!HonestTrace(b)) = "pruned" => ~node.archive
         /\ Archive!ClassifyTraceResponse(Archive!HonestTrace(b)) = "ok" => Archive!Keeps(b)
<1>. USE DEF Archive!Answer, Archive!Unusable, Archive!IsHistoricalStateUnavailable,
             Archive!IsDebugUnsupported
<1>1. node.genesis \in BOOLEAN /\ node.archive \in BOOLEAN
  BY DEF Archive!Nodes
<1>2. node.genesis = node.archive =>
        Archive!ClassifyArchiveResponse(Archive!HonestBalance) = Archive!Truth
  BY <1>1 DEF Archive!ClassifyArchiveResponse, Archive!HonestBalance, Archive!Truth
<1>3. Archive!ClassifyTraceResponse(Archive!HonestBlock(b)) = "pruned" => ~node.archive
  BY DEF Archive!ClassifyTraceResponse, Archive!HonestBlock, Archive!Keeps
<1>4. /\ Archive!ClassifyTraceResponse(Archive!HonestTrace(b)) = "pruned" => ~Archive!Keeps(b)
      /\ Archive!ClassifyTraceResponse(Archive!HonestTrace(b)) = "ok" => Archive!Keeps(b)
  BY DEF Archive!ClassifyTraceResponse, Archive!HonestTrace
<1>. QED
  BY <1>2, <1>3, <1>4 DEF Archive!Keeps

(* A full node does not keep what the far phase reads.                     *)
LEMMA FarIsGone ==
  ASSUME ArchiveInv, reading.at \in {"block", "trace"}, reading.phase = "far",
         Archive!Keeps(reading.block)
  PROVE  node.archive
<1>1. /\ reading.block \in Int /\ reading.height \in Nat /\ top \in Nat
      /\ reading.block <= Archive!Far(reading.height)
      /\ MinHead <= reading.height /\ reading.height <= top
  BY DEF ArchiveInv, ReadingSound
<1>2. reading.block <= top - Window
  BY <1>1, ArchiveNumbers DEF Archive!Far, Archive!AtLeastOne
<1>. QED
  BY <1>1, <1>2, ArchiveNumbers DEF Archive!Keeps

LEMMA ArchiveStarts == Archive!Init => ArchiveInv
<1>. SUFFICES ASSUME Archive!Init PROVE ArchiveInv
  OBVIOUS
<1>1. node \in Archive!Nodes /\ (node.archive => node.genesis /\ node.bodies)
  BY DEF Archive!Init
<1>2. top \in Nat
  BY ArchiveNumbers DEF Archive!Init
<1>3. ReadingSound(reading)
  BY DEF Archive!Init, Archive!Idle, ReadingSound
<1>. QED
  BY <1>1, <1>2, <1>3 DEF ArchiveInv, VerdictIsTrue, Archive!VerdictIsTrue, Archive!Init

LEMMA IdleSound == ReadingSound(Archive!Idle) /\ Archive!Idle.at = "idle"
BY DEF ReadingSound, Archive!Idle

(* The probe goes on, or the chain.                                        *)
LEMMA ReadingGoesOn ==
  ASSUME ArchiveInv, node' = node, archive' = archive, top' \in Nat, top <= top',
         ReadingSound(reading')
  PROVE  ArchiveInv'
<1>1. top \in Nat
  BY DEF ArchiveInv
<1>2. ReadingSound(reading)'
  BY <1>1, ArchiveNumbers DEF ReadingSound, Archive!Far, Archive!AtLeastOne, Archive!Truth
<1>. QED
  BY <1>2 DEF ArchiveInv, VerdictIsTrue, Archive!VerdictIsTrue, Archive!Truth, Archive!Nodes

(* A conclusion from verdicts that are true.                               *)
LEMMA ConcludeKeeps ==
  ASSUME ArchiveInv, node' = node, top' = top, NEW balance, NEW trace,
         Archive!Conclude(balance, trace),
         node.genesis = node.archive => balance \in {"inconclusive", Archive!Truth},
         trace = "archive" => node.archive,
         trace = "fullNode" => ~node.archive
  PROVE  ArchiveInv'
<1>1. reading' = Archive!Idle
  BY DEF Archive!Conclude, Archive!Touch
<1>2. VerdictIsTrue'
  BY DEF ArchiveInv, Archive!Conclude, Archive!ResolveArchiveClass, VerdictIsTrue,
     Archive!VerdictIsTrue, Archive!Truth
<1>3. ReadingSound(reading)'
  BY <1>1, IdleSound DEF ReadingSound
<1>. QED
  BY <1>2, <1>3 DEF ArchiveInv, Archive!Nodes

LEMMA KnowsKeeps ==
  ASSUME ArchiveInv, node' = node, top' = top, reading.at = "balance", NEW balance,
         Archive!Knows(balance),
         node.genesis = node.archive => balance \in {"inconclusive", Archive!Truth}
  PROVE  ArchiveInv'
<1>1. CASE Archive!Near(reading.height) <= Archive!Far(reading.height)
  BY <1>1, ConcludeKeeps DEF Archive!Knows
<1>2. CASE ~(Archive!Near(reading.height) <= Archive!Far(reading.height))
  <2>. DEFINE q == [reading EXCEPT !.at = "block", !.block = Archive!Near(reading.height),
                                   !.balance = balance]
  <2>1. reading' = q /\ archive' = archive
    BY <1>2 DEF Archive!Knows
  <2>2. /\ reading.phase = "near" /\ reading.height \in Nat /\ top \in Nat
        /\ DOMAIN reading = {"at", "height", "block", "step", "phase", "balance"}
        /\ MinHead <= reading.height /\ reading.height <= top
    BY DEF ArchiveInv, ReadingSound
  <2>3. Archive!Near(reading.height) \in Int
    BY <2>2, ArchiveNumbers DEF Archive!Near, Archive!AtLeastOne
  <2>4. /\ DOMAIN q = DOMAIN reading /\ q.at = "block" /\ q.height = reading.height
        /\ q.block = Archive!Near(reading.height) /\ q.phase = "near" /\ q.balance = balance
    BY <2>2
  <2>. HIDE DEF q
  <2>5. ReadingSound(q)
    BY <2>2, <2>3, <2>4 DEF ReadingSound
  <2>6. top \in Nat /\ top <= top'
    BY <2>2
  <2>. QED
    BY <2>1, <2>5, <2>6, ReadingGoesOn
<1>. QED
  BY <1>1, <1>2

(* What a read that comes to a class makes of the probe.                   *)
LEMMA TracedKeeps ==
  ASSUME ArchiveInv, node' = node, top' = top, reading.at \in {"block", "trace"}, NEW class,
         Archive!Traced(class),
         class = "pruned" => ~node.archive,
         class = "ok" /\ reading.phase = "far" => node.archive
  PROVE  ArchiveInv'
<1>1. /\ reading.height \in Nat /\ top \in Nat /\ top <= top'
      /\ DOMAIN reading = {"at", "height", "block", "step", "phase", "balance"}
      /\ MinHead <= reading.height /\ reading.height <= top
      /\ node.genesis = node.archive => reading.balance \in {"inconclusive", Archive!Truth}
  BY DEF ArchiveInv, ReadingSound
<1>2. CASE reading.phase = "near" /\ class = "ok"
  <2>. DEFINE q == [reading EXCEPT !.at = "block", !.phase = "far", !.step = 0,
                                   !.block = Archive!Far(reading.height)]
  <2>1. reading' = q /\ archive' = archive
    BY <1>2 DEF Archive!Traced, Archive!NearTraced
  <2>2. /\ DOMAIN q = DOMAIN reading /\ q.at = "block" /\ q.height = reading.height
        /\ q.block = Archive!Far(reading.height) /\ q.phase = "far"
        /\ q.balance = reading.balance
    BY <1>1
  <2>3. Archive!Far(reading.height) \in Int /\ Archive!Far(reading.height) <= Archive!Far(reading.height)
    BY <1>1, ArchiveNumbers DEF Archive!Far, Archive!AtLeastOne
  <2>. HIDE DEF q
  <2>4. ReadingSound(q)
    BY <1>1, <2>2, <2>3 DEF ReadingSound
  <2>. QED
    BY <1>1, <2>1, <2>4, ReadingGoesOn
<1>3. CASE reading.phase = "near" /\ class # "ok"
  <2>1. Archive!Conclude(reading.balance,
          IF class = "unsupported" THEN "unavailable" ELSE "inconclusive")
    BY <1>3 DEF Archive!Traced, Archive!NearTraced
  <2>. QED
    BY <1>1, <2>1, ConcludeKeeps
<1>4. CASE reading.phase # "near"
  <2>. DEFINE trace == CASE class = "ok" -> "archive"
                         [] class = "pruned" -> "fullNode"
                         [] OTHER -> "inconclusive"
  <2>1. Archive!Conclude(reading.balance, trace)
    BY <1>4 DEF Archive!Traced, Archive!FarTraced
  <2>2. (trace = "archive" => node.archive) /\ (trace = "fullNode" => ~node.archive)
    <3>1. reading.phase = "far"
      BY <1>4 DEF ArchiveInv, ReadingSound
    <3>. QED
      BY <3>1
  <2>. HIDE DEF trace
  <2>. QED
    BY <1>1, <2>1, <2>2, ConcludeKeeps
<1>. QED
  BY <1>2, <1>3, <1>4

(* Each way to read a block: the class of an answer that may be a fault is *)
(* true of the node.                                                       *)
LEMMA BlockReadKeeps ==
  ASSUME ArchiveInv, Archive!BlockRead
  PROVE  ArchiveInv'
<1>1. /\ reading.at = "block" /\ UNCHANGED <<node, top>>
      /\ DOMAIN reading = {"at", "height", "block", "step", "phase", "balance"}
      /\ reading.block \in Int /\ top \in Nat /\ top <= top'
  BY DEF Archive!BlockRead, ArchiveInv, ReadingSound
<1>2. PICK a \in {Archive!HonestBlock(reading.block)} \cup Archive!Faulty :
        LET class == Archive!ClassifyTraceResponse(a)
            found == class = "ok" /\ a.body = "object" /\ reading.block \notin empty
            goesOn == class = "ok" \/ (class = "inconclusive" /\ ~Archive!HasResult(a))
        IN IF class = "pruned" THEN Archive!Traced("pruned")
           ELSE IF found THEN reading' = [reading EXCEPT !.at = "trace"] /\ UNCHANGED <<archive, age>>
           ELSE IF goesOn /\ ~Archive!LastBlock THEN Archive!WalkBack
           ELSE Archive!Traced("inconclusive")
  BY DEF Archive!BlockRead
<1>3. CASE Archive!ClassifyTraceResponse(a) = "pruned" /\ Archive!Traced("pruned")
  <2>1. ~node.archive
    <3>1. a = Archive!HonestBlock(reading.block)
      BY <1>3, FaultyTellsNothing
    <3>. QED
      BY <1>3, <3>1, HonestTells DEF ArchiveInv
  <2>. QED
    BY <1>1, <1>3, <2>1, TracedKeeps
<1>4. CASE Archive!Traced("inconclusive")
  BY <1>1, <1>4, TracedKeeps
<1>5. CASE reading' = [reading EXCEPT !.at = "trace"] /\ UNCHANGED <<archive, age>>
  <2>. DEFINE q == [reading EXCEPT !.at = "trace"]
  <2>1. /\ DOMAIN q = DOMAIN reading /\ q.at = "trace" /\ q.height = reading.height
        /\ q.block = reading.block /\ q.phase = reading.phase /\ q.balance = reading.balance
    BY <1>1
  <2>. HIDE DEF q
  <2>2. ReadingSound(q)
    BY <1>1, <2>1 DEF ArchiveInv, ReadingSound
  <2>. QED
    BY <1>1, <1>5, <2>2, ReadingGoesOn DEF q
<1>6. CASE Archive!WalkBack
  <2>. DEFINE q == [reading EXCEPT !.block = @ - 1, !.step = @ + 1]
  <2>1. /\ DOMAIN q = DOMAIN reading /\ q.at = "block" /\ q.height = reading.height
        /\ q.block = reading.block - 1 /\ q.phase = reading.phase /\ q.balance = reading.balance
    BY <1>1
  <2>2. reading' = q /\ archive' = archive
    BY <1>6 DEF Archive!WalkBack
  <2>. HIDE DEF q
  <2>3. Archive!Far(reading.height) \in Int
    BY <1>1, ArchiveNumbers DEF ArchiveInv, ReadingSound, Archive!Far, Archive!AtLeastOne
  <2>4. ReadingSound(q)
    BY <1>1, <2>1, <2>3 DEF ArchiveInv, ReadingSound
  <2>. QED
    BY <1>1, <2>2, <2>4, ReadingGoesOn
<1>. QED
  BY <1>2, <1>3, <1>4, <1>5, <1>6

LEMMA TraceReadKeeps ==
  ASSUME ArchiveInv, Archive!TraceRead
  PROVE  ArchiveInv'
<1>1. reading.at = "trace" /\ UNCHANGED <<node, top>>
  BY DEF Archive!TraceRead
<1>2. PICK a \in {Archive!HonestTrace(reading.block)} \cup Archive!Faulty :
        LET class == Archive!ClassifyTraceResponse(a)
        IN Archive!Traced(IF class = "ok" /\ a.body # "object" THEN "inconclusive" ELSE class)
  BY DEF Archive!TraceRead
<1>. DEFINE class == Archive!ClassifyTraceResponse(a)
            read == IF class = "ok" /\ a.body # "object" THEN "inconclusive" ELSE class
<1>3. (class = "pruned" => ~node.archive) /\ (class = "ok" => Archive!Keeps(reading.block))
  BY FaultyTellsNothing, HonestTells DEF ArchiveInv
<1>4. /\ read = "pruned" => ~node.archive
      /\ read = "ok" /\ reading.phase = "far" => node.archive
  <2>. HIDE DEF class
  <2>. QED
    BY <1>1, <1>3, FarIsGone
<1>5. Archive!Traced(read)
  BY <1>2
<1>. HIDE DEF read
<1>. QED
  BY <1>1, <1>4, <1>5, TracedKeeps

LEMMA BalanceReadKeeps ==
  ASSUME ArchiveInv, Archive!BalanceRead \/ Archive!BalanceFails
  PROVE  ArchiveInv'
<1>1. reading.at = "balance" /\ UNCHANGED <<node, top>>
  BY DEF Archive!BalanceRead, Archive!BalanceFails
<1>2. CASE Archive!BalanceFails
  BY <1>1, <1>2, KnowsKeeps DEF Archive!BalanceFails
<1>3. CASE Archive!BalanceRead
  <2>1. PICK a \in {Archive!HonestBalance} \cup Archive!Faulty :
          Archive!Knows(Archive!ClassifyArchiveResponse(a))
    BY <1>3 DEF Archive!BalanceRead
  <2>2. node.genesis = node.archive =>
          Archive!ClassifyArchiveResponse(a) \in {"inconclusive", Archive!Truth}
    BY FaultyTellsNothing, HonestTells DEF ArchiveInv
  <2>. QED
    BY <1>1, <2>1, <2>2, KnowsKeeps
<1>. QED
  BY <1>2, <1>3

LEMMA ArchiveKept == ArchiveInv /\ [Archive!Next]_(Archive!vars) => ArchiveInv'
<1>. SUFFICES ASSUME ArchiveInv, [Archive!Next]_(Archive!vars) PROVE ArchiveInv'
  OBVIOUS
<1>1. ReadingSound(reading) /\ top \in Nat /\ top <= top /\ top + 1 \in Nat /\ top <= top + 1
  BY DEF ArchiveInv
<1>2. CASE \/ Archive!HeadTooLow \/ Archive!NoPermit
  <2>1. reading' = Archive!Idle /\ UNCHANGED <<node, top, archive>>
    BY <1>2 DEF Archive!HeadTooLow, Archive!NoPermit, Archive!Touch
  <2>. QED
    BY <1>1, <2>1, IdleSound, ReadingGoesOn
<1>3. CASE Archive!Begin
  <2>. DEFINE q == [Archive!Idle EXCEPT !.at = "balance", !.height = top]
  <2>1. reading' = q /\ UNCHANGED <<node, top, archive>> /\ top >= MinHead
    BY <1>3 DEF Archive!Begin
  <2>2. ReadingSound(q)
    BY <1>1, <2>1 DEF ReadingSound, Archive!Idle
  <2>. HIDE DEF q
  <2>. QED
    BY <1>1, <2>1, <2>2, ReadingGoesOn
<1>4. CASE Archive!ReadFails
  <2>1. node.genesis = node.archive => reading.balance \in {"inconclusive", Archive!Truth}
    BY <1>4 DEF Archive!ReadFails, ArchiveInv, ReadingSound
  <2>. QED
    BY <1>4, <2>1, ConcludeKeeps DEF Archive!ReadFails
<1>5. CASE Archive!Grow \/ Archive!SecondPasses \/ UNCHANGED Archive!vars
  BY <1>1, <1>5, ReadingGoesOn DEF Archive!Grow, Archive!SecondPasses, Archive!vars
<1>. QED
  BY <1>2, <1>3, <1>4, <1>5, BalanceReadKeeps, BlockReadKeeps, TraceReadKeeps
     DEF Archive!Next, Archive!ProbeStep

(* probe.rs maybe_probe_archive: whatever fails, whichever blocks are      *)
(* empty and however the chain grows, the class that is kept of an         *)
(* endpoint whose block 1 tells is true, for any depths with the window of *)
(* a full node below the look back and the least head.                     *)
THEOREM VerdictTheorem == Archive!Spec => []VerdictIsTrue
<1>1. ArchiveInv => VerdictIsTrue
  BY DEF ArchiveInv
<1>. QED
  BY <1>1, ArchiveStarts, ArchiveKept, PTL DEF Archive!Spec

-----------------------------------------------------------------------------
(* A set of numbers with a bound has a greatest.                           *)
LessThan == {p \in Nat \X Nat : p[1] < p[2]}
LEMMA NatOrder == IsWellFoundedOn(LessThan, Nat)
<1>1. OpToRel(<, Nat) = LessThan
  BY Zenon DEF OpToRel, LessThan
<1>. QED
  BY <1>1, NatLessThanWellFounded, Zenon

LEMMA Least ==
  ASSUME NEW S \in SUBSET Nat, S # {}
  PROVE  \E m \in S : \A n \in S : m <= n
<1>1. PICK m \in S : \A n \in S : ~(<<n, m>> \in LessThan)
  BY NatOrder, WFMin
<1>2. ASSUME NEW n \in S PROVE m <= n
  <2>1. m \in Nat /\ n \in Nat
    OBVIOUS
  <2>2. ~(<<n, m>> \in LessThan)
    BY <1>1
  <2>. QED
    BY <2>1, <2>2 DEF LessThan
<1>. QED
  BY <1>2

LEMMA Greatest ==
  ASSUME NEW S \in SUBSET Nat, S # {}, NEW b \in Nat, \A n \in S : n <= b
  PROVE  \E m \in S : \A n \in S : m >= n
<1>. DEFINE T == {b - n : n \in S}
<1>1. T \in SUBSET Nat
  <2>1. \A n \in S : n \in Nat /\ n <= b
    OBVIOUS
  <2>2. \A n \in S : b - n \in Nat
    BY <2>1
  <2>. QED
    BY <2>2
<1>2. T # {}
  OBVIOUS
<1>3. PICK t \in T : \A u \in T : t <= u
  <2>. HIDE DEF T
  <2>. QED
    BY <1>1, <1>2, Least
<1>4. PICK m \in S : t = b - m
  OBVIOUS
<1>5. ASSUME NEW n \in S PROVE m >= n
  <2>1. n \in Nat /\ m \in Nat /\ b - n \in T
    OBVIOUS
  <2>2. t <= b - n
    BY <1>3, <2>1
  <2>. QED
    BY <1>4, <2>1, <2>2
<1>. QED
  BY <1>5

LEMMA CandidateMax ==
  ASSUME NEW S \in SUBSET Nat, S # {}, NEW b \in Nat, \A n \in S : n <= b
  PROVE  Candidate!Max(S) \in S /\ \A n \in S : Candidate!Max(S) >= n
BY Greatest DEF Candidate!Max

-----------------------------------------------------------------------------
(* The probes of a candidate (CandidateProbe), for any endpoints, sample,  *)
(* tolerance and faults.                                                   *)

LEMMA CandidateCounts == \A S : Candidate!Cardinality(S) = Cardinality(S)
BY DEF Cardinality, Candidate!Cardinality

Kinds == {"honest", "foreign", "stuck", "inventive"}
Places == {"waiting", "chainId", "head", "done"}

(* The head an endpoint may have brought, if its task ended with one.      *)
Brought(u, h) ==
  /\ h \in 0..Ceiling
  /\ kind[u] = "honest" => round.from <= h /\ h <= level
  /\ kind[u] = "stuck" => h = 0
  /\ kind[u] # "foreign"

(* A task of the sample holds no head before its end; an honest endpoint   *)
(* that brought none lost a call.                                          *)
TaskSound(u, q) ==
  /\ q = [at |-> q.at, head |-> q.head] /\ q.at \in Places
  /\ q.at # "waiting" => u \in Candidate!Sampled
  /\ q.at # "done" => q.head = Candidate!None
  /\ q.at = "head" => kind[u] # "foreign"
  /\ q.head # Candidate!None => Brought(u, q.head)
  /\ q.at = "done" /\ q.head = Candidate!None /\ kind[u] = "honest" => u \in round.lost

CandidateTypes ==
  /\ kind \in [Candidates -> Kinds]
  /\ level \in Nat /\ level <= MaxLevel
  /\ DOMAIN round = {"from", "lost", "verdict"}
  /\ round.from \in Nat /\ round.from <= level
  /\ round.verdict \in {"none", "qualified", "refused"}
  /\ DOMAIN prober = Candidates

(* A verdict is that of the heads that are there until the next round.     *)
Verdicts ==
  round.verdict # "none" =>
    /\ \A u \in Candidate!Sampled : prober[u].at = "done"
    /\ round.verdict = "qualified" <=> Candidate!Qualified

CandidateInv ==
  CandidateTypes /\ (\A u \in Candidates : TaskSound(u, prober[u])) /\ Verdicts

LEMMA CandidateNumbers ==
  /\ IsFiniteSet(Candidates)
  /\ MinActive \in Nat /\ Tolerance \in Nat /\ Ceiling \in Nat /\ MaxLevel \in Nat
  /\ Ceiling >= 2 /\ Tolerance < MaxLevel /\ MaxLevel + Tolerance <= Ceiling
BY CandidateAssumption

LEMMA WaitingSound == \A u \in Candidates : TaskSound(u, Candidate!Waiting)
BY DEF TaskSound, Candidate!Waiting, Places

LEMMA CandidateStarts == Candidate!Init => CandidateInv
<1>. SUFFICES ASSUME Candidate!Init PROVE CandidateInv
  OBVIOUS
<1>1. \A u \in Candidates : prober[u] = Candidate!Waiting
  BY DEF Candidate!Init
<1>2. /\ level \in Nat /\ level <= MaxLevel /\ level = Tolerance + 1
      /\ round = [from |-> level, lost |-> {}, verdict |-> "none"]
  BY CandidateNumbers DEF Candidate!Init, Candidate!NewRound
<1>3. kind \in [Candidates -> Kinds]
  BY DEF Candidate!Init, Candidate!Wrong, Kinds
<1>4. CandidateTypes
  BY <1>2, <1>3 DEF CandidateTypes, Candidate!Init
<1>5. Verdicts
  BY <1>2 DEF Verdicts
<1>. QED
  BY <1>1, <1>4, <1>5, WaitingSound DEF CandidateInv

(* A step of one task before the verdict: the others keep what they have,  *)
(* and what is lost stays so.                                              *)
LEMMA TaskGoesOn ==
  ASSUME CandidateInv, NEW u \in Candidates, NEW q,
         prober' = [prober EXCEPT ![u] = q], TaskSound(u, q)',
         round.verdict = "none", UNCHANGED <<kind, level>>,
         \/ round' = round
         \/ round' = [round EXCEPT !.lost = @ \cup {u}]
  PROVE  CandidateInv'
<1>1. /\ DOMAIN round' = {"from", "lost", "verdict"}
      /\ round'.from = round.from /\ round'.verdict = "none" /\ round.lost \subseteq round'.lost
  BY DEF CandidateInv, CandidateTypes
<1>2. /\ prober'[u] = q /\ DOMAIN prober' = Candidates
      /\ \A v \in Candidates \ {u} : prober'[v] = prober[v]
  BY DEF CandidateInv, CandidateTypes
<1>3. CandidateTypes'
  BY <1>1, <1>2 DEF CandidateInv, CandidateTypes
<1>4. ASSUME NEW v \in Candidates \ {u} PROVE TaskSound(v, prober[v])'
  BY <1>1, <1>2, <1>4 DEF CandidateInv, TaskSound, Brought, Candidate!Sampled, Candidate!Before
<1>5. \A v \in Candidates : TaskSound(v, prober[v])'
  BY <1>2, <1>4
<1>. QED
  BY <1>1, <1>3, <1>5 DEF CandidateInv, Verdicts

(* An answer that is no fault passes; any other is lost.                   *)
LEMMA RepliesTell ==
  ASSUME CandidateInv, NEW u, NEW a, Candidate!Replies(u, a)
  PROVE  /\ \/ round' = round
            \/ round' = [round EXCEPT !.lost = @ \cup {u}]
         /\ ~Candidate!Passes(a) => u \in round'.lost
<1>1. Candidate!Passes(Candidate!Answer("quantity"))
  BY DEF Candidate!Passes, Candidate!Answer, Candidate!ClassifyResponse, Candidate!InTime,
     Candidate!Valid, Candidate!Errors, Candidate!IsQuotaMessage, Candidate!IsAuthenticationMessage
<1>2. CASE a = Candidate!Answer("quantity")
  BY <1>1, <1>2 DEF Candidate!Replies
<1>3. CASE a # Candidate!Answer("quantity")
  <2>1. round' = [round EXCEPT !.lost = @ \cup {u}]
    BY <1>3 DEF Candidate!Replies
  <2>. QED
    BY <2>1 DEF CandidateInv, CandidateTypes
<1>. QED
  BY <1>2, <1>3

(* A task that ends with a head, or with none because a call was lost or   *)
(* the endpoint answered for another chain.                                *)
LEMMA ReturnsSound ==
  ASSUME NEW u \in Candidates, NEW h, u \in Candidate!Sampled,
         h # Candidate!None => Brought(u, h)',
         h = Candidate!None /\ kind'[u] = "honest" => u \in round'.lost
  PROVE  TaskSound(u, [at |-> "done", head |-> h])'
BY DEF TaskSound, Places, Candidate!Sampled, Candidate!Before

LEMMA TaskKeeps ==
  ASSUME CandidateInv, NEW u \in Candidates, Candidate!TaskStep(u)
  PROVE  CandidateInv'
<1>1. /\ TaskSound(u, prober[u]) /\ DOMAIN prober = Candidates
      /\ kind[u] \in Kinds
      /\ UNCHANGED <<kind, level>>
  BY DEF CandidateInv, CandidateTypes, Candidate!TaskStep, Candidate!Acquire,
     Candidate!ChainIdRead, Candidate!HeadRead, Candidate!CallFails
<1>2. u \in Candidate!Sampled /\ prober[u].at # "done"
  BY <1>1 DEF TaskSound, Candidate!TaskStep, Candidate!Acquire,
     Candidate!ChainIdRead, Candidate!HeadRead, Candidate!CallFails, Candidate!Holding
<1>3. round.verdict = "none"
  BY <1>2 DEF CandidateInv, Verdicts
<1>4. CASE Candidate!Acquire(u)
  <2>1. /\ prober' = [prober EXCEPT ![u] = [prober[u] EXCEPT !.at = "chainId"]]
        /\ round' = round /\ prober[u].at = "waiting"
    BY <1>4 DEF Candidate!Acquire
  <2>2. prober' = [prober EXCEPT ![u] = [at |-> "chainId", head |-> Candidate!None]]
    <3>1. prober[u] = [at |-> "waiting", head |-> Candidate!None]
      BY <1>1, <2>1 DEF TaskSound
    <3>2. [prober[u] EXCEPT !.at = "chainId"] = [at |-> "chainId", head |-> Candidate!None]
      BY <3>1
    <3>. QED
      BY <2>1, <3>2
  <2>3. TaskSound(u, [at |-> "chainId", head |-> Candidate!None])'
    BY <1>2 DEF TaskSound, Places, Candidate!Sampled, Candidate!Before
  <2>. QED
    BY <1>1, <1>3, <2>1, <2>2, <2>3, TaskGoesOn
<1>5. CASE Candidate!CallFails(u)
  <2>1. /\ prober' = [prober EXCEPT ![u] = [at |-> "done", head |-> Candidate!None]]
        /\ round' = [round EXCEPT !.lost = @ \cup {u}] /\ u \in round'.lost
    BY <1>5 DEF Candidate!CallFails, Candidate!Returns, CandidateInv, CandidateTypes
  <2>2. TaskSound(u, [at |-> "done", head |-> Candidate!None])'
    BY <1>2, <2>1, ReturnsSound
  <2>. QED
    BY <1>1, <1>3, <2>1, <2>2, TaskGoesOn
<1>6. CASE Candidate!ChainIdRead(u)
  <2>1. PICK a : /\ Candidate!Replies(u, a)
                 /\ IF Candidate!Passes(a) /\ Candidate!ChainId(u) = "own"
                      THEN prober' = [prober EXCEPT ![u].at = "head"]
                      ELSE Candidate!Returns(u, Candidate!None)
    BY <1>6 DEF Candidate!ChainIdRead
  <2>2. CASE Candidate!Passes(a) /\ Candidate!ChainId(u) = "own"
    <3>1. /\ prober' = [prober EXCEPT ![u] = [prober[u] EXCEPT !.at = "head"]]
          /\ kind'[u] # "foreign"
      BY <1>1, <2>1, <2>2 DEF Candidate!ChainId
    <3>2. prober' = [prober EXCEPT ![u] = [at |-> "head", head |-> Candidate!None]]
      <4>1. prober[u] = [at |-> prober[u].at, head |-> Candidate!None]
        BY <1>1, <1>2 DEF TaskSound
      <4>2. [prober[u] EXCEPT !.at = "head"] = [at |-> "head", head |-> Candidate!None]
        BY <4>1
      <4>. QED
        BY <3>1, <4>2
    <3>3. TaskSound(u, [at |-> "head", head |-> Candidate!None])'
      BY <1>2, <3>1 DEF TaskSound, Places, Candidate!Sampled, Candidate!Before
    <3>. QED
      BY <1>1, <1>3, <2>1, <3>2, <3>3, RepliesTell, TaskGoesOn
  <2>3. CASE ~(Candidate!Passes(a) /\ Candidate!ChainId(u) = "own")
    <3>1. prober' = [prober EXCEPT ![u] = [at |-> "done", head |-> Candidate!None]]
      BY <2>1, <2>3 DEF Candidate!Returns
    <3>2. kind'[u] = "honest" => u \in round'.lost
      BY <1>1, <2>1, <2>3, RepliesTell DEF Candidate!ChainId
    <3>3. TaskSound(u, [at |-> "done", head |-> Candidate!None])'
      BY <1>2, <3>2, ReturnsSound
    <3>. QED
      BY <1>1, <1>3, <2>1, <3>1, <3>3, RepliesTell, TaskGoesOn
  <2>. QED
    BY <2>2, <2>3
<1>7. CASE Candidate!HeadRead(u)
  <2>1. PICK a \in {Candidate!Answer("quantity")} \cup Candidate!Faulty, h \in Candidate!HeadsOf(u) :
          Candidate!Replies(u, a)
          /\ Candidate!Returns(u, IF Candidate!Passes(a) THEN h ELSE Candidate!None)
    BY <1>7 DEF Candidate!HeadRead
  <2>. DEFINE brought == IF Candidate!Passes(a) THEN h ELSE Candidate!None
  <2>2. prober' = [prober EXCEPT ![u] = [at |-> "done", head |-> brought]]
    BY <2>1 DEF Candidate!Returns
  <2>3. kind[u] # "foreign"
    BY <1>1, <1>7 DEF TaskSound, Candidate!HeadRead
  <2>4. round'.from = round.from
    BY <2>1, RepliesTell DEF CandidateInv, CandidateTypes
  <2>5. h \in 0..Ceiling /\ Brought(u, h)'
    <3>1. level \in Nat /\ level <= Ceiling /\ round.from \in Nat /\ round.from <= level
      BY CandidateNumbers DEF CandidateInv, CandidateTypes
    <3>2. h \in 0..Ceiling
      BY <3>1, CandidateNumbers DEF Candidate!HeadsOf
    <3>. QED
      BY <1>1, <2>3, <2>4, <3>1, <3>2 DEF Candidate!HeadsOf, Brought
  <2>6. /\ brought # Candidate!None => Brought(u, brought)'
        /\ brought = Candidate!None => u \in round'.lost
    <3>1. h # Candidate!None
      BY <2>5, CandidateNumbers DEF Candidate!None
    <3>. QED
      BY <2>1, <2>5, <3>1, RepliesTell
  <2>. HIDE DEF brought
  <2>7. TaskSound(u, [at |-> "done", head |-> brought])'
    BY <1>2, <2>6, ReturnsSound
  <2>. QED
    BY <1>1, <1>3, <2>1, <2>2, <2>7, RepliesTell, TaskGoesOn
<1>. QED
  BY <1>4, <1>5, <1>6, <1>7 DEF Candidate!TaskStep

LEMMA ScannerKeeps ==
  ASSUME CandidateInv, Candidate!ScannerStep \/ Candidate!Grow
  PROVE  CandidateInv'
<1>1. kind' = kind /\ level' \in Nat /\ level <= level' /\ level' <= MaxLevel
  BY CandidateNumbers DEF CandidateInv, CandidateTypes, Candidate!ScannerStep, Candidate!Conclude,
     Candidate!NextRound, Candidate!Grow
<1>2. CASE Candidate!Conclude
  <2>1. /\ UNCHANGED <<prober, level>>
        /\ \A u \in Candidate!Sampled : prober[u].at = "done"
        /\ round' = [round EXCEPT !.verdict = IF Candidate!Qualified THEN "qualified" ELSE "refused"]
    BY <1>2 DEF Candidate!Conclude
  <2>2. /\ DOMAIN round' = DOMAIN round /\ round'.from = round.from /\ round'.lost = round.lost
        /\ round'.verdict = IF Candidate!Qualified THEN "qualified" ELSE "refused"
    BY <2>1 DEF CandidateInv, CandidateTypes
  <2>3. Candidate!Qualified' <=> Candidate!Qualified
    BY <1>1, <2>1 DEF Candidate!Qualified, Candidate!Active, Candidate!Sampled, Candidate!Before,
       Candidate!Close, Candidate!Top
  <2>4. CandidateTypes'
    BY <1>1, <2>1, <2>2 DEF CandidateInv, CandidateTypes
  <2>5. \A u \in Candidates : TaskSound(u, prober[u])'
    BY <1>1, <2>1, <2>2 DEF CandidateInv, CandidateTypes, TaskSound, Brought,
       Candidate!Sampled, Candidate!Before
  <2>6. Verdicts'
    BY <2>1, <2>2, <2>3 DEF Verdicts, Candidate!Sampled, Candidate!Before
  <2>. QED
    BY <2>4, <2>5, <2>6 DEF CandidateInv
<1>3. CASE Candidate!NextRound
  <2>1. /\ prober' = [u \in Candidates |-> Candidate!Waiting] /\ level' = level
        /\ round' = [from |-> level, lost |-> {}, verdict |-> "none"]
    BY <1>3 DEF Candidate!NextRound, Candidate!NewRound
  <2>2. \A u \in Candidates : TaskSound(u, Candidate!Waiting)'
    BY DEF TaskSound, Candidate!Waiting, Places
  <2>3. \A u \in Candidates : TaskSound(u, prober[u])'
    BY <2>1, <2>2
  <2>. QED
    BY <1>1, <2>1, <2>3 DEF CandidateInv, CandidateTypes, Verdicts
<1>4. CASE Candidate!Grow
  <2>1. UNCHANGED <<prober, round>>
    BY <1>4 DEF Candidate!Grow
  <2>2. Candidate!Qualified' <=> Candidate!Qualified
    BY <1>1, <2>1 DEF Candidate!Qualified, Candidate!Active, Candidate!Sampled, Candidate!Before,
       Candidate!Close, Candidate!Top
  <2>3. CandidateTypes'
    BY <1>1, <2>1 DEF CandidateInv, CandidateTypes
  <2>4. \A u \in Candidates : TaskSound(u, prober[u])'
    BY <1>1, <2>1 DEF CandidateInv, CandidateTypes, TaskSound, Brought,
       Candidate!Sampled, Candidate!Before
  <2>5. Verdicts'
    BY <2>1, <2>2 DEF CandidateInv, Verdicts, Candidate!Sampled, Candidate!Before
  <2>. QED
    BY <2>3, <2>4, <2>5 DEF CandidateInv
<1>. QED
  BY <1>2, <1>3, <1>4 DEF Candidate!ScannerStep

LEMMA CandidateKept == CandidateInv /\ [Candidate!Next]_(Candidate!vars) => CandidateInv'
<1>. SUFFICES ASSUME CandidateInv, [Candidate!Next]_(Candidate!vars) PROVE CandidateInv'
  OBVIOUS
<1>1. CASE UNCHANGED Candidate!vars
  <2>1. UNCHANGED <<kind, level, prober, round>>
    BY <1>1 DEF Candidate!vars
  <2>2. Candidate!Qualified' <=> Candidate!Qualified
    BY <2>1 DEF Candidate!Qualified, Candidate!Active, Candidate!Sampled, Candidate!Before,
       Candidate!Close, Candidate!Top
  <2>3. CandidateTypes'
    BY <2>1 DEF CandidateInv, CandidateTypes
  <2>4. \A u \in Candidates : TaskSound(u, prober[u])'
    BY <2>1 DEF CandidateInv, TaskSound, Brought, Candidate!Sampled, Candidate!Before
  <2>5. Verdicts'
    BY <2>1, <2>2 DEF CandidateInv, Verdicts, Candidate!Sampled, Candidate!Before
  <2>. QED
    BY <2>3, <2>4, <2>5 DEF CandidateInv
<1>2. CASE Candidate!Next
  <2>1. ASSUME NEW u \in Candidates, Candidate!TaskStep(u) PROVE CandidateInv'
    BY <2>1, TaskKeeps
  <2>. QED
    BY <1>2, <2>1, ScannerKeeps DEF Candidate!Next
<1>. QED
  BY <1>1, <1>2

(* What is known of the heads a verdict rests on.                          *)
LEMMA Heads ==
  ASSUME CandidateInv
  PROVE  /\ Candidate!Active \subseteq Candidate!Sampled
         /\ Candidate!Sampled \subseteq Candidates
         /\ \A u \in Candidate!Active : Brought(u, prober[u].head)
         /\ Candidate!Active # {} =>
              /\ Candidate!Top \in {prober[u].head : u \in Candidate!Active}
              /\ \A u \in Candidate!Active : Candidate!Top >= prober[u].head
<1>1. /\ Candidate!Active \subseteq Candidate!Sampled
      /\ Candidate!Sampled \subseteq Candidates
  BY DEF Candidate!Active, Candidate!Sampled
<1>2. \A u \in Candidate!Active : Brought(u, prober[u].head)
  BY <1>1 DEF CandidateInv, TaskSound, Candidate!Active
<1>. DEFINE S == {prober[u].head : u \in Candidate!Active}
<1>3. S \in SUBSET Nat /\ \A n \in S : n <= Ceiling
  BY <1>2, CandidateNumbers DEF Brought
<1>4. Candidate!Active # {} => S # {}
  OBVIOUS
<1>5. Candidate!Top = Candidate!Max(S)
  BY DEF Candidate!Top
<1>6. Candidate!Active # {} => Candidate!Top \in S /\ \A n \in S : Candidate!Top >= n
  <2>. HIDE DEF S
  <2>. QED
    BY <1>3, <1>4, <1>5, CandidateMax, CandidateNumbers
<1>. QED
  BY <1>1, <1>2, <1>6

LEMMA ModSmall == ASSUME NEW x \in Nat, NEW m \in Nat, m > x PROVE x % m = x
OBVIOUS

LEMMA ModLess == ASSUME NEW x \in Nat, NEW m \in Nat, m > 0 PROVE x % m <= x /\ x % m \in Nat
OBVIOUS

LEMMA TwoDiffer ==
  ASSUME NEW S, NEW T, IsFiniteSet(S), IsFiniteSet(T),
         Cardinality(S) >= 2, Cardinality(T) <= 1
  PROVE  \E x \in S : x \notin T
<1>. SUFFICES ASSUME S \subseteq T PROVE FALSE
  OBVIOUS
<1>1. Cardinality(S) <= Cardinality(T)
  BY FS_Subset
<1>2. Cardinality(S) \in Nat /\ Cardinality(T) \in Nat
  BY FS_CardinalityType
<1>. QED
  BY <1>1, <1>2

LEMMA OnHonest == CandidateInv => QualifiedOnHonest
<1>. SUFFICES ASSUME CandidateInv, round.verdict = "qualified",
                     Cardinality(Candidate!Sampled \ Candidate!Honest) <= 1
              PROVE  \E u \in Candidate!Honest \cap Candidate!Active :
                       prober[u].head + Tolerance >= Candidate!Top
  BY CandidateCounts DEF QualifiedOnHonest, Candidate!QualifiedOnHonest
<1>. DEFINE Near == {u \in Candidate!Active : Candidate!Close(u)}
            Others == Candidate!Sampled \ Candidate!Honest
<1>1. Candidate!Active # {} /\ Cardinality(Near) >= 2
  BY CandidateCounts DEF CandidateInv, Verdicts, Candidate!Qualified
<1>2. IsFiniteSet(Near) /\ IsFiniteSet(Others)
  <2>1. Near \subseteq Candidates /\ Others \subseteq Candidates
    BY Heads
  <2>. QED
    BY <2>1, FS_Subset, CandidateNumbers
<1>3. PICK u \in Near : u \notin Others
  <2>1. Cardinality(Others) <= 1
    OBVIOUS
  <2>. HIDE DEF Near, Others
  <2>. QED
    BY <1>1, <1>2, <2>1, TwoDiffer
<1>4. u \in Candidate!Honest \cap Candidate!Active /\ Candidate!Close(u)
  BY <1>3, Heads
<1>5. prober[u].head \in Nat /\ Candidate!Top \in Nat
  BY <1>1, <1>4, Heads, CandidateNumbers DEF Brought
<1>6. (prober[u].head + Tolerance) % (Ceiling + 1) >= Candidate!Top
  BY <1>4 DEF Candidate!Close
<1>. DEFINE h == prober[u].head
            m == (h + Tolerance) % (Ceiling + 1)
<1>7. m <= h + Tolerance /\ m \in Nat
  <2>. HIDE DEF h
  <2>1. h + Tolerance \in Nat /\ Ceiling + 1 \in Nat /\ Ceiling + 1 > 0
    BY <1>5, CandidateNumbers DEF h
  <2>. QED
    BY <2>1, ModLess
<1>8. prober[u].head + Tolerance >= Candidate!Top
  <2>1. m \in Nat /\ m >= Candidate!Top /\ m <= h + Tolerance
    BY <1>6, <1>7
  <2>. HIDE DEF m
  <2>. QED
    BY <1>5, <2>1, CandidateNumbers
<1>. QED
  BY <1>4, <1>8

LEMMA LargerOfTwo ==
  ASSUME NEW m \in Nat
  PROVE  /\ Candidate!Max({m, 2}) \in Nat
         /\ Candidate!Max({m, 2}) >= m /\ Candidate!Max({m, 2}) >= 2
<1>1. /\ {m, 2} \in SUBSET Nat /\ {m, 2} # {}
      /\ \A x \in {m, 2} : x <= m + 2 /\ m + 2 \in Nat
  OBVIOUS
<1>2. Candidate!Max({m, 2}) \in {m, 2} /\ \A x \in {m, 2} : Candidate!Max({m, 2}) >= x
  BY <1>1, CandidateMax
<1>. QED
  BY <1>2

LEMMA EnoughHonest == CandidateInv => HonestQualifies
<1>. DEFINE Sure == Candidate!Honest \ round.lost
            Near == {u \in Candidate!Active : Candidate!Close(u)}
<1>. SUFFICES ASSUME CandidateInv, round.verdict # "none", level - round.from <= Tolerance,
                     Cardinality(Sure) >= MinActive, Cardinality(Sure) >= 2,
                     \A u \in Candidate!Sampled : kind[u] # "inventive"
              PROVE  round.verdict = "qualified"
  <2>1. IsFiniteSet(Sure) /\ Cardinality(Sure) \in Nat
    <3>1. Sure \subseteq Candidates
      BY Heads DEF Candidate!Honest, Candidate!Sampled
    <3>. QED
      BY <3>1, FS_Subset, FS_CardinalityType, CandidateNumbers
  <2>2. Cardinality(Sure) >= Candidate!Max({MinActive, 2})
          => Cardinality(Sure) >= MinActive /\ Cardinality(Sure) >= 2
    BY <2>1, LargerOfTwo, CandidateNumbers
  <2>. QED
    BY <2>2, CandidateCounts DEF HonestQualifies, Candidate!HonestQualifies, Candidate!Judged
<1>1. Sure \subseteq Candidate!Active
  BY Heads DEF CandidateInv, Verdicts, TaskSound, Candidate!Honest, Candidate!Active
<1>2. /\ IsFiniteSet(Candidate!Active) /\ IsFiniteSet(Near) /\ IsFiniteSet(Sure)
      /\ Near \subseteq Candidate!Active
  <2>1. Candidate!Active \subseteq Candidates /\ Near \subseteq Candidates
    BY Heads
  <2>. QED
    BY <1>1, <2>1, FS_Subset, CandidateNumbers
<1>3. Candidate!Active # {}
  <2>1. Sure # {}
    <3>1. Cardinality({}) = 0
      BY FS_EmptySet
    <3>. HIDE DEF Sure
    <3>. QED
      BY <3>1
  <2>. QED
    BY <1>1, <2>1
<1>4. level \in Nat /\ level <= MaxLevel /\ round.from \in Nat
  BY DEF CandidateInv, CandidateTypes
<1>5. Candidate!Top \in Nat /\ Candidate!Top <= level
  <2>1. PICK u \in Candidate!Active : Candidate!Top = prober[u].head
    BY <1>3, Heads
  <2>2. Brought(u, prober[u].head) /\ kind[u] \in Kinds /\ kind[u] # "inventive"
    BY Heads DEF CandidateInv, CandidateTypes
  <2>. QED
    BY <1>4, <2>1, <2>2, CandidateNumbers DEF Brought, Kinds
<1>6. Sure \subseteq Near
  <2>. SUFFICES ASSUME NEW u \in Sure PROVE Candidate!Close(u)
    BY <1>1
  <2>1. kind[u] = "honest" /\ Brought(u, prober[u].head)
    BY <1>1, Heads DEF Candidate!Honest
  <2>. DEFINE h == prober[u].head
  <2>2. h \in Nat /\ round.from <= h /\ h <= level
    BY <2>1, CandidateNumbers DEF Brought
  <2>3. (h + Tolerance) % (Ceiling + 1) = h + Tolerance
    <3>. HIDE DEF h
    <3>1. h + Tolerance \in Nat /\ Ceiling + 1 \in Nat /\ Ceiling + 1 > h + Tolerance
      BY <1>4, <2>2, CandidateNumbers
    <3>. QED
      BY <3>1, ModSmall
  <2>4. h + Tolerance >= Candidate!Top
    <3>. HIDE DEF h
    <3>. QED
      BY <1>4, <1>5, <2>2, CandidateNumbers
  <2>. QED
    BY <2>3, <2>4 DEF Candidate!Close
<1>7. Cardinality(Near) >= 2 /\ Cardinality(Candidate!Active) >= MinActive
  <2>1. /\ Cardinality(Sure) <= Cardinality(Near)
        /\ Cardinality(Sure) <= Cardinality(Candidate!Active)
    BY <1>1, <1>2, <1>6, FS_Subset
  <2>2. /\ Cardinality(Sure) \in Nat /\ Cardinality(Near) \in Nat
        /\ Cardinality(Candidate!Active) \in Nat
    BY <1>2, FS_CardinalityType
  <2>. HIDE DEF Sure, Near
  <2>. QED
    BY <2>1, <2>2, CandidateNumbers
<1>8. Candidate!Qualified
  BY <1>3, <1>7, CandidateCounts DEF Candidate!Qualified
<1>. QED
  BY <1>8 DEF CandidateInv, CandidateTypes, Verdicts

(* autoenable.rs probe_candidate: one endpoint that is wrong, in whatever  *)
(* way, does not qualify a chain by itself: an honest one is close to the  *)
(* highest head.                                                           *)
THEOREM QualifiedTheorem == Candidate!Spec => []QualifiedOnHonest
BY CandidateStarts, CandidateKept, OnHonest, PTL DEF Candidate!Spec

(* autoenable.rs probe_candidate: as many honest endpoints as are asked    *)
(* for, but two at least, qualify the chain, whatever calls of others fail *)
(* and in whatever order permits come.                                     *)
THEOREM HonestTheorem == Candidate!Spec => []HonestQualifies
BY CandidateStarts, CandidateKept, EnoughHonest, PTL DEF Candidate!Spec

-----------------------------------------------------------------------------
(* What is kept for good (CacheTiers), for any endpoints of which one may  *)
(* lie, and any depth that reorganisations and lags stay within.           *)

LEMMA TiersCounts == \A S : Tiers!Cardinality(S) = Cardinality(S)
BY DEF Cardinality, Tiers!Cardinality

LEMMA TiersNumbers ==
  /\ IsFiniteSet(Endpoints) /\ Liars \subseteq Endpoints /\ IsFiniteSet(Liars)
  /\ Cardinality(Liars) <= 1
  /\ Confirmations \in Nat /\ MaxLag \in Nat /\ MaxReorg \in Nat /\ MaxHeight \in Nat
  /\ MaxHeight >= 1 /\ MaxReorg <= Confirmations + 1 /\ MaxLag <= Confirmations + 1
BY TiersAssumption, FS_Subset

LEMMA TiersMax ==
  ASSUME NEW S \in SUBSET Nat, S # {}, NEW b \in Nat, \A n \in S : n <= b
  PROVE  Tiers!Max(S) \in S /\ \A n \in S : Tiers!Max(S) >= n
BY Greatest DEF Tiers!Max

(* A liar may have raised the head, but not where it is outvoted.          *)
HeightsSound ==
  /\ height \in [Endpoints -> Nat]
  /\ \A x \in Endpoints \ Liars : height[x] <= tip
  /\ outvoted => head \in Nat /\ head <= tip

(* No reorganisation reaches a block so deep, and no endpoint in service   *)
(* lacks it.                                                               *)
Settled(h) == h \in Nat /\ h >= 1 /\ h + Confirmations + 1 <= tip

(* An answer that stays, and why.                                          *)
Lasting(r, a) ==
  /\ r.method = "byNumber" => Settled(r.height) /\ a = [height |-> r.height, block |-> chain[r.height]]
  /\ r.method = "receipt" => Settled(mined) /\ a = [height |-> mined, block |-> chain[mined]]
  /\ r.method = "earliest" => a = [height |-> 1, block |-> chain[1]]

(* A request on its way: what was final when it was planned is so for good,*)
(* if no liar decided the head of the plan.                                *)
Planned(q) ==
  q.outvoted =>
    /\ q.request.method = "receipt" => q.class = "byResponse"
    /\ q.before \in Nat /\ (q.before > 0 => q.before + Confirmations <= tip)
    /\ q.request.method = "byNumber" => Settled(q.request.height)

ChainSound ==
  /\ DOMAIN chain = Tiers!Heights
  /\ tip \in Nat /\ 1 <= tip /\ tip <= MaxHeight
  /\ mined \in Nat /\ mined <= tip

TiersInv ==
  /\ ChainSound /\ HeightsSound
  /\ asked.at \in {"sent", "answered"} => Planned(asked)
  /\ asked.at = "answered" /\ asked.outvoted /\ Tiers!Keepable
       => Lasting(asked.request, asked.answer)
  /\ \A k \in kept : k.outvoted => Lasting(k.request, k.answer)

LEMMA TiersStarts == Tiers!Init => TiersInv
<1>. SUFFICES ASSUME Tiers!Init PROVE TiersInv
  OBVIOUS
<1>1. ChainSound
  BY TiersNumbers DEF Tiers!Init, ChainSound
<1>2. HeightsSound
  BY TiersNumbers DEF Tiers!Init, HeightsSound
<1>. QED
  BY <1>1, <1>2 DEF Tiers!Init, Tiers!NoRequest, TiersInv

(* An answer that lasts is what the whole chain says.                      *)
LEMMA LastingIsNow ==
  ASSUME ChainSound, NEW r, NEW a, Lasting(r, a),
         r.method \in {"byNumber", "receipt", "earliest"}
  PROVE  a = Tiers!Says(r, tip)
<1>1. \A h : Settled(h) => h # 0 /\ ~(h > tip)
  BY TiersNumbers DEF ChainSound, Settled
<1>. QED
  BY <1>1 DEF ChainSound, Lasting, Tiers!Says, Tiers!BlockAt

LEMMA FinalStay == TiersInv => FinalAnswersStay
BY LastingIsNow DEF TiersInv, FinalAnswersStay, Tiers!FinalAnswersStay, Tiers!Now

-----------------------------------------------------------------------------
(* The highest of the heights reported, but for the trimmed ones, is not   *)
(* above the tip: someone who tells the truth is as high.                  *)
LEMMA TrimmedBelow ==
  ASSUME NEW R \in SUBSET Endpoints, R # {}, height' \in [Endpoints -> Nat],
         NEW t \in Nat, \A x \in Endpoints \ Liars : height'[x] <= t,
         \A x \in Liars : x \in R => Cardinality(R) >= 3
  PROVE  Tiers!TrimmedMax(R) \in Nat /\ Tiers!TrimmedMax(R) <= t
<1>. DEFINE n == Cardinality(R)
            trim == IF n < 3 THEN 0 ELSE Tiers!Max({1, n \div 10})
            AtLeast(h) == {e \in R : height'[e] >= h}
            All == {height'[e] : e \in R}
            S == {h \in All : Cardinality(AtLeast(h)) > trim}
<1>1. Tiers!TrimmedMax(R) = Tiers!Max(S)
  BY TiersCounts DEF Tiers!TrimmedMax
<1>2. IsFiniteSet(R) /\ n \in Nat /\ n > 0
  <2>1. IsFiniteSet(R)
    BY TiersNumbers, FS_Subset
  <2>2. n \in Nat /\ (n = 0 <=> R = {})
    BY <2>1, FS_CardinalityType, FS_EmptySet
  <2>. QED
    BY <2>1, <2>2
<1>3. trim \in Nat /\ trim < n /\ (n >= 3 => trim >= 1)
  <2>. HIDE DEF n
  <2>1. CASE n < 3
    BY <1>2, <2>1
  <2>2. CASE n >= 3
    <3>1. n \div 10 \in Nat /\ n \div 10 < n
      BY <1>2, <2>2
    <3>. DEFINE d == n \div 10
    <3>. HIDE DEF d
    <3>2. d \in Nat /\ d < n
      BY <3>1 DEF d
    <3>3. {1, d} \in SUBSET Nat /\ {1, d} # {} /\ \A m \in {1, d} : m <= n
      BY <1>2, <2>2, <3>2
    <3>4. Tiers!Max({1, d}) \in {1, d} /\ \A m \in {1, d} : Tiers!Max({1, d}) >= m
      BY <1>2, <3>3, TiersMax
    <3>5. trim = Tiers!Max({1, d})
      BY <1>2, <2>2 DEF d
    <3>. HIDE DEF trim
    <3>6. Tiers!Max({1, d}) >= 1
      BY <3>4
    <3>. QED
      BY <1>2, <2>2, <3>2, <3>4, <3>5, <3>6
  <2>. QED
    BY <1>2, <2>1, <2>2
<1>4. All \in SUBSET Nat /\ All # {}
  OBVIOUS
<1>5. PICK least \in All : \A h \in All : least <= h
  <2>. HIDE DEF All
  <2>. QED
    BY <1>4, Least
<1>6. AtLeast(least) = R
  <2>1. \A e \in R : height'[e] \in All /\ height'[e] \in Nat
    OBVIOUS
  <2>. QED
    BY <1>4, <1>5, <2>1
<1>7. S # {}
  BY <1>3, <1>5, <1>6
<1>8. ASSUME NEW h \in S PROVE h \in Nat /\ h <= t
  <2>1. h \in Nat /\ AtLeast(h) \subseteq R /\ Cardinality(AtLeast(h)) > trim
    OBVIOUS
  <2>2. \E x \in AtLeast(h) : x \notin Liars
    <3>1. CASE R \cap Liars = {}
      <4>1. PICK e \in R : h = height'[e]
        OBVIOUS
      <4>2. e \in AtLeast(h)
        BY <2>1, <4>1
      <4>. QED
        BY <3>1, <4>2
    <3>2. CASE R \cap Liars # {}
      <4>1. n >= 3
        BY <3>2
      <4>2. IsFiniteSet(AtLeast(h)) /\ Cardinality(AtLeast(h)) \in Nat
        BY <1>2, <2>1, FS_Subset, FS_CardinalityType
      <4>. HIDE DEF trim, AtLeast
      <4>3. Cardinality(AtLeast(h)) >= 2
        BY <1>3, <2>1, <4>1, <4>2
      <4>. QED
        BY <4>2, <4>3, TwoDiffer, TiersNumbers
    <3>. QED
      BY <3>1, <3>2
  <2>3. PICK x \in AtLeast(h) : x \notin Liars
    BY <2>2
  <2>4. height'[x] \in Nat /\ height'[x] >= h /\ height'[x] <= t
    BY <2>1, <2>3
  <2>. QED
    BY <2>1, <2>4
<1>9. S \in SUBSET Nat /\ \A h \in S : h <= t
  <2>. HIDE DEF S
  <2>. QED
    BY <1>8
<1>10. Tiers!Max(S) \in S
  <2>. HIDE DEF S
  <2>. QED
    BY <1>7, <1>9, TiersMax
<1>. HIDE DEF S
<1>. QED
  BY <1>1, <1>8, <1>10

(* A report of an endpoint leaves the head at or below the tip, unless a   *)
(* liar decides it.                                                        *)
LEMMA HeightKeeps ==
  ASSUME TiersInv, NEW e \in Endpoints, Tiers!RecordProbeHeight(e)
  PROVE  HeightsSound'
<1>1. PICK h \in Tiers!Reports(e) : height' = [height EXCEPT ![e] = h]
  BY DEF Tiers!RecordProbeHeight
<1>2. /\ height \in [Endpoints -> Nat] /\ tip \in Nat /\ tip' = tip
      /\ IsFiniteSet(Endpoints) /\ MaxHeight \in Nat
  BY TiersNumbers DEF TiersInv, HeightsSound, ChainSound, Tiers!RecordProbeHeight
<1>3. h \in Nat /\ h # 0 /\ (e \notin Liars => h <= tip)
  BY <1>2 DEF Tiers!Reports, Tiers!Heights
<1>4. /\ height' \in [Endpoints -> Nat] /\ height'[e] = h
      /\ \A x \in Endpoints \ {e} : height'[x] = height[x]
  BY <1>1, <1>2, <1>3
<1>5. \A x \in Endpoints \ Liars : height'[x] <= tip
  BY <1>3, <1>4 DEF TiersInv, HeightsSound
<1>. DEFINE R == {x \in Endpoints : height'[x] # 0}
<1>6. /\ R \in SUBSET Endpoints /\ R # {} /\ head' = Tiers!TrimmedMax(R)
      /\ outvoted' = Tiers!Outvoted(R)
  BY <1>3, <1>4 DEF Tiers!RecordProbeHeight
<1>7. outvoted' => \A x \in Liars : x \in R => Cardinality(R) >= 3
  BY <1>6, TiersCounts DEF Tiers!Outvoted
<1>. HIDE DEF R
<1>8. outvoted' => head' \in Nat /\ head' <= tip
  BY <1>2, <1>4, <1>5, <1>6, <1>7, TrimmedBelow
<1>. QED
  BY <1>2, <1>4, <1>5, <1>8 DEF HeightsSound

(* The chain goes on: what is settled is not replaced.                     *)
LEMMA LastingStays ==
  ASSUME TiersInv, NEW r, NEW a, Lasting(r, a),
         Tiers!Grow \/ \E deep \in 1..MaxReorg : Tiers!Reorg(deep)
  PROVE  Lasting(r, a)'
<1>1. ChainSound
  BY DEF TiersInv
<1>2. tip \in Nat /\ tip' \in Nat /\ tip <= tip' /\ tip' <= MaxHeight
  BY <1>1, TiersNumbers DEF ChainSound, Tiers!Grow, Tiers!Reorg
<1>3. \A h : Settled(h) => Settled(h)'
  BY <1>2, TiersNumbers DEF Settled
<1>4. CASE Tiers!Grow
  <2>1. chain' = chain /\ (mined # 0 => mined' = mined)
    BY <1>4 DEF Tiers!Grow
  <2>2. Settled(mined) => mined # 0
    BY DEF Settled
  <2>. QED
    BY <1>3, <2>1, <2>2 DEF Lasting
<1>5. CASE \E deep \in 1..MaxReorg : Tiers!Reorg(deep)
  <2>1. PICK deep \in 1..MaxReorg : Tiers!Reorg(deep)
    BY <1>5
  <2>2. /\ deep \in Nat /\ deep < tip /\ deep <= Confirmations + 1
        /\ chain' = [h \in Tiers!Heights |-> IF h > tip - deep THEN reorgs' ELSE chain[h]]
        /\ ~(mined > tip - deep) => mined' = mined
    BY <2>1, TiersNumbers DEF Tiers!Reorg
  <2>3. \A h : Settled(h) => h \in Nat /\ ~(h > tip - deep)
    BY <1>2, <2>2, TiersNumbers DEF Settled
  <2>4. \A h \in Tiers!Heights : ~(h > tip - deep) => chain'[h] = chain[h]
    BY <2>2
  <2>5. \A h : Settled(h) => h \in Tiers!Heights
    BY <1>1, TiersNumbers DEF Settled, ChainSound, Tiers!Heights
  <2>6. 1 \in Tiers!Heights /\ ~(1 > tip - deep)
    BY <1>2, <2>2, TiersNumbers DEF Tiers!Heights
  <2>7. Settled(mined) => mined' = mined
    BY <2>2, <2>3
  <2>. QED
    BY <1>3, <2>3, <2>4, <2>5, <2>6, <2>7 DEF Lasting
<1>. QED
  BY <1>4, <1>5

LEMMA ChainKeeps ==
  ASSUME TiersInv, Tiers!Grow \/ \E deep \in 1..MaxReorg : Tiers!Reorg(deep)
  PROVE  TiersInv'
<1>1. UNCHANGED <<height, head, outvoted, asked, kept>>
  BY DEF Tiers!Grow, Tiers!Reorg
<1>2. ChainSound'
  <2>1. CASE Tiers!Grow
    BY <2>1, TiersNumbers DEF Tiers!Grow, TiersInv, ChainSound
  <2>2. CASE \E deep \in 1..MaxReorg : Tiers!Reorg(deep)
    <3>1. PICK deep \in 1..MaxReorg : Tiers!Reorg(deep)
      BY <2>2
    <3>2. /\ deep \in Nat /\ deep < tip /\ tip' = tip
          /\ chain' = [h \in Tiers!Heights |-> IF h > tip - deep THEN reorgs' ELSE chain[h]]
          /\ mined' \in IF mined > tip - deep THEN {0} \cup (tip - deep + 1)..tip ELSE {mined}
      BY <3>1, TiersNumbers DEF Tiers!Reorg
    <3>3. mined' \in Nat /\ mined' <= tip
      BY <3>2 DEF TiersInv, ChainSound
    <3>. QED
      BY <3>2, <3>3 DEF TiersInv, ChainSound
  <2>. QED
    BY <2>1, <2>2
<1>3. tip \in Nat /\ tip' \in Nat /\ tip <= tip'
  BY <1>2 DEF TiersInv, ChainSound, Tiers!Grow, Tiers!Reorg
<1>4. HeightsSound'
  BY <1>1, <1>3 DEF TiersInv, HeightsSound
<1>5. asked'.at \in {"sent", "answered"} => Planned(asked)'
  BY <1>1, <1>3, TiersNumbers DEF TiersInv, Planned, Settled
<1>6. Tiers!Keepable' = Tiers!Keepable
  BY <1>1 DEF Tiers!Keepable
<1>7. asked'.at = "answered" /\ asked'.outvoted /\ Tiers!Keepable'
        => Lasting(asked.request, asked.answer)'
  <2>. SUFFICES ASSUME asked.at = "answered", asked.outvoted, Tiers!Keepable
                PROVE  Lasting(asked.request, asked.answer)'
    BY <1>1, <1>6
  <2>1. Lasting(asked.request, asked.answer)
    BY DEF TiersInv
  <2>2. ASSUME NEW r, NEW a, Lasting(r, a) PROVE Lasting(r, a)'
    BY <2>2, LastingStays
  <2>. QED
    BY <1>1, <2>1, <2>2
<1>8. \A k \in kept' : k.outvoted => Lasting(k.request, k.answer)'
  BY <1>1, LastingStays DEF TiersInv
<1>. QED
  BY <1>2, <1>4, <1>5, <1>7, <1>8 DEF TiersInv

(* The head moves, the chain and the requests do not.                      *)
LEMMA HeadKeeps ==
  ASSUME TiersInv,
         \/ Tiers!RecordFallbackHeight
         \/ \E e \in Endpoints : Tiers!RecordProbeHeight(e) \/ Tiers!Forget(e)
  PROVE  TiersInv'
<1>1. UNCHANGED <<chain, tip, mined, asked, kept>>
  BY DEF Tiers!RecordFallbackHeight, Tiers!RecordProbeHeight, Tiers!Forget
<1>2. HeightsSound'
  <2>1. CASE Tiers!RecordFallbackHeight
    BY <2>1 DEF TiersInv, HeightsSound, ChainSound, Tiers!RecordFallbackHeight, Tiers!Heights
  <2>2. CASE \E e \in Endpoints : Tiers!Forget(e)
    BY <2>2 DEF TiersInv, HeightsSound, ChainSound, Tiers!Forget
  <2>. QED
    BY <2>1, <2>2, HeightKeeps
<1>. QED
  BY <1>1, <1>2 DEF TiersInv, ChainSound, Planned, Settled, Lasting, Tiers!Keepable, Tiers!Heights

LEMMA FinalizedBelow ==
  ASSUME TiersInv, outvoted
  PROVE  /\ Tiers!Finalized \in Nat
         /\ Tiers!Finalized > 0 => Tiers!Finalized + Confirmations <= tip
BY TiersNumbers DEF TiersInv, HeightsSound, ChainSound, Tiers!Finalized, Tiers!Minus

LEMMA AskKeeps ==
  ASSUME TiersInv, NEW r \in Tiers!Calls, Tiers!Ask(r)
  PROVE  TiersInv'
<1>1. UNCHANGED <<chain, tip, mined, height, head, outvoted, kept>>
  BY DEF Tiers!Ask
<1>. DEFINE q == [at |-> "sent", request |-> r, class |-> Tiers!ClassifyMethod(r),
                  before |-> Tiers!Finalized, outvoted |-> outvoted]
<1>2. asked' = q /\ Tiers!ClassifyMethod(r) \in {"immutable", "byResponse"}
  BY DEF Tiers!Ask
<1>3. q.at = "sent" /\ q.request = r /\ q.class = Tiers!ClassifyMethod(r) /\ q.before = Tiers!Finalized
      /\ q.outvoted = outvoted
  OBVIOUS
<1>4. r.method = "receipt" => Tiers!ClassifyMethod(r) = "byResponse"
  BY DEF Tiers!ClassifyMethod
<1>5. outvoted /\ r.method = "byNumber" => Settled(r.height)
  <2>. SUFFICES ASSUME outvoted, r.method = "byNumber" PROVE Settled(r.height)
    OBVIOUS
  <2>1. r.height \in Nat /\ r.height >= 1
    BY DEF Tiers!Calls, Tiers!Heights
  <2>2. r.height < Tiers!Finalized
    BY <1>2 DEF Tiers!ClassifyMethod, Tiers!ByBlock
  <2>. QED
    BY <2>1, <2>2, FinalizedBelow, TiersNumbers DEF TiersInv, ChainSound, Settled
<1>6. Planned(q)
  BY <1>3, <1>4, <1>5, FinalizedBelow DEF Planned
<1>. HIDE DEF q
<1>7. Planned(asked)'
  BY <1>1, <1>2, <1>6 DEF Planned, Settled
<1>8. asked'.at = "sent"
  BY <1>2, <1>3
<1>9. ChainSound' /\ HeightsSound'
  BY <1>1 DEF TiersInv, ChainSound, HeightsSound, Tiers!Heights
<1>10. \A k \in kept' : k.outvoted => Lasting(k.request, k.answer)'
  BY <1>1 DEF TiersInv, Lasting, Settled
<1>. QED
  BY <1>7, <1>8, <1>9, <1>10 DEF TiersInv

(* An endpoint in service has what is settled, so its answer lasts.        *)
LEMMA SaysLasting ==
  ASSUME TiersInv, asked.at = "sent", asked.outvoted, NEW seen \in Tiers!InService,
         NEW answer, answer = Tiers!Says(asked.request, seen),
         asked.class = "byResponse" => answer # Tiers!Null /\ answer.height < asked.before
  PROVE  Lasting(asked.request, answer)
<1>1. Planned(asked) /\ ChainSound
  BY DEF TiersInv
<1>2. /\ seen \in Nat /\ 1 <= seen /\ seen + MaxLag >= tip /\ tip \in Nat /\ mined \in Nat
      /\ mined <= tip
  BY <1>1 DEF ChainSound, Tiers!InService, Tiers!Heights
<1>3. \A h : Settled(h) => h # 0 /\ ~(h > seen)
  BY <1>2, TiersNumbers DEF Settled
<1>4. CASE asked.request.method = "byNumber"
  BY <1>1, <1>3, <1>4 DEF Planned, Lasting, Tiers!Says, Tiers!BlockAt
<1>5. CASE asked.request.method = "earliest"
  <2>1. ~(1 > seen)
    BY <1>2
  <2>. QED
    BY <1>5, <2>1 DEF Lasting, Tiers!Says, Tiers!BlockAt
<1>6. CASE asked.request.method = "receipt"
  <2>1. answer = Tiers!BlockAt(mined, seen) /\ answer # Tiers!Null /\ answer.height < asked.before
    BY <1>1, <1>6 DEF Planned, Tiers!Says
  <2>2. /\ mined # 0 /\ ~(mined > seen)
        /\ answer = [height |-> mined, block |-> chain[mined]]
    BY <2>1 DEF Tiers!BlockAt
  <2>3. mined < asked.before
    BY <2>1, <2>2
  <2>4. Settled(mined)
    BY <1>1, <1>2, <2>2, <2>3, TiersNumbers DEF Planned, Settled
  <2>. QED
    BY <1>6, <2>2, <2>4 DEF Lasting
<1>7. CASE asked.request.method \notin {"byNumber", "earliest", "receipt"}
  BY <1>7 DEF Lasting
<1>. QED
  BY <1>4, <1>5, <1>6, <1>7

LEMMA AnsweredKeeps ==
  ASSUME TiersInv, Tiers!Answered
  PROVE  TiersInv'
<1>1. asked.at = "sent" /\ UNCHANGED <<chain, tip, mined, height, head, outvoted, kept>>
  BY DEF Tiers!Answered
<1>2. PICK seen \in Tiers!InService :
        asked' = [at |-> "answered", request |-> asked.request, class |-> asked.class,
                  before |-> asked.before, outvoted |-> asked.outvoted,
                  answer |-> Tiers!Says(asked.request, seen)]
  BY DEF Tiers!Answered
<1>3. /\ asked'.at = "answered" /\ asked'.request = asked.request /\ asked'.class = asked.class
      /\ asked'.before = asked.before /\ asked'.outvoted = asked.outvoted
      /\ asked'.answer = Tiers!Says(asked.request, seen)
  BY <1>2
<1>4. Planned(asked)'
  BY <1>1, <1>3 DEF TiersInv, Planned, Settled
<1>5. asked.outvoted /\ Tiers!Keepable' => Lasting(asked.request, asked'.answer)
  <2>. SUFFICES ASSUME asked.outvoted, Tiers!Keepable' PROVE Lasting(asked.request, Tiers!Says(asked.request, seen))
    BY <1>3
  <2>. DEFINE answer == Tiers!Says(asked.request, seen)
  <2>1. asked.class = "byResponse" => answer # Tiers!Null /\ answer.height < asked.before
    BY <1>3 DEF Tiers!Keepable, Tiers!Null
  <2>. QED
    BY <1>1, <2>1, SaysLasting
<1>6. asked'.outvoted /\ Tiers!Keepable' => Lasting(asked.request, asked.answer)'
  BY <1>1, <1>3, <1>5 DEF Lasting, Settled
<1>7. ChainSound' /\ HeightsSound'
  BY <1>1 DEF TiersInv, ChainSound, HeightsSound, Tiers!Heights
<1>8. \A k \in kept' : k.outvoted => Lasting(k.request, k.answer)'
  BY <1>1 DEF TiersInv, Lasting, Settled
<1>. QED
  BY <1>4, <1>6, <1>7, <1>8 DEF TiersInv

LEMMA KeepKeeps ==
  ASSUME TiersInv, Tiers!Keep
  PROVE  TiersInv'
<1>1. /\ asked.at = "answered" /\ asked' = Tiers!NoRequest
      /\ UNCHANGED <<chain, tip, mined, height, head, outvoted>>
      /\ kept' = kept \cup {[request |-> asked.request, answer |-> asked.answer, outvoted |-> asked.outvoted] :
                              x \in {y \in {1} : Tiers!Keepable}}
  BY DEF Tiers!Keep
<1>2. ASSUME NEW k \in kept', k.outvoted PROVE Lasting(k.request, k.answer)'
  <2>1. CASE k \in kept
    BY <1>1, <1>2, <2>1 DEF TiersInv, Lasting, Settled
  <2>2. CASE k \notin kept
    <3>1. Tiers!Keepable /\ k = [request |-> asked.request, answer |-> asked.answer, outvoted |-> asked.outvoted]
      BY <1>1, <2>2
    <3>2. k.request = asked.request /\ k.answer = asked.answer /\ k.outvoted = asked.outvoted
      BY <3>1
    <3>3. Lasting(k.request, k.answer)
      BY <1>1, <1>2, <3>1, <3>2 DEF TiersInv
    <3>. QED
      BY <1>1, <3>3 DEF Lasting, Settled
  <2>. QED
    BY <2>1, <2>2
<1>3. ChainSound' /\ HeightsSound'
  BY <1>1 DEF TiersInv, ChainSound, HeightsSound, Tiers!Heights
<1>. QED
  BY <1>1, <1>2, <1>3 DEF TiersInv, Tiers!NoRequest

LEMMA TiersKept == TiersInv /\ [Tiers!Next]_(Tiers!vars) => TiersInv'
<1>. SUFFICES ASSUME TiersInv, [Tiers!Next]_(Tiers!vars) PROVE TiersInv'
  OBVIOUS
<1>1. CASE UNCHANGED Tiers!vars
  <2>1. UNCHANGED <<chain, tip, mined, height, head, outvoted, asked, kept>>
    BY <1>1 DEF Tiers!vars
  <2>. QED
    BY <2>1 DEF TiersInv, ChainSound, HeightsSound, Planned, Settled, Lasting,
       Tiers!Keepable, Tiers!Heights
<1>2. CASE Tiers!Next
  BY <1>2, ChainKeeps, HeadKeeps, AnsweredKeeps, KeepKeeps, AskKeeps DEF Tiers!Next
<1>. QED
  BY <1>1, <1>2

(* registry.rs trimmed_max, classify.rs classify_method, cache.rs          *)
(* from_plan_success: an answer about a block by its number, or a receipt, *)
(* that is kept for good is what the chain says from then on, however      *)
(* blocks are replaced between plan, answer and entry, and whatever one    *)
(* endpoint says of its height whenever three or more have a report; with  *)
(* fewer it decides the head, and then nothing is promised.                *)
THEOREM FinalTheorem == Tiers!Spec => []FinalAnswersStay
BY TiersStarts, TiersKept, FinalStay, PTL DEF Tiers!Spec

-----------------------------------------------------------------------------
(* The configuration (Config), for any chains, URLs, numbers and length of *)
(* what the file and the environment say.                                  *)

LEMMA StartMin ==
  ASSUME NEW S \in SUBSET Nat, S # {}
  PROVE  Start!Min(S) \in S /\ \A n \in S : Start!Min(S) <= n
BY Least DEF Start!Min

LEMMA StartMax ==
  ASSUME NEW S \in SUBSET Nat, S # {}, NEW b \in Nat, \A n \in S : n <= b
  PROVE  Start!Max(S) \in S /\ \A n \in S : Start!Max(S) >= n
BY Greatest DEF Start!Max

(* A section that names a fallback for the chain.                          *)
Names(s, c) == s.chain = c /\ s.fallback # Start!Blank

(* What find and find_map come to.                                         *)
FirstOf(s, c) == Start!SelectInSeq(s, LAMBDA x : x.chain = c)

LEMMA Found ==
  ASSUME NEW s, Len(s) \in Nat, NEW c
  PROVE  LET i == FirstOf(s, c)
         IN  \/ i = 0 /\ \A k \in 1..Len(s) : s[k].chain # c
             \/ /\ i \in 1..Len(s) /\ s[i].chain = c
                /\ \A k \in 1..Len(s) : s[k].chain = c => i <= k
<1>. DEFINE I == {k \in 1..Len(s) : s[k].chain = c}
<1>1. I \in SUBSET Nat
  OBVIOUS
<1>2. CASE I = {}
  BY <1>2 DEF FirstOf, Start!SelectInSeq
<1>3. CASE I # {}
  <2>1. Start!Min(I) \in I /\ \A n \in I : Start!Min(I) <= n
    <3>. HIDE DEF I
    <3>. QED
      BY <1>1, <1>3, StartMin
  <2>. QED
    BY <1>3, <2>1 DEF FirstOf, Start!SelectInSeq
<1>. QED
  BY <1>2, <1>3

LEMMA FoundNamed ==
  ASSUME NEW s, Len(s) \in Nat, NEW c
  PROVE  LET i == Start!SelectInSeq(s, LAMBDA x : x.chain = c /\ x.fallback # Start!Blank)
         IN  \/ i = 0 /\ \A k \in 1..Len(s) : ~Names(s[k], c)
             \/ /\ i \in 1..Len(s) /\ Names(s[i], c)
                /\ \A k \in 1..Len(s) : Names(s[k], c) => i <= k
<1>. DEFINE I == {k \in 1..Len(s) : s[k].chain = c /\ s[k].fallback # Start!Blank}
<1>1. I \in SUBSET Nat
  OBVIOUS
<1>2. CASE I = {}
  BY <1>2 DEF Start!SelectInSeq, Names
<1>3. CASE I # {}
  <2>1. Start!Min(I) \in I /\ \A n \in I : Start!Min(I) <= n
    <3>. HIDE DEF I
    <3>. QED
      BY <1>1, <1>3, StartMin
  <2>. QED
    BY <1>3, <2>1 DEF Start!SelectInSeq, Names
<1>. QED
  BY <1>2, <1>3

(* The fallback of the chain, by what find_map comes to.                   *)
NearestIs(s, c, url) ==
  \/ url = Start!Blank /\ \A k \in 1..Len(s) : ~Names(s[k], c)
  \/ \E i \in 1..Len(s) :
       /\ Names(s[i], c) /\ url = s[i].fallback
       /\ \A k \in 1..Len(s) : Names(s[k], c) => i <= k

LEMMA Nearest ==
  ASSUME NEW e, Len(e.sections) \in Nat, NEW c
  PROVE  NearestIs(e.sections, c, Start!FallbackUrl(e, c))
<1>. DEFINE i == Start!SelectInSeq(e.sections, LAMBDA s : s.chain = c /\ s.fallback # Start!Blank)
<1>1. Start!FallbackUrl(e, c) = IF i = 0 THEN Start!Blank ELSE e.sections[i].fallback
  BY DEF Start!FallbackUrl
<1>2. \/ i = 0 /\ \A k \in 1..Len(e.sections) : ~Names(e.sections[k], c)
      \/ /\ i \in 1..Len(e.sections) /\ Names(e.sections[i], c)
         /\ \A k \in 1..Len(e.sections) : Names(e.sections[k], c) => i <= k
  BY FoundNamed
<1>. HIDE DEF i
<1>. QED
  BY <1>1, <1>2 DEF NearestIs

LEMMA NearestOne ==
  ASSUME NEW s, Len(s) \in Nat, NEW c, NEW url, NEW other,
         NearestIs(s, c, url), NearestIs(s, c, other)
  PROVE  url = other
<1>1. \A i, k \in 1..Len(s) : i <= k /\ k <= i => i = k
  OBVIOUS
<1>. QED
  BY <1>1 DEF NearestIs

LEMMA Assigned ==
  ASSUME NEW s \in Seq(Start!Section), NEW c \in Served, NEW url \in Paid
  PROVE  LET r == Start!AssignFallback(s, c, url)
         IN  /\ r \in Seq(Start!Section)
             /\ NearestIs(r, c, url)
             /\ \A d \in Served \ {c} : \A u : NearestIs(s, d, u) => NearestIs(r, d, u)
<1>. DEFINE i == FirstOf(s, c)
            added == Start!NewSection(c, url)
            r == Start!AssignFallback(s, c, url)
<1>1. r = IF i = 0 THEN Append(s, added) ELSE [s EXCEPT ![i].fallback = url]
  BY DEF Start!AssignFallback, FirstOf
<1>2. \/ i = 0 /\ \A k \in 1..Len(s) : s[k].chain # c
      \/ /\ i \in 1..Len(s) /\ s[i].chain = c
         /\ \A k \in 1..Len(s) : s[k].chain = c => i <= k
  <2>1. Len(s) \in Nat
    OBVIOUS
  <2>. QED
    BY <2>1, Found
<1>3. added \in Start!Section /\ added.chain = c /\ added.fallback = url
  BY DEF Start!NewSection, Start!Section
<1>4. url # Start!Blank
  BY ConfigAssumption DEF Start!Blank
<1>. HIDE DEF i, added, r
<1>5. CASE i = 0
  <2>1. /\ r \in Seq(Start!Section) /\ Len(r) = Len(s) + 1 /\ r[Len(s) + 1] = added
        /\ \A k \in 1..Len(s) : r[k] = s[k]
    BY <1>1, <1>3, <1>5
  <2>2. NearestIs(r, c, url)
    <3>1. \A k \in 1..Len(r) : Names(r[k], c) => k = Len(r)
      BY <1>2, <1>5, <2>1 DEF Names
    <3>2. Names(r[Len(r)], c) /\ url = r[Len(r)].fallback /\ Len(r) \in 1..Len(r)
      BY <1>3, <1>4, <2>1 DEF Names
    <3>. QED
      BY <3>1, <3>2 DEF NearestIs
  <2>3. ASSUME NEW d \in Served \ {c}, NEW u, NearestIs(s, d, u) PROVE NearestIs(r, d, u)
    <3>1. \A k \in 1..Len(r) : Names(r[k], d) => k \in 1..Len(s) /\ Names(s[k], d)
      BY <1>3, <2>1 DEF Names
    <3>2. \A k \in 1..Len(s) : k \in 1..Len(r) /\ (Names(s[k], d) => Names(r[k], d))
      BY <2>1
    <3>3. CASE u = Start!Blank /\ \A k \in 1..Len(s) : ~Names(s[k], d)
      BY <3>1, <3>3 DEF NearestIs
    <3>4. CASE \E k \in 1..Len(s) :
                 /\ Names(s[k], d) /\ u = s[k].fallback
                 /\ \A j \in 1..Len(s) : Names(s[j], d) => k <= j
      BY <2>1, <3>1, <3>2, <3>4 DEF NearestIs
    <3>. QED
      BY <2>3, <3>3, <3>4 DEF NearestIs
  <2>. QED
    BY <2>1, <2>2, <2>3 DEF r
<1>6. CASE i # 0
  <2>1. i \in 1..Len(s) /\ s[i] \in Start!Section
    BY <1>2, <1>6
  <2>2. /\ [s[i] EXCEPT !.fallback = url] \in Start!Section
        /\ [s[i] EXCEPT !.fallback = url].chain = c
        /\ [s[i] EXCEPT !.fallback = url].fallback = url
    BY <1>2, <1>6, <2>1 DEF Start!Section
  <2>3. r = [s EXCEPT ![i] = [s[i] EXCEPT !.fallback = url]]
    BY <1>1, <1>6
  <2>4. /\ r \in Seq(Start!Section) /\ Len(r) = Len(s)
        /\ r[i] = [s[i] EXCEPT !.fallback = url]
        /\ \A k \in 1..Len(s) : k # i => r[k] = s[k]
    BY <2>1, <2>2, <2>3
  <2>5. NearestIs(r, c, url)
    BY <1>2, <1>4, <1>6, <2>1, <2>2, <2>4 DEF NearestIs, Names
  <2>6. ASSUME NEW d \in Served \ {c}, NEW u, NearestIs(s, d, u) PROVE NearestIs(r, d, u)
    <3>1. ~Names(s[i], d) /\ ~Names(r[i], d)
      BY <1>2, <1>6, <2>2, <2>4 DEF Names
    <3>. QED
      BY <2>4, <2>6, <3>1 DEF NearestIs
  <2>. QED
    BY <2>4, <2>5, <2>6 DEF r
<1>. QED
  BY <1>5, <1>6

Files ==
  [chains : Seq(Served), deny : SUBSET Served, discovery : BOOLEAN,
   number : [DOMAIN Defaults -> Nat], limited : BOOLEAN, archive : BOOLEAN,
   backend : Start!Backends \cup {"other"}, texts : BOOLEAN, sections : Seq(Start!Section)]

Envs ==
  [chains : Start!Maybe(Seq(Served)), discovery : Start!Maybe(BOOLEAN),
   backend : Start!Maybe(Start!Backends \cup {"other"}),
   name : DOMAIN Defaults, value : Start!Maybe(Nat),
   list : Seq([chain : Served, url : Paid]), single : [Served -> Start!Maybe(Paid)],
   garbled : {"nothing", "list", "settings"}]

(* What the entries assigned so far make the fallback of the chain.        *)
OfList(c) ==
  /\ (\A k \in 1..listed : env.list[k].chain # c)
       => \A u : NearestIs(file.sections, c, u) => NearestIs(config.sections, c, u)
  /\ \A i \in 1..listed :
       env.list[i].chain = c /\ (\A k \in 1..listed : k > i => env.list[k].chain # c)
         => NearestIs(config.sections, c, env.list[i].url)

(* The environment is applied to what the file says, in its order.         *)
Applied ==
  /\ listed \in 0..Len(env.list)
  /\ left \subseteq {c \in Served : env.single[c] # {}}
  /\ \A c \in Served :
       IF env.single[c] # {} /\ c \notin left
         THEN listed = Len(env.list) /\ \E u \in env.single[c] : NearestIs(config.sections, c, u)
         ELSE OfList(c)

ConfigInv ==
  /\ file \in Files /\ config \in Files /\ env \in Envs
  /\ stage \in {"start", "loaded", "settings"} => listed = 0
  /\ stage \in {"loaded", "settings"} => config.sections = file.sections
  /\ stage \in {"list", "running"} => Applied
  /\ stage = "running" => listed = Len(env.list) /\ left = {} /\ Start!Valid(config)

LEMMA OrOf ==
  ASSUME NEW S, NEW maybe \in Start!Maybe(S), NEW before
  PROVE  IF maybe = {} THEN Start!Or(maybe, before) = before
                       ELSE Start!Or(maybe, before) \in maybe /\ Start!Or(maybe, before) \in S
BY DEF Start!Or, Start!Maybe

LEMMA MaybeNone == \A S : {} \in Start!Maybe(S)
BY DEF Start!Maybe

LEMMA MaybeMore ==
  ASSUME NEW S, NEW T, S \subseteq T
  PROVE  Start!Maybe(S) \subseteq Start!Maybe(T)
BY DEF Start!Maybe

LEMMA ShortSeqs ==
  ASSUME NEW S, NEW n \in Nat, NEW s \in Start!BoundedSeq(S, n)
  PROVE  s \in Seq(S)
<1>1. PICK m \in 0..n : s \in [1..m -> S]
  BY DEF Start!BoundedSeq, Start!SeqOf
<1>. QED
  BY <1>1

LEMMA DefaultSound == Start!Default \in Files /\ Start!NoEnv \in Envs
<1>1. Defaults \in [DOMAIN Defaults -> Nat] /\ "cacheBytes" \in DOMAIN Defaults
  BY ConfigAssumption DEF Start!EnvNumbers
<1>2. Start!Default \in Files
  BY <1>1 DEF Start!Default, Files, Start!Backends
<1>3. [c \in Served |-> {}] \in [Served -> Start!Maybe(Paid)]
  BY MaybeNone
<1>4. <<>> \in Seq([chain : Served, url : Paid])
  OBVIOUS
<1>5. Start!NoEnv \in Envs
  BY <1>1, <1>3, <1>4, MaybeNone DEF Start!NoEnv, Envs
<1>. QED
  BY <1>2, <1>5

(* At the end each chain has its own variable, or its last entry, or its   *)
(* section of the file.                                                    *)
LEMMA NearestSound == ConfigInv => FallbackIsNearest
<1>. SUFFICES ASSUME ConfigInv, stage = "running", NEW c \in Served
     PROVE  LET l == Start!SelectLastInSeq(env.list, LAMBDA e : e.chain = c)
            IN  Start!FallbackUrl(config, c) =
                  Start!Or(env.single[c], IF l # 0 THEN env.list[l].url
                                          ELSE Start!FallbackUrl(file, c))
  BY DEF FallbackIsNearest, Start!FallbackIsNearest, Start!Running, Start!LastListed
<1>. DEFINE l == Start!SelectLastInSeq(env.list, LAMBDA e : e.chain = c)
            I == {k \in 1..Len(env.list) : env.list[k].chain = c}
<1>1. listed = Len(env.list) /\ left = {} /\ Applied /\ Len(config.sections) \in Nat /\ env \in Envs
  BY DEF ConfigInv, Files
<1>2. Len(env.list) \in Nat /\ env.single[c] \in Start!Maybe(Paid)
  BY <1>1 DEF Envs
<1>3. NearestIs(config.sections, c, Start!FallbackUrl(config, c))
  BY <1>1, Nearest
<1>4. \/ l = 0 /\ \A k \in 1..Len(env.list) : env.list[k].chain # c
      \/ /\ l \in 1..Len(env.list) /\ env.list[l].chain = c
         /\ \A k \in 1..Len(env.list) : env.list[k].chain = c => k <= l
  <2>1. CASE I = {}
    BY <2>1 DEF Start!SelectLastInSeq
  <2>2. CASE I # {}
    <3>1. I \in SUBSET Nat /\ \A n \in I : n <= Len(env.list)
      BY <1>2
    <3>2. Start!Max(I) \in I /\ \A n \in I : Start!Max(I) >= n
      <4>. HIDE DEF I
      <4>. QED
        BY <1>2, <2>2, <3>1, StartMax
    <3>. QED
      BY <1>2, <2>2, <3>2 DEF Start!SelectLastInSeq
  <2>. QED
    BY <2>1, <2>2
<1>. HIDE DEF l, I
<1>5. CASE env.single[c] # {}
  <2>1. PICK u \in env.single[c] : NearestIs(config.sections, c, u)
    BY <1>1, <1>5 DEF Applied
  <2>2. Start!FallbackUrl(config, c) = u
    BY <1>1, <1>3, <2>1, NearestOne
  <2>3. Start!Or(env.single[c], IF l # 0 THEN env.list[l].url ELSE Start!FallbackUrl(file, c)) = u
    BY <1>2, <2>1 DEF Start!Or, Start!Maybe
  <2>. QED
    BY <2>2, <2>3 DEF l
<1>6. CASE env.single[c] = {}
  <2>1. OfList(c)
    BY <1>1, <1>6 DEF Applied
  <2>2. NearestIs(config.sections, c,
                  IF l # 0 THEN env.list[l].url ELSE Start!FallbackUrl(file, c))
    <3>1. Len(file.sections) \in Nat
      BY DEF ConfigInv, Files
    <3>2. NearestIs(file.sections, c, Start!FallbackUrl(file, c))
      BY <3>1, Nearest
    <3>. QED
      BY <1>1, <1>2, <1>4, <2>1, <3>2 DEF OfList
  <2>3. Start!FallbackUrl(config, c) =
          IF l # 0 THEN env.list[l].url ELSE Start!FallbackUrl(file, c)
    BY <1>1, <1>3, <2>2, NearestOne
  <2>. QED
    BY <1>6, <2>3 DEF Start!Or, l
<1>. QED
  BY <1>5, <1>6

(* The program can start in states that the invariant allows.              *)
LEMMA SectionsSound ==
  ASSUME NEW e \in Files, NEW s \in Start!BoundedSeq(Start!Section, MaxSections)
  PROVE  [e EXCEPT !.sections = s] \in Files
<1>1. s \in Seq(Start!Section)
  BY ShortSeqs, ConfigAssumption
<1>. QED
  BY <1>1 DEF Files

LEMMA ChainsSound ==
  ASSUME NEW e \in Files, NEW cs \in Start!BoundedSeq(Served, 2), NEW d \in SUBSET Served,
         NEW b \in BOOLEAN
  PROVE  [e EXCEPT !.chains = cs, !.deny = d, !.discovery = b] \in Files
<1>1. cs \in Seq(Served)
  BY ShortSeqs
<1>. QED
  BY <1>1 DEF Files

LEMMA NumbersSound ==
  ASSUME NEW e \in Files, NEW n, NEW v \in Nat, NEW b \in BOOLEAN
  PROVE  [e EXCEPT !.number[n] = v, !.limited = b, !.archive = b] \in Files
<1>1. [e.number EXCEPT ![n] = v] \in [DOMAIN Defaults -> Nat]
  BY DEF Files
<1>. QED
  BY <1>1 DEF Files

LEMMA BackendSound ==
  ASSUME NEW e \in Files, NEW k \in Start!Backends \cup {"other"}, NEW b \in BOOLEAN
  PROVE  [e EXCEPT !.backend = k, !.texts = b] \in Files
BY DEF Files

LEMMA GarbledSound ==
  ASSUME NEW e \in Envs, NEW g \in {"nothing", "list", "settings"}
  PROVE  [e EXCEPT !.garbled = g] \in Envs
BY DEF Envs

LEMMA ListSaid ==
  ASSUME NEW e \in Envs, NEW l \in Start!BoundedSeq([chain : Served, url : Paid], MaxListed),
         NEW s \in [Served -> Start!Maybe(Paid)]
  PROVE  [e EXCEPT !.list = l, !.single = s] \in Envs
<1>1. l \in Seq([chain : Served, url : Paid])
  BY ShortSeqs, ConfigAssumption
<1>. QED
  BY <1>1 DEF Envs

LEMMA ChainsSaid ==
  ASSUME NEW e \in Envs, NEW cs \in Start!Maybe(Start!BoundedSeq(Served, 2)),
         NEW b \in Start!Maybe(BOOLEAN)
  PROVE  [e EXCEPT !.chains = cs, !.discovery = b] \in Envs
<1>1. Start!BoundedSeq(Served, 2) \subseteq Seq(Served)
  BY ShortSeqs
<1>2. cs \in Start!Maybe(Seq(Served))
  BY <1>1, MaybeMore
<1>. QED
  BY <1>2 DEF Envs

LEMMA NumberSaid ==
  ASSUME NEW e \in Envs, NEW n \in Start!EnvNumbers, NEW v \in Start!Maybe({0, 1}),
         NEW k \in Start!Maybe({"memory", "other"})
  PROVE  [e EXCEPT !.name = n, !.value = v, !.backend = k] \in Envs
<1>1. n \in DOMAIN Defaults
  BY ConfigAssumption
<1>2. v \in Start!Maybe(Nat)
  <2>1. {0, 1} \subseteq Nat
    OBVIOUS
  <2>. QED
    BY <2>1, MaybeMore
<1>3. k \in Start!Maybe(Start!Backends \cup {"other"})
  <2>1. {"memory", "other"} \subseteq Start!Backends \cup {"other"}
    BY DEF Start!Backends
  <2>. QED
    BY <2>1, MaybeMore
<1>. QED
  BY <1>1, <1>2, <1>3 DEF Envs

WithChains(cs, d, b) == [Start!Default EXCEPT !.chains = cs, !.deny = d, !.discovery = b]
WithBackend(k, b) == [Start!Default EXCEPT !.backend = k, !.texts = b]
WithNumber(n, v, b) == [Start!Default EXCEPT !.number[n] = v, !.limited = b, !.archive = b]
SayList(l, s) == [Start!NoEnv EXCEPT !.list = l, !.single = s]
SayChains(cs, b) == [Start!NoEnv EXCEPT !.chains = cs, !.discovery = b]
SayNumber(n, v, k) == [Start!NoEnv EXCEPT !.name = n, !.value = v, !.backend = k]
SayBad(g) == [Start!NoEnv EXCEPT !.garbled = g]

LEMMA Said ==
  /\ Start!ChainFiles =
       {WithChains(cs, d, b) :
          cs \in Start!BoundedSeq(Served, 2), d \in SUBSET Served, b \in BOOLEAN}
  /\ Start!NumberFiles =
       {WithNumber(n, v, b) : n \in Start!Numbers, v \in Start!Edges, b \in BOOLEAN}
       \cup {WithBackend(k, b) : k \in Start!Backends \cup {"other"}, b \in BOOLEAN}
  /\ Start!FallbackEnvs =
       {SayList(l, s) :
          l \in Start!BoundedSeq([chain : Served, url : Paid], MaxListed),
          s \in [Served -> Start!Maybe(Paid)]}
       \cup {SayBad("list")}
  /\ Start!ChainEnvs =
       {SayChains(cs, b) :
          cs \in Start!Maybe(Start!BoundedSeq(Served, 2)), b \in Start!Maybe(BOOLEAN)}
       \cup {SayBad("settings")}
  /\ Start!NumberEnvs =
       {SayNumber(n, v, k) :
          n \in Start!EnvNumbers, v \in Start!Maybe({0, 1}),
          k \in Start!Maybe({"memory", "other"})}
BY DEF Start!ChainFiles, Start!NumberFiles, Start!FallbackEnvs, Start!ChainEnvs,
   Start!NumberEnvs, WithChains, WithBackend, WithNumber, SayList, SayChains, SayNumber, SayBad

LEMMA FilesSound ==
  Start!FallbackFiles \cup Start!ChainFiles \cup Start!NumberFiles \subseteq Files
<1>1. Start!Default \in Files /\ Start!Edges \subseteq Nat
  BY DefaultSound, ConfigAssumption DEF Start!Edges
<1>2. ASSUME NEW e \in Start!FallbackFiles PROVE e \in Files
  <2>1. PICK s \in Start!BoundedSeq(Start!Section, MaxSections) :
          e = [Start!Default EXCEPT !.sections = s]
    BY <1>2 DEF Start!FallbackFiles
  <2>. QED
    BY <1>1, <2>1, SectionsSound
<1>3. \A cs \in Start!BoundedSeq(Served, 2), d \in SUBSET Served, b \in BOOLEAN :
        WithChains(cs, d, b) \in Files
  BY <1>1, ChainsSound DEF WithChains
<1>4. \A n \in Start!Numbers, v \in Start!Edges, b \in BOOLEAN : WithNumber(n, v, b) \in Files
  BY <1>1, NumbersSound DEF WithNumber
<1>5. \A k \in Start!Backends \cup {"other"}, b \in BOOLEAN : WithBackend(k, b) \in Files
  BY <1>1, BackendSound DEF WithBackend
<1>6. Start!ChainFiles \subseteq Files
  BY <1>3, Said
<1>7. Start!NumberFiles \subseteq Files
  BY <1>4, <1>5, Said
<1>. QED
  BY <1>2, <1>6, <1>7

LEMMA EnvsSound == Start!FallbackEnvs \cup Start!ChainEnvs \cup Start!NumberEnvs \subseteq Envs
<1>1. Start!NoEnv \in Envs
  BY DefaultSound
<1>2. SayBad("list") \in Envs /\ SayBad("settings") \in Envs
  BY <1>1, GarbledSound DEF SayBad
<1>3. \A l \in Start!BoundedSeq([chain : Served, url : Paid], MaxListed),
         s \in [Served -> Start!Maybe(Paid)] : SayList(l, s) \in Envs
  BY <1>1, ListSaid DEF SayList
<1>4. \A cs \in Start!Maybe(Start!BoundedSeq(Served, 2)), b \in Start!Maybe(BOOLEAN) :
        SayChains(cs, b) \in Envs
  BY <1>1, ChainsSaid DEF SayChains
<1>5. \A n \in Start!EnvNumbers, v \in Start!Maybe({0, 1}), k \in Start!Maybe({"memory", "other"}) :
        SayNumber(n, v, k) \in Envs
  BY <1>1, NumberSaid DEF SayNumber
<1>6. Start!FallbackEnvs \subseteq Envs
  <2>. DEFINE L == Start!BoundedSeq([chain : Served, url : Paid], MaxListed)
              S == [Served -> Start!Maybe(Paid)]
  <2>1. Start!FallbackEnvs = {SayList(l, s) : l \in L, s \in S} \cup {SayBad("list")}
    BY Said
  <2>2. \A l \in L, s \in S : SayList(l, s) \in Envs
    BY <1>3
  <2>. HIDE DEF L, S
  <2>. QED
    BY <1>2, <2>1, <2>2
<1>7. Start!ChainEnvs \subseteq Envs
  BY <1>2, <1>4, Said
<1>8. Start!NumberEnvs \subseteq Envs
  BY <1>5, Said
<1>. QED
  BY <1>6, <1>7, <1>8

LEMMA ConfigStarts == Start!Init => ConfigInv
<1>. SUFFICES ASSUME Start!Init PROVE ConfigInv
  OBVIOUS
<1>1. stage = "start" /\ config = Start!Default /\ listed = 0 /\ left = {}
  BY DEF Start!Init
<1>2. file \in Files /\ env \in Envs
  BY FilesSound, EnvsSound DEF Start!Init
<1>. QED
  BY <1>1, <1>2, DefaultSound DEF ConfigInv

LEMMA LoadKeeps == ConfigInv /\ Start!Load => ConfigInv'
<1>. SUFFICES ASSUME ConfigInv, Start!Load PROVE ConfigInv'
  OBVIOUS
<1>1. /\ stage = "start" /\ UNCHANGED <<file, env, listed, left>>
      /\ \/ stage' = "loaded" /\ config' = file
         \/ stage' = "refused" /\ config' = config
  BY DEF Start!Load, Start!Refuse
<1>. QED
  BY <1>1 DEF ConfigInv

LEMMA SettingsKeeps == ConfigInv /\ Start!ApplySettings => ConfigInv'
<1>. SUFFICES ASSUME ConfigInv, Start!ApplySettings PROVE ConfigInv'
  OBVIOUS
<1>1. stage = "loaded" /\ UNCHANGED <<file, env, listed, left>>
  BY DEF Start!ApplySettings
<1>2. CASE stage' = "refused" /\ config' = config
  BY <1>1, <1>2 DEF ConfigInv
<1>3. CASE /\ stage' = "settings"
           /\ config' = [config EXCEPT !.chains = Start!Or(env.chains, @),
                                       !.discovery = Start!Or(env.discovery, @),
                                       !.number[env.name] = Start!Or(env.value, @),
                                       !.backend = Start!Or(env.backend, @)]
  <2>1. config \in Files /\ env \in Envs
    BY DEF ConfigInv
  <2>2. Start!Or(env.chains, config.chains) \in Seq(Served)
    BY <2>1, OrOf DEF Files, Envs
  <2>3. Start!Or(env.discovery, config.discovery) \in BOOLEAN
    BY <2>1, OrOf DEF Files, Envs
  <2>4. Start!Or(env.value, config.number[env.name]) \in Nat
    <3>1. env.value \in Start!Maybe(Nat) /\ config.number[env.name] \in Nat
      BY <2>1 DEF Files, Envs
    <3>. QED
      BY <3>1, OrOf
  <2>5. Start!Or(env.backend, config.backend) \in Start!Backends \cup {"other"}
    <3>. DEFINE K == Start!Backends \cup {"other"}
    <3>1. env.backend \in Start!Maybe(K) /\ config.backend \in K
      BY <2>1 DEF Files, Envs
    <3>. HIDE DEF K
    <3>2. Start!Or(env.backend, config.backend) \in K
      BY <3>1, OrOf
    <3>. QED
      BY <3>2 DEF K
  <2>6. [config.number EXCEPT ![env.name] = Start!Or(env.value, config.number[env.name])]
          \in [DOMAIN Defaults -> Nat]
    BY <2>1, <2>4 DEF Files
  <2>7. config' \in Files /\ config'.sections = config.sections
    BY <1>3, <2>1, <2>2, <2>3, <2>5, <2>6 DEF Files
  <2>. QED
    BY <1>1, <1>3, <2>7 DEF ConfigInv
<1>. QED
  BY <1>2, <1>3 DEF Start!ApplySettings, Start!Refuse

LEMMA ParseKeeps == ConfigInv /\ Start!ParseList => ConfigInv'
<1>. SUFFICES ASSUME ConfigInv, Start!ParseList PROVE ConfigInv'
  OBVIOUS
<1>1. /\ stage = "settings" /\ UNCHANGED <<file, env, config, listed>>
      /\ left' = {c \in Served : env.single[c] # {}} /\ stage' \in {"list", "refused"}
  BY DEF Start!ParseList, Start!Refuse
<1>2. listed = 0 /\ config.sections = file.sections /\ file \in Files /\ env \in Envs
  BY <1>1 DEF ConfigInv
<1>3. \A c \in Served : OfList(c)'
  BY <1>1, <1>2 DEF OfList
<1>4. Len(env.list) \in Nat
  BY <1>2 DEF Envs
<1>5. Applied'
  BY <1>1, <1>2, <1>3, <1>4 DEF Applied
<1>. QED
  BY <1>1, <1>2, <1>5 DEF ConfigInv

(* What an assignment leaves of the configuration.                         *)
LEMMA AssignSound ==
  ASSUME config \in Files, NEW c \in Served, NEW url \in Paid,
         config' = [config EXCEPT !.sections = Start!AssignFallback(@, c, url)]
  PROVE  /\ config' \in Files
         /\ NearestIs(config'.sections, c, url)
         /\ \A d \in Served \ {c} : \A u :
              NearestIs(config.sections, d, u) => NearestIs(config'.sections, d, u)
<1>1. config.sections \in Seq(Start!Section)
  BY DEF Files
<1>. DEFINE r == Start!AssignFallback(config.sections, c, url)
<1>2. /\ r \in Seq(Start!Section) /\ NearestIs(r, c, url)
      /\ \A d \in Served \ {c} : \A u : NearestIs(config.sections, d, u) => NearestIs(r, d, u)
  BY <1>1, Assigned
<1>. HIDE DEF r
<1>3. config' = [config EXCEPT !.sections = r]
  BY DEF r
<1>4. config' \in Files /\ config'.sections = r
  BY <1>2, <1>3 DEF Files
<1>. QED
  BY <1>2, <1>4

LEMMA ListedKeeps == ConfigInv /\ Start!ApplyListed => ConfigInv'
<1>. SUFFICES ASSUME ConfigInv, Start!ApplyListed PROVE ConfigInv'
  OBVIOUS
<1>1. /\ stage = "list" /\ listed < Len(env.list) /\ listed' = listed + 1
      /\ config' = [config EXCEPT !.sections =
           Start!AssignFallback(@, env.list[listed'].chain, env.list[listed'].url)]
      /\ UNCHANGED <<file, env, stage, left>>
  BY DEF Start!ApplyListed
<1>2. file \in Files /\ config \in Files /\ env \in Envs /\ Applied
  BY <1>1 DEF ConfigInv
<1>3. env.list \in Seq([chain : Served, url : Paid]) /\ listed \in 0..Len(env.list)
  BY <1>2 DEF Envs, Applied
<1>. DEFINE e == env.list[listed + 1]
<1>4. e \in [chain : Served, url : Paid] /\ listed' \in 1..Len(env.list)
  <2>1. Len(env.list) \in Nat /\ listed + 1 \in 1..Len(env.list)
    BY <1>1, <1>3
  <2>. DEFINE E == [chain : Served, url : Paid]
  <2>2. env.list \in Seq(E)
    BY <1>3
  <2>. HIDE DEF E
  <2>3. e \in E
    BY <2>1, <2>2
  <2>. QED
    BY <1>1, <2>1, <2>3 DEF E
<1>5. e.chain \in Served /\ e.url \in Paid
  BY <1>4
<1>. HIDE DEF e
<1>6. config' = [config EXCEPT !.sections = Start!AssignFallback(@, e.chain, e.url)]
  BY <1>1 DEF e
<1>7. /\ config' \in Files
      /\ NearestIs(config'.sections, e.chain, e.url)
      /\ \A d \in Served \ {e.chain} : \A u :
           NearestIs(config.sections, d, u) => NearestIs(config'.sections, d, u)
  BY <1>2, <1>5, <1>6, AssignSound
<1>8. \A c \in Served : (env.single[c] = {} \/ c \in left) /\ OfList(c)
  BY <1>1, <1>2, <1>3 DEF Applied
<1>9. ASSUME NEW c \in Served PROVE OfList(c)'
  <2>1. OfList(c)
    BY <1>8
  <2>2. CASE c = e.chain
    <3>1. env.list[listed'].chain = c /\ env.list[listed'].url = e.url /\ listed' \in 1..listed'
      BY <1>1, <1>3, <2>2 DEF e
    <3>2. NearestIs(config'.sections, c, e.url)
      BY <1>7, <2>2
    <3>3. \A i \in 1..listed' : (\A k \in 1..listed' : k > i => env.list[k].chain # c) => i = listed'
      BY <1>1, <1>3, <3>1
    <3>. QED
      BY <1>1, <3>1, <3>2, <3>3 DEF OfList
  <2>3. CASE c # e.chain
    <3>1. env.list[listed'].chain # c
      BY <1>1, <2>3 DEF e
    <3>2. 1..listed' = 1..listed \cup {listed'}
      BY <1>1, <1>3
    <3>3. \A u : NearestIs(config.sections, c, u) => NearestIs(config'.sections, c, u)
      BY <1>7, <2>3
    <3>4. (\A k \in 1..listed' : env.list[k].chain # c)
            => \A u : NearestIs(file.sections, c, u) => NearestIs(config'.sections, c, u)
      BY <2>1, <3>2, <3>3 DEF OfList
    <3>5. ASSUME NEW i \in 1..listed', env.list[i].chain = c,
                 \A k \in 1..listed' : k > i => env.list[k].chain # c
          PROVE  NearestIs(config'.sections, c, env.list[i].url)
      <4>1. i \in 1..listed
        BY <3>1, <3>2, <3>5
      <4>2. \A k \in 1..listed : k > i => env.list[k].chain # c
        BY <3>2, <3>5
      <4>. QED
        BY <2>1, <3>3, <3>5, <4>1, <4>2 DEF OfList
    <3>. QED
      BY <1>1, <3>4, <3>5 DEF OfList
  <2>. QED
    BY <2>2, <2>3
<1>10. Applied'
  BY <1>1, <1>2, <1>3, <1>4, <1>8, <1>9 DEF Applied
<1>. QED
  BY <1>1, <1>2, <1>7, <1>10 DEF ConfigInv

LEMMA SingleKeeps ==
  ASSUME NEW c \in Served, ConfigInv, Start!ApplySingle(c) PROVE ConfigInv'
<1>1. /\ stage = "list" /\ listed = Len(env.list) /\ c \in left /\ left' = left \ {c}
      /\ config' = [config EXCEPT !.sections =
           Start!AssignFallback(@, c, Start!Or(env.single[c], Start!Blank))]
      /\ UNCHANGED <<file, env, stage, listed>>
  BY DEF Start!ApplySingle
<1>2. file \in Files /\ config \in Files /\ env \in Envs /\ Applied
  BY <1>1 DEF ConfigInv
<1>. DEFINE url == Start!Or(env.single[c], Start!Blank)
<1>3. url \in Paid /\ url \in env.single[c]
  <2>1. env.single[c] \in Start!Maybe(Paid) /\ env.single[c] # {}
    BY <1>1, <1>2 DEF Envs, Applied
  <2>. QED
    BY <2>1, OrOf
<1>. HIDE DEF url
<1>4. config' = [config EXCEPT !.sections = Start!AssignFallback(@, c, url)]
  BY <1>1 DEF url
<1>5. /\ config' \in Files
      /\ NearestIs(config'.sections, c, url)
      /\ \A d \in Served \ {c} : \A u :
           NearestIs(config.sections, d, u) => NearestIs(config'.sections, d, u)
  BY <1>2, <1>3, <1>4, AssignSound
<1>6. ASSUME NEW d \in Served
      PROVE  IF env.single[d] # {} /\ d \notin left'
               THEN listed = Len(env.list) /\ \E u \in env.single[d] : NearestIs(config'.sections, d, u)
               ELSE OfList(d)'
  <2>1. CASE d = c
    BY <1>1, <1>3, <1>5, <2>1
  <2>2. CASE d # c
    <3>1. \A u : NearestIs(config.sections, d, u) => NearestIs(config'.sections, d, u)
      BY <1>5, <2>2
    <3>2. d \in left' <=> d \in left
      BY <1>1, <2>2
    <3>3. OfList(d) => OfList(d)'
      BY <1>1, <3>1 DEF OfList
    <3>. QED
      BY <1>1, <1>2, <3>1, <3>2, <3>3 DEF Applied
  <2>. QED
    BY <2>1, <2>2
<1>7. Applied'
  <2>1. listed' \in 0..Len(env'.list) /\ left' \subseteq {d \in Served : env'.single[d] # {}}
    BY <1>1, <1>2 DEF Applied
  <2>. QED
    BY <1>1, <1>6, <2>1 DEF Applied
<1>. QED
  BY <1>1, <1>2, <1>5, <1>7 DEF ConfigInv

LEMMA AcceptKeeps == ConfigInv /\ Start!Accept => ConfigInv'
<1>. SUFFICES ASSUME ConfigInv, Start!Accept PROVE ConfigInv'
  OBVIOUS
<1>1. /\ stage = "list" /\ listed = Len(env.list) /\ left = {}
      /\ UNCHANGED <<file, env, config, listed, left>>
      /\ (stage' = "running" /\ Start!Valid(config)) \/ stage' = "refused"
  BY DEF Start!Accept, Start!Refuse
<1>2. Applied => Applied'
  BY <1>1 DEF Applied, OfList
<1>3. Start!Valid(config) => Start!Valid(config')
  BY <1>1
<1>. QED
  BY <1>1, <1>2, <1>3 DEF ConfigInv, Start!Valid

LEMMA ConfigKept == ConfigInv /\ [Start!Next]_(Start!vars) => ConfigInv'
<1>. SUFFICES ASSUME ConfigInv, [Start!Next]_(Start!vars) PROVE ConfigInv'
  OBVIOUS
<1>1. CASE UNCHANGED Start!vars
  <2>1. UNCHANGED <<file, env, stage, config, listed, left>>
    BY <1>1 DEF Start!vars
  <2>. QED
    BY <2>1 DEF ConfigInv, Applied, OfList, Start!Valid
<1>2. CASE Start!Next
  BY <1>2, LoadKeeps, SettingsKeeps, ParseKeeps, ListedKeeps, SingleKeeps, AcceptKeeps
  DEF Start!Next
<1>. QED
  BY <1>1, <1>2

(* config.rs assign_fallback: the fallback of a chain is what was said of  *)
(* it last, however many sections the file has for it.                     *)
THEOREM NearestTheorem == Start!Spec => []FallbackIsNearest
BY ConfigStarts, ConfigKept, NearestSound, PTL DEF Start!Spec
=============================================================================
