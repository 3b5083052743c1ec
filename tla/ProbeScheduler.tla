----------------------------- MODULE ProbeScheduler -----------------------------
(***************************************************************************)
(* Which endpoint is probed when (src/probe.rs): a scheduler task turns    *)
(* due times and activations of chains into entries of a bounded queue,    *)
(* a pool of workers takes them out, a set of keys keeps an endpoint from  *)
(* being queued twice, and a counter shows the depth of the queue.         *)
(*                                                                         *)
(* Times are abstract: a schedule entry is due or will be, a cooldown runs *)
(* or has run out. Activations arrive through a broadcast channel that     *)
(* forgets its oldest messages when the scheduler lags.                    *)
(***************************************************************************)
EXTENDS Naturals, Sequences, FiniteSets

CONSTANTS
  Chains,
  Urls,
  ChainOf,         \* the chain of each endpoint
  Capacity,        \* of the queue
  KickCapacity,    \* of the broadcast channel
  MaxConcurrency,  \* probe.max_concurrency
  Width,           \* the counter wraps at this value
  MaxEvents        \* activations, demotions and cooldowns

VARIABLES
  hot,        \* chains with endpoints in the registry
  status,     \* of each endpoint: does it cool, or did its cooldown run out
  due,        \* schedules: no entry, later, or due
  kicks,      \* the scheduler's side of the broadcast
  queue,      \* the channel
  queued,     \* the set of keys
  depth,      \* queue_depth
  scheduler,  \* where ProbeManager::run is, and what it still has to enqueue
  pool,       \* where worker_pool is
  probe,      \* where the probe task of each endpoint is
  count       \* of the bounded events

vars == <<hot, status, due, kicks, queue, queued, depth, scheduler, pool, probe, count>>

Queued == {queue[i] : i \in DOMAIN queue}
Active == {u \in Urls : probe[u] # "none"}
Targets(c) == {u \in Urls : ChainOf[u] = c /\ c \in hot}

Sleeping == [at |-> "asleep", left |-> {}, sent |-> {}, locked |-> FALSE]
Waiting == [at |-> "waiting", got |-> {}]

(* fetch_add and fetch_sub wrap: the worker may come before the scheduler. *)
Plus(d) == (d + 1) % Width

(* Mutant: the depth stops at zero.                                        *)
MinusSaturating(d) == IF d = 0 THEN 0 ELSE d - 1

Minus(d) == (d + Width - 1) % Width

Init ==
  /\ hot \in SUBSET Chains
  /\ status = [u \in Urls |-> "fine"]
  /\ due = [u \in Urls |-> "none"]
  /\ kicks = <<>> /\ queue = <<>> /\ queued = {} /\ depth = 0
  /\ scheduler = Sleeping /\ pool = Waiting
  /\ probe = [u \in Urls |-> "none"]
  /\ count = 0

-----------------------------------------------------------------------------
(* The surroundings                                                        *)

Happens == count < MaxEvents /\ count' = count + 1

(* The channel forgets its oldest message; the receiver sees a lag.        *)
Sent(messages, c) ==
  IF Len(messages) < KickCapacity THEN Append(messages, c) ELSE Append(Tail(messages), c)

Activate(c) ==
  /\ c \notin hot /\ Happens
  /\ hot' = hot \cup {c}
  /\ kicks' = Sent(kicks, c)
  /\ status' = [u \in Urls |-> IF ChainOf[u] = c THEN "fine" ELSE status[u]]
  /\ UNCHANGED <<due, queue, queued, depth, scheduler, pool, probe>>

Demote(c) ==
  /\ c \in hot /\ Happens
  /\ hot' = hot \ {c}
  /\ UNCHANGED <<status, due, kicks, queue, queued, depth, scheduler, pool, probe>>

Cool(u) ==
  /\ ChainOf[u] \in hot /\ status[u] = "fine" /\ Happens
  /\ status' = [status EXCEPT ![u] = "cooling"]
  /\ UNCHANGED <<hot, due, kicks, queue, queued, depth, scheduler, pool, probe>>

CooldownRunsOut(u) ==
  /\ status[u] = "cooling"
  /\ status' = [status EXCEPT ![u] = "expired"]
  /\ UNCHANGED <<hot, due, kicks, queue, queued, depth, scheduler, pool, probe, count>>

BecomesDue(u) ==
  /\ due[u] = "later"
  /\ due' = [due EXCEPT ![u] = "due"]
  /\ UNCHANGED <<hot, status, kicks, queue, queued, depth, scheduler, pool, probe, count>>

-----------------------------------------------------------------------------
(* The scheduler                                                           *)

(* Under the lock of the schedules: entries of endpoints that are gone are *)
(* dropped, a cooling endpoint is due when it has cooled, a due one is     *)
(* rescheduled and will be queued.                                         *)
ScheduleDueProbes ==
  /\ scheduler.at = "asleep"
  /\ LET listed == UNION {Targets(c) : c \in hot}
         next == {u \in listed : status[u] # "cooling" /\ due[u] # "later"}
     IN /\ due' = [u \in Urls |-> IF u \notin listed THEN "none"
                                  ELSE IF u \in next \/ status[u] = "cooling" THEN "later" ELSE due[u]]
        /\ scheduler' = [Sleeping EXCEPT !.at = "enqueue", !.left = next]
  /\ UNCHANGED <<hot, status, kicks, queue, queued, depth, pool, probe, count>>

(* A kick makes every endpoint of the chain that is not scheduled for      *)
(* later due at once, and keeps the lock while it queues them.             *)
ProcessKick ==
  /\ scheduler.at = "enqueue" /\ scheduler.left = {} /\ kicks # <<>>
  /\ LET targets == Targets(Head(kicks))
         kicked == {u \in targets : status[u] # "cooling" /\ due[u] # "later"}
     IN /\ due' = [u \in Urls |-> IF u \in targets THEN "later" ELSE due[u]]
        /\ scheduler' = [Sleeping EXCEPT !.at = "enqueue", !.left = kicked, !.locked = kicked # {}]
  /\ kicks' = Tail(kicks)
  /\ UNCHANGED <<hot, status, queue, queued, depth, pool, probe, count>>

NoMoreKicks ==
  /\ scheduler.at = "enqueue" /\ scheduler.left = {} /\ kicks = <<>>
  /\ scheduler' = Sleeping
  /\ UNCHANGED <<hot, status, due, kicks, queue, queued, depth, pool, probe, count>>

Onward(u) == [scheduler EXCEPT !.left = @ \ {u}, !.locked = @ /\ scheduler.left # {u}]

(* enqueue, under the lock of the set of keys.                             *)
AlreadyQueued(u) ==
  /\ scheduler.at = "enqueue" /\ u \in scheduler.left /\ u \in queued
  /\ scheduler' = Onward(u)
  /\ UNCHANGED <<hot, status, due, kicks, queue, queued, depth, pool, probe, count>>

TrySendUnchecked(u) ==
  /\ scheduler.at = "enqueue" /\ u \in scheduler.left /\ Len(queue) < Capacity
  /\ queue' = Append(queue, u)
  /\ queued' = queued \cup {u}
  /\ scheduler' = [Onward(u) EXCEPT !.at = "add"]
  /\ UNCHANGED <<hot, status, due, kicks, depth, pool, probe, count>>

TrySend(u) ==
  /\ scheduler.at = "enqueue" /\ u \in scheduler.left
  /\ u \notin queued /\ Len(queue) < Capacity
  /\ queue' = Append(queue, u)
  /\ queued' = queued \cup {u}
  /\ scheduler' = [Onward(u) EXCEPT !.at = "add"]
  /\ UNCHANGED <<hot, status, due, kicks, depth, pool, probe, count>>

(* The key is taken out again; the endpoint waits for its next due time.   *)
QueueFull(u) ==
  /\ scheduler.at = "enqueue" /\ u \in scheduler.left
  /\ u \notin queued /\ Len(queue) = Capacity
  /\ scheduler' = Onward(u)
  /\ UNCHANGED <<hot, status, due, kicks, queue, queued, depth, pool, probe, count>>

(* Only now is the depth raised; a worker may have received the entry.     *)
AddDepth ==
  /\ scheduler.at = "add"
  /\ depth' = Plus(depth)
  /\ scheduler' = [scheduler EXCEPT !.at = "enqueue"]
  /\ UNCHANGED <<hot, status, due, kicks, queue, queued, pool, probe, count>>

-----------------------------------------------------------------------------
(* The workers                                                             *)

Receive ==
  /\ pool.at = "waiting" /\ Cardinality(Active) < MaxConcurrency /\ queue # <<>>
  /\ pool' = [at |-> "mark", got |-> {Head(queue)}]
  /\ queue' = Tail(queue)
  /\ UNCHANGED <<hot, status, due, kicks, queued, depth, scheduler, probe, count>>

MarkReceived ==
  /\ pool.at = "mark"
  /\ depth' = Minus(depth)
  /\ probe' = [u \in Urls |-> IF u \in pool.got THEN "begin" ELSE probe[u]]
  /\ pool' = Waiting
  /\ UNCHANGED <<hot, status, due, kicks, queue, queued, scheduler, count>>

(* begin_probe refuses an endpoint that was cooled since it was queued.    *)
ProbeBegins(u) ==
  /\ probe[u] = "begin"
  /\ IF status[u] = "cooling"
       THEN probe' = [probe EXCEPT ![u] = "ended"] /\ UNCHANGED status
       ELSE /\ probe' = [probe EXCEPT ![u] = "call"]
            /\ status' = [status EXCEPT ![u] = "fine"]
  /\ UNCHANGED <<hot, due, kicks, queue, queued, depth, scheduler, pool, count>>

ProbeEnds(u) ==
  /\ probe[u] = "call"
  /\ probe' = [probe EXCEPT ![u] = "ended"]
  /\ UNCHANGED <<hot, status, due, kicks, queue, queued, depth, scheduler, pool, count>>

ScheduleAfterCompletion(u) ==
  /\ probe[u] = "ended" /\ ~scheduler.locked
  /\ due' = [due EXCEPT ![u] = "later"]
  /\ probe' = [probe EXCEPT ![u] = "scheduled"]
  /\ UNCHANGED <<hot, status, kicks, queue, queued, depth, scheduler, pool, count>>

(* The guard of the task: `enqueue` holds the same lock until it has       *)
(* raised the depth.                                                       *)
CompleteKeepsKey(u) ==
  /\ probe[u] = "scheduled" /\ scheduler.at # "add"
  /\ probe' = [probe EXCEPT ![u] = "none"]
  /\ UNCHANGED <<hot, status, due, kicks, queue, queued, depth, scheduler, pool, count>>

Complete(u) ==
  /\ probe[u] = "scheduled" /\ scheduler.at # "add"
  /\ queued' = queued \ {u}
  /\ probe' = [probe EXCEPT ![u] = "none"]
  /\ UNCHANGED <<hot, status, due, kicks, queue, depth, scheduler, pool, count>>

-----------------------------------------------------------------------------
SchedulerStep ==
  \/ ScheduleDueProbes \/ ProcessKick \/ NoMoreKicks \/ AddDepth
  \/ \E u \in Urls : AlreadyQueued(u) \/ TrySend(u) \/ QueueFull(u)

PoolStep == Receive \/ MarkReceived
TaskStep(u) == ProbeBegins(u) \/ ScheduleAfterCompletion(u) \/ Complete(u)
TimePasses(u) == CooldownRunsOut(u) \/ BecomesDue(u)

Next ==
  \/ \E c \in Chains : Activate(c) \/ Demote(c)
  \/ SchedulerStep \/ PoolStep
  \/ \E u \in Urls : TaskStep(u) \/ ProbeEnds(u) \/ Cool(u) \/ TimePasses(u)

(* Loops go round and time passes. No fairness for the end of a call:      *)
(* post_json limits the time until the headers, not that of the body.      *)
Spec ==
  /\ Init /\ [][Next]_vars
  /\ WF_vars(SchedulerStep) /\ WF_vars(PoolStep)
  /\ \A u \in Urls : /\ WF_vars(TaskStep(u))
                     /\ WF_vars(CooldownRunsOut(u)) /\ WF_vars(BecomesDue(u))

-----------------------------------------------------------------------------
TypeOK ==
  /\ hot \subseteq Chains /\ queued \subseteq Urls
  /\ status \in [Urls -> {"fine", "cooling", "expired"}]
  /\ due \in [Urls -> {"none", "later", "due"}]
  /\ kicks \in Seq(Chains) /\ Len(kicks) <= KickCapacity
  /\ queue \in Seq(Urls) /\ Len(queue) <= Capacity
  /\ depth \in 0..(Width - 1)
  /\ scheduler.at \in {"asleep", "enqueue", "add"} /\ scheduler.left \subseteq Urls
  /\ pool.at \in {"waiting", "mark"} /\ pool.got \subseteq Urls
  /\ probe \in [Urls -> {"none", "begin", "call", "ended", "scheduled"}]

(* An endpoint is in the queue, between queue and task, or with a task,    *)
(* once only, exactly when its key is in the set: no endpoint is probed    *)
(* twice at a time, and no key is left behind that would keep its endpoint *)
(* out of the queue for ever (probe.rs enqueue, CompletionGuard).          *)
QueuedOnce ==
  /\ queued = Queued \cup pool.got \cup Active
  /\ Cardinality(queued) = Len(queue) + Cardinality(pool.got) + Cardinality(Active)

(* The depth that is shown is the length of the queue, but for an entry    *)
(* that is sent and not yet counted, or received and still counted: a      *)
(* worker that is faster than the scheduler leaves no trace in it.         *)
DepthIsTrue ==
  (depth + IF scheduler.at = "add" THEN 1 ELSE 0) % Width
    = (Len(queue) + Cardinality(pool.got)) % Width

(* Some worker is free again and again: not every one of them waits for    *)
(* the body of an answer that never ends.                                  *)
WorkersFree == []<>(Cardinality(Active) < MaxConcurrency)

(* An endpoint of a chain that stays hot is probed again and again, or     *)
(* finds the queue full when it is due, whatever kicks the broadcast       *)
(* forgot, whenever it cools, and whatever happened to its chain before:   *)
(* unless a call of its own never ends, or as many calls to others never   *)
(* end as there are workers. One endpoint that stalls takes none with it.  *)
EveryEndpointProbed ==
  \A u \in Urls :
    <>[](ChainOf[u] \in hot) /\ []<>(probe[u] = "none") /\ WorkersFree
      => []<><<ProbeBegins(u) \/ QueueFull(u)>>_vars
=============================================================================
