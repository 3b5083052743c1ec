--------------------------- MODULE EndpointHealth ---------------------------
(***************************************************************************)
(* The health of one upstream endpoint (src/src/registry.rs, HealthState   *)
(* and Endpoint), driven by everything that touches it concurrently:       *)
(*   - data-plane requests (src/src/forward.rs) that take a lease, finish  *)
(*     at some instant and report that instant later, under the lock;      *)
(*   - probe workers (src/src/probe.rs) that claim the per-endpoint probe  *)
(*     slot, call twice, and report success and then, separately, a lag;   *)
(*   - the administrator, who may cool or reset the endpoint, or import a  *)
(*     document that says what its health is;                              *)
(*   - the chain-list refresh, which writes over the health of an endpoint *)
(*     it keeps with what was stored of it at boot or by the last import;  *)
(*   - readers of state(), which decay the strikes as a side effect.       *)
(* Every method takes the health mutex once, so each is one action; what a *)
(* caller reads before it takes the mutex (a clock, a flag) is read in an  *)
(* action of its own.                                                      *)
(***************************************************************************)
EXTENDS Integers, Sequences

CONSTANTS
  Requests,             \* slots of the concurrency semaphore
  Workers,              \* probe workers
  CooldownTable,        \* cooldown of the n-th strike; the last entry is the cap
  ErrorWindow,          \* ordinary faults further apart than this do not add up
  DecayInterval,        \* healthy time that forgives one strike
  FaultsBeforeCooling,
  ProbationPassesRequired,
  RetryAfters,          \* the Retry-After delays upstreams may send
  AdminCooldowns,       \* the durations an administrator may ask for
  Snapshots,            \* what a stored document may say of the endpoint
  MaxStrikes,           \* where the strike counter saturates (u32::MAX)
  MaxTime               \* bound on the clock

ASSUME HealthAssumption ==
  /\ CooldownTable \in Seq(Nat \ {0}) /\ CooldownTable # <<>>
  /\ ErrorWindow \in Nat
  /\ DecayInterval \in Nat \ {0}
  /\ FaultsBeforeCooling \in Nat \ {0}
  /\ ProbationPassesRequired \in Nat \ {0}
  /\ RetryAfters \subseteq Nat \ {0}
  /\ AdminCooldowns \subseteq Nat
  /\ Snapshots \subseteq [cooling : BOOLEAN, until : Nat, strikes : 0..MaxStrikes]
  /\ MaxStrikes \in Nat \ {0}
  /\ MaxTime \in Nat \ {0}

VARIABLES
  now,       \* the monotonic clock; 0 stands for None in Option<Instant>
  health,    \* HealthState, behind its mutex
  probing,   \* the AtomicBool that admits one probe at a time
  request,   \* each request slot: its phase and the instant it finished
  worker,    \* each probe worker: where it is and the instant it holds
  stored,    \* restored_health: the snapshot kept of the endpoint, if any
  streak,    \* history: successes since probation began or a failure
  pause      \* history: the latest instant an upstream told us to wait for

vars == <<now, health, probing, request, worker, stored, streak, pause>>
history == <<streak, pause>>

-----------------------------------------------------------------------------
None == 0

Status == {"Active", "Cooling", "Probation"}

Health == [status: Status, until: Nat, passes: Nat, strikes: 0..MaxStrikes,
           healthySince: Nat, faults: Nat, lastFault: Nat]

(* What an upstream failure says. Only a rate limit carries Retry-After;   *)
(* 0 is no delay. Authentication faults are immediate without a delay.     *)
Signal == [immediate: {TRUE}, retryAfter: RetryAfters \cup {0}]
            \cup [immediate: {FALSE}, retryAfter: {0}]

Ordinary == [immediate |-> FALSE, retryAfter |-> 0]

Larger(a, b) == IF a >= b THEN a ELSE b

Elapsed(t, since) == IF t >= since THEN t - since ELSE 0

(* saturating_add(1) on the strike counter. *)
OneMore(n) == IF n >= MaxStrikes THEN MaxStrikes ELSE n + 1

CooldownForStrikes(n) ==
  CooldownTable[IF n = 0 THEN 1
                ELSE IF n >= Len(CooldownTable) THEN Len(CooldownTable)
                ELSE n]

Probation == [status |-> "Probation", until |-> None, passes |-> 0,
              strikes |-> 0, healthySince |-> None,
              faults |-> 0, lastFault |-> None]

(* Strikes are forgiven only while Active, one per full interval. *)
Decayed(h, t) ==
  LET steps == Elapsed(t, h.healthySince) \div DecayInterval
  IN  IF h.status = "Active" /\ h.healthySince # None /\ steps > 0
      THEN [h EXCEPT !.strikes = IF @ >= steps THEN @ - steps ELSE 0,
                     !.healthySince = t]
      ELSE h

NoFaults(h) == [h EXCEPT !.faults = 0, !.lastFault = None]

Succeeded(h, t) ==
  LET g == NoFaults(Decayed(h, t))
  IN  IF g.status # "Probation" THEN g
      ELSE IF g.passes + 1 >= ProbationPassesRequired
           THEN [g EXCEPT !.status = "Active", !.passes = 0, !.healthySince = t]
           ELSE [g EXCEPT !.passes = @ + 1]

(* The fault counter after one more fault; it restarts outside the window. *)
FaultCount(h, t) ==
  IF h.lastFault = None \/ Elapsed(t, h.lastFault) > ErrorWindow
  THEN 1
  ELSE h.faults + 1

(* Mutant: a failure on probation is counted like one while Active. *)
ShouldCoolSparesProbation(h, t, signal) ==
  signal.immediate \/ FaultCount(h, t) >= FaultsBeforeCooling

ShouldCool(h, t, signal) ==
  \/ signal.immediate
  \/ h.status = "Probation"
  \/ FaultCount(h, t) >= FaultsBeforeCooling

Cooled(h, t, signal) ==
  LET strikes == OneMore(h.strikes)
  IN  [status |-> "Cooling",
       until |-> t + Larger(signal.retryAfter, CooldownForStrikes(strikes)),
       passes |-> 0, strikes |-> strikes, healthySince |-> None,
       faults |-> 0, lastFault |-> None]

(* Mutant: a later Retry-After replaces the deadline instead of extending it. *)
FailedOverwritesDeadline(h, t, signal) ==
  LET g == Decayed(h, t)
  IN  IF g.status = "Cooling"
      THEN IF signal.retryAfter = 0 THEN g
           ELSE [g EXCEPT !.until = t + signal.retryAfter]
      ELSE IF ShouldCool(g, t, signal) THEN Cooled(g, t, signal)
      ELSE [g EXCEPT !.faults = FaultCount(g, t), !.lastFault = t]

(* Mutant: no early return while Cooling, every straggler is a strike. *)
FailedStrikesAgain(h, t, signal) ==
  LET g == Decayed(h, t)
  IN  IF ShouldCool(g, t, signal) THEN Cooled(g, t, signal)
      ELSE [g EXCEPT !.faults = FaultCount(g, t), !.lastFault = t]

Failed(h, t, signal) ==
  LET g == Decayed(h, t)
  IN  IF g.status = "Cooling"
      THEN IF signal.retryAfter = 0 THEN g
           ELSE [g EXCEPT !.until = Larger(@, t + signal.retryAfter)]
      ELSE IF ShouldCool(g, t, signal) THEN Cooled(g, t, signal)
      ELSE [g EXCEPT !.faults = FaultCount(g, t), !.lastFault = t,
                     !.healthySince = t]

(* begin_probe once the slot is held: an expired cooldown ends here. *)
OnProbation(h) ==
  [NoFaults(h) EXCEPT !.status = "Probation", !.passes = 0, !.until = None]

StillCooling(h, t) == h.status = "Cooling" /\ t < h.until

(* Endpoint::restore_health: the stored deadline if it lies ahead, else    *)
(* probation; the stored strikes. Nothing else of the health is touched.   *)
Restored(h, s, t) ==
  LET ahead == s.cooling /\ t < s.until
  IN  [h EXCEPT !.status = IF ahead THEN "Cooling" ELSE "Probation",
                !.until = IF ahead THEN s.until ELSE None,
                !.passes = 0, !.strikes = s.strikes]

-----------------------------------------------------------------------------
CountUp(n) == IF n >= ProbationPassesRequired THEN n ELSE n + 1

RecordSuccess(t) ==
  /\ health' = Succeeded(health, t)
  /\ streak' = CountUp(streak)
  /\ UNCHANGED pause

RecordFailure(t, signal) ==
  /\ health' = Failed(health, t, signal)
  /\ streak' = 0
  /\ pause' = IF signal.retryAfter = 0 THEN pause
              ELSE Larger(pause, t + signal.retryAfter)

(* merge_chain restores what boot read of an endpoint it creates.          *)
Init ==
  /\ now = 1
  /\ \/ stored = {} /\ health = Probation
     \/ \E s \in Snapshots : stored = {s} /\ health = Restored(Probation, s, 1)
  /\ probing = FALSE
  /\ request = [r \in Requests |-> [phase |-> "idle", at |-> None]]
  /\ worker = [w \in Workers |-> [pc |-> "idle", at |-> None]]
  /\ streak = 0
  /\ pause = None

-----------------------------------------------------------------------------
(* Data-plane requests. *)

MoveRequest(r, from, to, at) ==
  /\ request[r].phase = from
  /\ request' = [request EXCEPT ![r] = [phase |-> to, at |-> at]]

(* try_acquire: refused while Cooling, even past the deadline. A bucket    *)
(* without tokens also refuses: the step is then simply not taken.         *)
Acquire(r) ==
  /\ health.status # "Cooling"
  /\ MoveRequest(r, "idle", "sent", None)
  /\ UNCHANGED <<now, health, probing, worker, stored, history>>

(* The future of a hedge loser or of a gone client is dropped unrecorded. *)
Abandon(r) ==
  /\ MoveRequest(r, "sent", "idle", None)
  /\ UNCHANGED <<now, health, probing, worker, stored, history>>

(* perform_attempt reads the clock; apply_completion comes later. *)
Finish(r) ==
  /\ MoveRequest(r, "sent", "done", now)
  /\ UNCHANGED <<now, health, probing, worker, stored, history>>

ApplyValid(r) ==
  /\ MoveRequest(r, "done", "idle", None)
  /\ RecordSuccess(request[r].at)
  /\ UNCHANGED <<now, probing, worker, stored>>

(* A failure, or a degraded answer, which is reported as an ordinary one. *)
ApplyFailure(r, signal) ==
  /\ MoveRequest(r, "done", "idle", None)
  /\ RecordFailure(request[r].at, signal)
  /\ UNCHANGED <<now, probing, worker, stored>>

-----------------------------------------------------------------------------
(* Probes. *)

MoveWorker(w, from, to, at) ==
  /\ worker[w].pc = from
  /\ worker' = [worker EXCEPT ![w] = [pc |-> to, at |-> at]]

(* Mutant: the flag is stored without looking at what it held. *)
ProbeClaimUnchecked(w) ==
  /\ probing' = TRUE
  /\ MoveWorker(w, "idle", "claimed", now)
  /\ UNCHANGED <<now, health, request, stored, history>>

(* probing.swap(true): the worker that finds it set skips the probe. *)
ProbeClaim(w) ==
  /\ ~probing
  /\ probing' = TRUE
  /\ MoveWorker(w, "idle", "claimed", now)
  /\ UNCHANGED <<now, health, request, stored, history>>

(* Mutant: the early return forgets to give the slot back. *)
ProbeRefusedKeepsSlot(w) ==
  /\ StillCooling(health, worker[w].at)
  /\ MoveWorker(w, "claimed", "idle", None)
  /\ UNCHANGED <<now, health, probing, request, stored, history>>

(* The rest of begin_probe, under the health mutex. *)
ProbeRefused(w) ==
  /\ StillCooling(health, worker[w].at)
  /\ MoveWorker(w, "claimed", "idle", None)
  /\ probing' = FALSE
  /\ UNCHANGED <<now, health, request, stored, history>>

(* Mutant: the deadline is not looked at. *)
ProbeBeginsEarly(w) ==
  /\ MoveWorker(w, "claimed", "chainId", None)
  /\ IF health.status = "Cooling"
     THEN health' = OnProbation(health) /\ streak' = 0
     ELSE health' = Decayed(health, worker[w].at) /\ UNCHANGED streak
  /\ UNCHANGED <<now, probing, request, stored, pause>>

ProbeBegins(w) ==
  /\ ~StillCooling(health, worker[w].at)
  /\ MoveWorker(w, "claimed", "chainId", None)
  /\ IF health.status = "Cooling"
     THEN health' = OnProbation(health) /\ streak' = 0
     ELSE health' = Decayed(health, worker[w].at) /\ UNCHANGED streak
  /\ UNCHANGED <<now, probing, request, stored, pause>>

(* eth_chainId answered with the right chain; eth_blockNumber is sent. *)
ProbeAsksHeight(w) ==
  /\ MoveWorker(w, "chainId", "blockNumber", None)
  /\ UNCHANGED <<now, health, probing, request, stored, history>>

(* No permit or token for the call, or the endpoint serves another chain   *)
(* and leaves the pool: the probe ends without touching the health.        *)
ProbeSkips(w) ==
  /\ \/ MoveWorker(w, "chainId", "ending", None)
     \/ MoveWorker(w, "blockNumber", "ending", None)
  /\ UNCHANGED <<now, health, probing, request, stored, history>>

ProbeFails(w, signal) ==
  /\ \/ MoveWorker(w, "chainId", "ending", None)
     \/ MoveWorker(w, "blockNumber", "ending", None)
  /\ RecordFailure(now, signal)
  /\ UNCHANGED <<now, probing, request, stored>>

ProbePasses(w) ==
  /\ MoveWorker(w, "blockNumber", "passed", now)
  /\ RecordSuccess(now)
  /\ UNCHANGED <<now, probing, request, stored>>

(* record_probe_height awaits the pool's lock between the success and the  *)
(* lag it may report, with the instant the probe finished.                 *)
ProbeLags(w) ==
  /\ MoveWorker(w, "passed", "ending", None)
  /\ RecordFailure(worker[w].at, Ordinary)
  /\ UNCHANGED <<now, probing, request, stored>>

ProbeKeepsUp(w) ==
  /\ MoveWorker(w, "passed", "ending", None)
  /\ UNCHANGED <<now, health, probing, request, stored, history>>

(* ProbeGuard::drop, after the archive reads that may follow a pass. *)
ProbeEnds(w) ==
  /\ MoveWorker(w, "ending", "idle", None)
  /\ probing' = FALSE
  /\ UNCHANGED <<now, health, request, stored, history>>

-----------------------------------------------------------------------------
(* Readers, the administrator and time. *)

(* state() decays before it answers; the scheduler, the health mirror and  *)
(* the dashboards all read through it.                                     *)
Observe ==
  /\ health' = Decayed(health, now)
  /\ UNCHANGED <<now, probing, request, worker, stored, history>>

(* cool_for: the administrator's deadline replaces any other. *)
AdminCool(duration) ==
  /\ health' = [health EXCEPT !.status = "Cooling", !.passes = 0,
                              !.until = now + duration,
                              !.strikes = OneMore(@), !.healthySince = None]
  /\ streak' = 0
  /\ pause' = None
  /\ UNCHANGED <<now, probing, request, worker, stored>>

AdminReset ==
  /\ health' = Probation
  /\ streak' = 0
  /\ pause' = None
  /\ UNCHANGED <<now, probing, request, worker, stored>>

Restore(s) ==
  /\ health' = Restored(health, s, now)
  /\ streak' = 0
  /\ pause' = None
  /\ UNCHANGED <<now, probing, request, worker>>

(* state_import: the document's snapshot becomes the stored one, and the   *)
(* live endpoint takes it over at once.                                    *)
Import(s) ==
  /\ stored' = {s}
  /\ Restore(s)

(* merge_chain, at every refresh: an endpoint it keeps is given what was   *)
(* stored of it, however old that is and whatever happened to it since.    *)
Refresh ==
  /\ \E s \in stored : Restore(s)
  /\ UNCHANGED stored

Tick ==
  /\ now < MaxTime
  /\ now' = now + 1
  /\ UNCHANGED <<health, probing, request, worker, stored, history>>

-----------------------------------------------------------------------------
RequestStep(r) ==
  \/ Acquire(r)
  \/ Abandon(r)
  \/ Finish(r)
  \/ ApplyValid(r)
  \/ \E signal \in Signal : ApplyFailure(r, signal)

(* What the worker does on its own. *)
OwnStep(w) ==
  \/ ProbeClaim(w)
  \/ ProbeRefused(w)
  \/ ProbeBegins(w)
  \/ ProbeLags(w)
  \/ ProbeKeepsUp(w)

(* What waits for an upstream: the call sent, and the archive reads before *)
(* the end. post_json bounds the wait for the headers, not for the body.   *)
CallReturns(w) ==
  \/ ProbeAsksHeight(w)
  \/ ProbeSkips(w)
  \/ \E signal \in Signal : ProbeFails(w, signal)
  \/ ProbePasses(w)
  \/ ProbeEnds(w)

WorkerStep(w) == OwnStep(w) \/ CallReturns(w)

AdminStep ==
  \/ \E duration \in AdminCooldowns : AdminCool(duration)
  \/ AdminReset
  \/ \E s \in Snapshots : Import(s)

(* Who may say what the health is without an outcome to report. *)
Overrides == AdminStep \/ Refresh

Next ==
  \/ \E r \in Requests : RequestStep(r)
  \/ \E w \in Workers : WorkerStep(w)
  \/ Overrides
  \/ Observe
  \/ Tick

Spec == Init /\ [][Next]_vars

(* The scheduler re-enqueues a due endpoint of a hot chain every quarter   *)
(* second, so a worker goes on with what needs no upstream; time passes.   *)
(* Upstreams, requests, refreshes and the administrator promise nothing.   *)
FairSpec ==
  /\ Spec
  /\ WF_vars(Tick)
  /\ \A w \in Workers : WF_vars(OwnStep(w))

-----------------------------------------------------------------------------
(* Properties. *)

Phase == {"idle", "sent", "done"}
Place == {"idle", "claimed", "chainId", "blockNumber", "passed", "ending"}

(* Every variable has its type; strikes in particular saturate.            *)
TypeOK ==
  /\ now \in 1..MaxTime
  /\ health \in Health
  /\ probing \in BOOLEAN
  /\ request \in [Requests -> [phase : Phase, at : Nat]]
  /\ worker \in [Workers -> [pc : Place, at : Nat]]
  /\ stored \in SUBSET Snapshots
  /\ streak \in Nat
  /\ pause \in Nat

(* A Retry-After is kept (DESIGN.md section 5): until the latest instant   *)
(* an upstream asked us to wait for since the health was last overridden   *)
(* (by the administrator, or by a stored snapshot at a refresh), whatever  *)
(* successes, failures and probes were recorded since, in whatever order   *)
(* and with however old a clock, the endpoint is Cooling that long.        *)
RetryAfterHonoured ==
  now < pause => health.status = "Cooling" /\ health.until >= pause

(* Exactly one worker is past the swap while the flag is set and none when *)
(* it is clear: no two probes at once, and no flag left set by a probe     *)
(* that ended, which would keep the endpoint from ever being probed again. *)
ProbeSlot ==
  /\ probing <=> \E w \in Workers : worker[w].pc # "idle"
  /\ \A v, w \in Workers :
       worker[v].pc # "idle" /\ worker[w].pc # "idle" => v = w

(* An endpoint becomes Active only after ProbationPassesRequired recorded  *)
(* successes in a row since it was put on probation: no failure, cooldown  *)
(* or reset came between them, from any request or probe.                  *)
ReturnIsEarned ==
  [][health.status # "Active" /\ health'.status = "Active"
       => streak' >= ProbationPassesRequired]_vars

(* No outcome ends a cooldown or moves its deadline earlier while that     *)
(* lies ahead: not a late success, not a probe that was already running,   *)
(* not another failure, nor the passing of time. Only an override does: an *)
(* administrator's command, or a refresh of an endpoint that has a stored  *)
(* snapshot.                                                               *)
CooldownNeverCutShort ==
  [][StillCooling(health, now) /\ ~Overrides
       => health'.status = "Cooling" /\ health'.until >= health.until]_vars

(* One cooldown costs one strike, however many failures in flight report   *)
(* during it, and a strike is forgiven only while Active; but an override  *)
(* writes strikes of its own.                                              *)
OneStrikePerCooling ==
  [][ /\ (health.status = "Cooling" /\ health'.status = "Cooling" /\ ~Overrides
             => health'.strikes = health.strikes)
      /\ (health'.strikes < health.strikes /\ ~Overrides
             => health.status = "Active")]_vars

(* Every probe ends: no upstream holds the body of its answer back for     *)
(* ever. The code does not see to it, so it is a premise, not fairness.    *)
ProbesEnd == \A w \in Workers : []<>(worker[w].pc = "idle")

(* If every probe ends, an endpoint whose cooldown is over is taken off it *)
(* by a probe, or overridden, or cooled again by a late Retry-After: it is *)
(* never forgotten, although requests no longer touch it.                  *)
CoolingEnds ==
  ProbesEnd =>
    ((health.status = "Cooling" /\ now >= health.until)
       ~> (health.status # "Cooling" \/ now < health.until))

(* On probation the passes counted are too few to return, and every one of *)
(* them is a success recorded since the probation began: a failure that is *)
(* recorded between two passes leaves none of them standing.               *)
PassesCounted ==
  health.status = "Probation" =>
    /\ health.passes < ProbationPassesRequired
    /\ health.passes <= streak

=============================================================================
