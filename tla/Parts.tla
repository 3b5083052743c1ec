--------------------------------- MODULE Parts ---------------------------------
(***************************************************************************)
(* Parts of the router that share no state, side by side, each over its own*)
(* constants and variables: the hedge gate, the folding of equal requests, *)
(* the ingress, the probe scheduler, the archive probe, the probes of a    *)
(* candidate, the refresh of the chain list, and the immutable tier of the *)
(* cache. MCParts checks them in one run; ServingProofs and UpstreamProofs *)
(* prove theorems about them from the assumptions below.                   *)
(***************************************************************************)
EXTENDS HedgeGate, FiniteSets

CONSTANTS
  Callers, MaxClears,                 \* of the folding
  Https, MaxConcurrent, BatchLimit,   \* of the ingress
  Chains, Urls, ChainOf, Capacity, KickCapacity, MaxConcurrency, Width, MaxEvents,
                                      \* of the scheduler
  RecentDepth, TraceLookback, BlockWalk, MinHead, Interval, Window, MaxHead, MaxFaults,
                                      \* of the archive probe
  Candidates, Rank, Untracked, Sample, MinActive, Tolerance, Permits, Ceiling,
  MaxLevel, MaxWrong, MaxMisses,      \* of the candidate
  Refreshers, Manual, Size, ListFaults, MaxRestarts,
                                      \* of the refresh
  Served, Paid, Defaults, MaxSections, MaxListed,
                                      \* of the configuration
  Endpoints, Liars, Confirmations, MaxLag, MaxReorg, MaxHeight, MaxReorgs, MaxKept
                                      \* of the tiers

ASSUME FlightAssumption == IsFiniteSet(Callers) /\ MaxClears \in Nat

ASSUME IngressAssumption == IsFiniteSet(Https) /\ {MaxConcurrent, BatchLimit} \subseteq Nat

ASSUME SchedulerAssumption == IsFiniteSet(Urls)

(* A full node keeps the state of fewer blocks than the probe looks back   *)
(* (ARCHIVE_TRACE_LOOKBACK), and of fewer than the least head it asks at.  *)
ASSUME ArchiveAssumption ==
  /\ {RecentDepth, TraceLookback, BlockWalk, MinHead, Interval, Window} \subseteq Nat
  /\ Window <= TraceLookback /\ Window < MinHead

(* Heads are far from the largest u64.                                     *)
ASSUME CandidateAssumption ==
  /\ IsFiniteSet(Candidates)
  /\ {MinActive, Tolerance, Ceiling, MaxLevel} \subseteq Nat
  /\ Ceiling >= 2
  /\ Tolerance < MaxLevel /\ MaxLevel + Tolerance <= Ceiling

ASSUME ListAssumption == "nobody" \notin Refreshers

(* At most one endpoint lies; what is final is neither replaced nor        *)
(* unknown to an endpoint in service.                                      *)
ASSUME TiersAssumption ==
  /\ IsFiniteSet(Endpoints) /\ Liars \subseteq Endpoints /\ Cardinality(Liars) <= 1
  /\ {Confirmations, MaxLag, MaxReorg, MaxHeight, MaxReorgs} \subseteq Nat
  /\ MaxHeight >= 1 /\ MaxReorg <= Confirmations + 1 /\ MaxLag <= Confirmations + 1

VARIABLES
  caller, entry, flight, result, clearing, clears,
  phase, permits, inFlight, request,
  hot, status, due, kicks, queue, queued, depth, scheduler, pool, probe, count,
  node, empty, top, faults, archive, age, reading,
  kind, level, misses, prober, round,
  published, failures, restarts, loader, disk, stored, catalog, merged, flag, task,
  chain, tip, reorgs, mined, height, head, outvoted, asked, kept,
  file, env, stage, config, listed, left

Flight == INSTANCE SingleFlight

Http == INSTANCE Ingress WITH Requests <- Https

Scheduler == INSTANCE ProbeScheduler

Archive == INSTANCE ArchiveProbe WITH head <- top, status <- archive, probe <- reading

Candidate == INSTANCE CandidateProbe WITH
  Urls <- Candidates, MaxHead <- MaxLevel, MaxFaults <- MaxMisses,
  head <- level, faults <- misses, task <- prober

List == INSTANCE ChainlistRefresh WITH MaxFaults <- ListFaults, faults <- failures

Tiers == INSTANCE CacheTiers

Start == INSTANCE Config WITH Chains <- Served, Urls <- Paid

(* A blank variable is none, and a fallback of the environment is a URL;   *)
(* the defaults are all there.                                             *)
ASSUME ConfigAssumption ==
  /\ Paid \cap {"blank", "bad"} = {} /\ {MaxSections, MaxListed} \subseteq Nat
  /\ Defaults \in [DOMAIN Defaults -> Nat]
  /\ Start!EnvNumbers \subseteq DOMAIN Defaults

-----------------------------------------------------------------------------
(* SingleFlight: a clear costs at most one more leader at a time.          *)
LeadersBounded == Flight!LeadersBounded

(* SingleFlight: every follower stops waiting.                             *)
FollowersReturn == Flight!FollowersReturn

(* Ingress: no permit and no count leaks, whoever goes away when.          *)
NothingLeaks == Http!NothingLeaks

(* Ingress: each item of a batch is answered in its place, under its id.   *)
BatchAnsweredInPlace == Http!BatchAnsweredInPlace

(* Ingress: a signal ends the process.                                     *)
ShutdownEnds == Http!ShutdownEnds

(* ProbeScheduler: each endpoint is queued or probed once, by its key.     *)
QueuedOnce == Scheduler!QueuedOnce

(* ProbeScheduler: no entry is counted twice or left out for good.         *)
DepthIsTrue == Scheduler!DepthIsTrue

(* ProbeScheduler: endpoints of hot chains are probed again and again,     *)
(* whatever other endpoints do, while a worker is left.                    *)
EveryEndpointProbed == Scheduler!EveryEndpointProbed

(* ArchiveProbe: failures and empty blocks give no wrong verdict.          *)
VerdictIsTrue == Archive!VerdictIsTrue

(* CandidateProbe: one wrong endpoint does not qualify a chain.            *)
QualifiedOnHonest == Candidate!QualifiedOnHonest

(* CandidateProbe: enough honest endpoints do.                             *)
HonestQualifies == Candidate!HonestQualifies

(* ChainlistRefresh: the ETag that is sent is that of the catalog held.    *)
EtagIsOfCatalog == List!EtagIsOfCatalog

(* CacheTiers: what is kept for good about a block by number is final, if  *)
(* no liar decided the head.                                               *)
FinalAnswersStay == Tiers!FinalAnswersStay

(* Config: the fallback of a chain is the one that was said last.          *)
FallbackIsNearest == Start!FallbackIsNearest
=============================================================================
