-------------------------------- MODULE MCParts --------------------------------
(***************************************************************************)
(* The parts that share no state, and the configuration, in one run. The   *)
(* first state picks the part that runs, one of Chosen; the others stay in *)
(* one initial state.                                                      *)
(***************************************************************************)
EXTENDS Parts, TLC

CONSTANTS Chosen, u1, u2, c1, c2, c3, r1, r2, r3, e1, e2, e3

VARIABLE part

MCChainOf == (u1 :> c1) @@ (u2 :> c2)

(* The last of the list comes first, since it does not track.              *)
MCRank == (u1 :> 1) @@ (u2 :> 2) @@ (e1 :> 3) @@ (e2 :> 4)

(* The sample is version 0; version 2 halves too much, version 3 is empty. *)
MCSize == (0 :> 1) @@ (1 :> 4) @@ (2 :> 1) @@ (3 :> 0) @@ (4 :> 3)

(* The defaults; a limit that is compared with nothing but zero and is     *)
(* larger is cut down to 4000.                                             *)
MCDefaults ==
  [batchLimit |-> 100, maxBody |-> 4000, maxConcurrent |-> 1024, shutdownDeadline |-> 4000,
   refreshSeconds |-> 3600, maxHotChains |-> 256, idleSeconds |-> 600,
   autoMinEndpoints |-> 5, autoMaxChains |-> 400, probeBatch |-> 32, promoteAfter |-> 2,
   autoPermits |-> 8, flushInterval |-> 2000, healthTtl |-> 4000,
   requestTimeout |-> 4000, deadline |-> 4000, slowThreshold |-> 4000, maxAttempts |-> 4,
   defaultRps |-> 15, defaultConcurrency |-> 8,
   probeMin |-> 15, probeMax |-> 30, probeWorkers |-> 32, probeTimeout |-> 4000,
   cacheBytes |-> 4000, hedgeDelay |-> 300, hedgePercent |-> 10,
   rate |-> 20, burst |-> 40, archiveInterval |-> 600, immutableTtl |-> 3600, minActive |-> 2]

flightVars == <<caller, entry, flight, result, clearing, clears>>
ingressVars == <<phase, permits, inFlight, request>>
schedulerVars == <<hot, status, due, kicks, queue, queued, depth, scheduler, pool, probe, count>>
archiveVars == <<node, empty, top, faults, archive, age, reading>>
candidateVars == <<kind, level, misses, prober, round>>
listVars == <<published, failures, restarts, loader, disk, stored, catalog, merged, flag, task>>
tierVars == <<chain, tip, reorgs, mined, height, head, outvoted, asked, kept>>
configVars == <<file, env, stage, config, listed, left>>
all == <<part, vars, schedulerVars, archiveVars, listVars, candidateVars, ingressVars, tierVars,
         flightVars, configVars>>

MCInit ==
  /\ part \in Chosen
  /\ Init /\ Scheduler!Init /\ Archive!Init /\ List!Init
  /\ Candidate!Init /\ Http!Init /\ Tiers!Init /\ Flight!Init
  /\ part # "scheduler" => hot = {}
  /\ part # "archive" => empty = {} /\ node.archive /\ node.debug
  /\ part # "list" => catalog = 0
  /\ part # "candidate" => \A u \in DOMAIN kind : kind[u] = "honest"
  /\ IF part = "config"
       THEN Start!Init
       ELSE file = {} /\ env = {} /\ stage = "start" /\ config = {} /\ listed = 0 /\ left = {}

MCNext ==
  \/ /\ part = "gate" /\ Next
     /\ UNCHANGED <<part, schedulerVars, archiveVars, listVars, candidateVars,
                    ingressVars, tierVars, flightVars, configVars>>
  \/ /\ part = "scheduler" /\ Scheduler!Next
     /\ UNCHANGED <<part, vars, archiveVars, listVars, candidateVars,
                    ingressVars, tierVars, flightVars, configVars>>
  \/ /\ part = "archive" /\ Archive!Next
     /\ UNCHANGED <<part, vars, schedulerVars, listVars, candidateVars,
                    ingressVars, tierVars, flightVars, configVars>>
  \/ /\ part = "list" /\ List!Next
     /\ UNCHANGED <<part, vars, schedulerVars, archiveVars, candidateVars,
                    ingressVars, tierVars, flightVars, configVars>>
  \/ /\ part = "candidate" /\ Candidate!Next
     /\ UNCHANGED <<part, vars, schedulerVars, archiveVars, listVars,
                    ingressVars, tierVars, flightVars, configVars>>
  \/ /\ part = "http" /\ Http!Next
     /\ UNCHANGED <<part, vars, schedulerVars, archiveVars, listVars,
                    candidateVars, tierVars, flightVars, configVars>>
  \/ part = "http" /\ ~Http!Alive /\ UNCHANGED all  \* the process has ended
  \/ /\ part = "tiers" /\ Tiers!Next
     /\ UNCHANGED <<part, vars, schedulerVars, archiveVars, listVars,
                    candidateVars, ingressVars, flightVars, configVars>>
  \/ /\ part = "flight" /\ Flight!Next
     /\ UNCHANGED <<part, vars, schedulerVars, archiveVars, listVars,
                    candidateVars, ingressVars, tierVars, configVars>>
  \/ /\ part = "config" /\ Start!Next
     /\ UNCHANGED <<part, vars, schedulerVars, archiveVars, listVars,
                    candidateVars, ingressVars, tierVars, flightVars>>
  \/ part = "config" /\ stage \in {"running", "refused"} /\ UNCHANGED all

MCSpec == MCInit /\ [][MCNext]_all

(* The fairness of each part, for the part that runs.                      *)
MCFairSpec ==
  /\ MCSpec
  /\ WF_schedulerVars(part = "scheduler" /\ Scheduler!SchedulerStep)
  /\ WF_schedulerVars(part = "scheduler" /\ Scheduler!PoolStep)
  /\ \A u \in Urls :
       /\ WF_schedulerVars(part = "scheduler" /\ Scheduler!TaskStep(u))
       /\ WF_schedulerVars(part = "scheduler" /\ Scheduler!CooldownRunsOut(u))
       /\ WF_schedulerVars(part = "scheduler" /\ Scheduler!BecomesDue(u))
  /\ WF_archiveVars(part = "archive" /\ Archive!ProbeStep)
  /\ WF_archiveVars(part = "archive" /\ Archive!Grow)
  /\ WF_archiveVars(part = "archive" /\ Archive!SecondPasses)
  /\ \A t \in Refreshers : WF_listVars(part = "list" /\ List!Work(t))
  /\ \A t \in Refreshers \ Manual : SF_listVars(part = "list" /\ List!Begin(t))
  /\ \A r \in Https : WF_ingressVars(part = "http" /\ Http!Handle(r))
  /\ WF_ingressVars(part = "http" /\ Http!Deadline)
  /\ \A c \in Callers :
       /\ WF_flightVars(part = "flight" /\ Flight!LeaderStep(c))
       /\ WF_flightVars(part = "flight" /\ Flight!FollowerStep(c))

-----------------------------------------------------------------------------
(* ArchiveProbe: the traces find out a full node that kept its first state.*)
VerdictSettles == part = "archive" => Archive!VerdictSettles

(* ChainlistRefresh: registry, chains and store come to the loader's list. *)
CatalogConverges == part = "list" => List!CatalogConverges

(* ChainlistRefresh: and the loader's list to the publisher's.             *)
NewestArrives == part = "list" => List!NewestArrives
=============================================================================
