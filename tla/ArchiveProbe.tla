------------------------------ MODULE ArchiveProbe ------------------------------
(***************************************************************************)
(* Does an endpoint keep the state of old blocks? (src/probe.rs)           *)
(*                                                                         *)
(* After an alive probe a balance at block 1 and two traces are read: one  *)
(* of a recent block and one of a block far below the head. Each read is a *)
(* call that may fail, find an empty block, or get no permit, while the    *)
(* chain grows. The node behind the endpoint is honest and does not change;*)
(* the question is whether the verdict kept in memory is true of it.       *)
(***************************************************************************)
EXTENDS Signals

CONSTANTS
  RecentDepth,      \* ARCHIVE_RECENT_DEPTH
  TraceLookback,    \* ARCHIVE_TRACE_LOOKBACK
  BlockWalk,        \* ARCHIVE_BLOCK_WALK
  MinHead,          \* probe.archive_min_head
  Interval,         \* probe.archive_interval_seconds
  Window,           \* the blocks a full node keeps the state of
  MaxHead, MaxFaults

VARIABLES
  node,     \* does it keep all state, does it answer at block 1, and so on
  empty,    \* the blocks without a transaction
  head,     \* of the chain
  faults,   \* calls that failed so far
  status,   \* archive_status
  age,      \* seconds since archive_checked_unix, and Interval if it is zero
  probe     \* where the probe is and what it knows

vars == <<node, empty, head, faults, status, age, probe>>

Blocks == 1..MaxHead
Nodes == [archive : BOOLEAN, genesis : BOOLEAN, debug : BOOLEAN, bodies : BOOLEAN]
Idle == [at |-> "idle", height |-> 0, block |-> 0, step |-> 0, phase |-> "near",
         balance |-> "inconclusive"]

AtLeastOne(n) == IF n > 1 THEN n ELSE 1
Near(h) == AtLeastOne(h - RecentDepth)
Far(h) == AtLeastOne(h - TraceLookback)

Init ==
  /\ node \in {n \in Nodes : n.archive => n.genesis /\ n.bodies}
  /\ empty \in {s \in SUBSET Blocks : Cardinality(s) <= 2}
  /\ head = MinHead - 1 /\ faults = 0
  /\ status = "unknown" /\ age = Interval
  /\ probe = Idle

-----------------------------------------------------------------------------
(* The upstream                                                            *)

Keeps(b) == node.archive \/ b > head - Window

HonestBalance == Answer(IF node.genesis THEN "quantity" ELSE "pruned")
HonestBlock(b) == Answer(IF node.bodies \/ Keeps(b) THEN "object" ELSE "pruned")
HonestTrace(b) == Answer(IF ~node.debug THEN "noDebug" ELSE IF Keeps(b) THEN "object" ELSE "pruned")

(* A call: the honest answer, a fault, or an answer that never comes.      *)
Replies(a, honest) ==
  \/ a = honest /\ UNCHANGED faults
  \/ a # honest /\ faults < MaxFaults /\ faults' = faults + 1

CallFails == faults < MaxFaults /\ faults' = faults + 1

-----------------------------------------------------------------------------
Due == age = Interval

Touch == age' = 0 /\ probe' = Idle

(* The two verdicts give one; a probe that tells nothing keeps the last.   *)
Conclude(balance, trace) ==
  LET class == ResolveArchiveClass(balance, trace)
  IN /\ status' = IF class = "inconclusive" THEN status ELSE class
     /\ Touch

(* The alive probe passed with this height.                                *)
HeadTooLow ==
  /\ probe.at = "idle" /\ Due /\ head < MinHead
  /\ Touch
  /\ UNCHANGED <<node, empty, head, faults, status>>

Begin ==
  /\ probe.at = "idle" /\ Due /\ head >= MinHead
  /\ probe' = [Idle EXCEPT !.at = "balance", !.height = head]
  /\ UNCHANGED <<node, empty, head, faults, status, age>>

(* No permit: the next alive probe tries again.                            *)
NoPermit ==
  /\ probe.at = "balance" /\ CallFails
  /\ probe' = Idle
  /\ UNCHANGED <<node, empty, head, status, age>>

Knows(balance) ==
  IF Near(probe.height) <= Far(probe.height)
    THEN Conclude(balance, "inconclusive")
    ELSE /\ probe' = [probe EXCEPT !.at = "block", !.block = Near(probe.height), !.balance = balance]
         /\ UNCHANGED <<status, age>>

BalanceRead ==
  /\ probe.at = "balance"
  /\ \E a \in {HonestBalance} \cup Faulty : Replies(a, HonestBalance) /\ Knows(ClassifyArchiveResponse(a))
  /\ UNCHANGED <<node, empty, head>>

BalanceFails ==
  /\ probe.at = "balance" /\ CallFails
  /\ Knows("inconclusive")
  /\ UNCHANGED <<node, empty, head>>

(* What the class of a read of a recent block means for the probe, and of  *)
(* a far one.                                                              *)
NearTraced(class) ==
  IF class = "ok"
    THEN /\ probe' = [probe EXCEPT !.at = "block", !.phase = "far", !.step = 0,
                                   !.block = Far(probe.height)]
         /\ UNCHANGED <<status, age>>
    ELSE Conclude(probe.balance, IF class = "unsupported" THEN "unavailable" ELSE "inconclusive")

FarTracedHasty(class) == Conclude(probe.balance, IF class = "ok" THEN "archive" ELSE "fullNode")

FarTraced(class) ==
  Conclude(probe.balance, CASE class = "ok" -> "archive"
                            [] class = "pruned" -> "fullNode"
                            [] OTHER -> "inconclusive")

Traced(class) == IF probe.phase = "near" THEN NearTraced(class) ELSE FarTraced(class)

LastBlock == probe.block <= 1 \/ probe.step = BlockWalk

WalkBack ==
  /\ probe' = [probe EXCEPT !.block = @ - 1, !.step = @ + 1]
  /\ UNCHANGED <<status, age>>

(* find_transaction: an empty block, or one the node does not have, is     *)
(* passed over for the one before it, a few times.                         *)
BlockRead ==
  /\ probe.at = "block"
  /\ \E a \in {HonestBlock(probe.block)} \cup Faulty :
       LET class == ClassifyTraceResponse(a)
           found == class = "ok" /\ a.body = "object" /\ probe.block \notin empty
           goesOn == class = "ok" \/ (class = "inconclusive" /\ ~HasResult(a))
       IN /\ Replies(a, HonestBlock(probe.block))
          /\ IF class = "pruned" THEN Traced("pruned")
             ELSE IF found THEN probe' = [probe EXCEPT !.at = "trace"] /\ UNCHANGED <<status, age>>
             ELSE IF goesOn /\ ~LastBlock THEN WalkBack
             ELSE Traced("inconclusive")
  /\ UNCHANGED <<node, empty, head>>

TraceRead ==
  /\ probe.at = "trace"
  /\ \E a \in {HonestTrace(probe.block)} \cup Faulty :
       LET class == ClassifyTraceResponse(a)
       IN /\ Replies(a, HonestTrace(probe.block))
          /\ Traced(IF class = "ok" /\ a.body # "object" THEN "inconclusive" ELSE class)
  /\ UNCHANGED <<node, empty, head>>

(* Timeout, transport or no permit in one of the traces.                   *)
ReadFails ==
  /\ probe.at \in {"block", "trace"} /\ CallFails
  /\ Conclude(probe.balance, "inconclusive")
  /\ UNCHANGED <<node, empty, head>>

-----------------------------------------------------------------------------
Grow ==
  /\ head < MaxHead /\ head' = head + 1
  /\ UNCHANGED <<node, empty, faults, status, age, probe>>

SecondPasses ==
  /\ age < Interval /\ age' = age + 1
  /\ UNCHANGED <<node, empty, head, faults, status, probe>>

ProbeStep ==
  \/ HeadTooLow \/ Begin \/ NoPermit
  \/ BalanceRead \/ BalanceFails \/ BlockRead \/ TraceRead \/ ReadFails

Next == ProbeStep \/ Grow \/ SecondPasses

(* The endpoint is probed again and again (ProbeScheduler) and the chain   *)
(* grows.                                                                  *)
Fairness == WF_vars(ProbeStep) /\ WF_vars(Grow) /\ WF_vars(SecondPasses)
Spec == Init /\ [][Next]_vars /\ Fairness

-----------------------------------------------------------------------------
Truth == IF node.archive THEN "yes" ELSE "no"

(* Where block 1 tells the truth, no failure of any call, no empty block   *)
(* and no growth of the chain during the probe gives a wrong verdict: a    *)
(* probe that cannot tell says nothing (probe.rs maybe_probe_archive).     *)
VerdictIsTrue == node.genesis = node.archive => status \in {"unknown", Truth}

(* What reads of block 1 say is overruled by the traces: once calls stop   *)
(* failing, a full node that kept its first state is found out too, if     *)
(* transactions are to be found.                                           *)
Telling ==
  \/ node.genesis = node.archive
  \/ node.debug /\ \A b \in Blocks : b > BlockWalk => \E i \in 0..BlockWalk : b - i \notin empty
VerdictSettles == Telling => <>[](status = Truth)
=============================================================================
