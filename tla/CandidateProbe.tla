----------------------------- MODULE CandidateProbe -----------------------------
(***************************************************************************)
(* One round of probes that decides whether a chain of the list qualifies  *)
(* to be enabled (src/autoenable.rs, probe_candidate).                     *)
(*                                                                         *)
(* A task per endpoint waits for one of the scanner's permits, asks for    *)
(* the chain id and then for the head. Some endpoints answer for another   *)
(* chain, stand still or invent a head, and while tasks wait the chain     *)
(* grows. AutoEnable takes the verdict of a round as a free choice; this   *)
(* module says what the verdict is worth.                                  *)
(***************************************************************************)
EXTENDS Signals, Integers, FiniteSetsExt

CONSTANTS
  Urls,         \* the endpoints of the candidate
  Rank,         \* their order in the list, 1 first
  Untracked,    \* those that promise not to track
  Sample,       \* auto_enable.max_endpoints_per_chain
  MinActive,    \* auto_enable.min_active_endpoints
  Tolerance,    \* auto_enable.head_tolerance_blocks
  Permits,      \* auto_enable.probe_concurrency
  Ceiling,      \* the largest u64
  MaxHead, MaxWrong, MaxFaults

VARIABLES
  kind,         \* what each endpoint is
  head,         \* of the chain
  faults,       \* calls that failed so far
  task,         \* where the task of each endpoint is, and the head it brought
  round         \* its start, the endpoints whose calls failed, the verdict

vars == <<kind, head, faults, task, round>>

Wrong == {"foreign", "stuck", "inventive"}
None == -1
Waiting == [at |-> "waiting", head |-> None]
NewRound(h) == [from |-> h, lost |-> {}, verdict |-> "none"]

Init ==
  /\ kind \in {k \in [Urls -> Wrong \cup {"honest"}] :
                 Cardinality({u \in Urls : k[u] # "honest"}) <= MaxWrong}
  /\ head = Tolerance + 1 /\ faults = 0
  /\ task = [u \in Urls |-> Waiting]
  /\ round = NewRound(head)

(* Those without tracking first, then the order of the list, cut off.      *)
Before(u, v) ==
  IF (u \in Untracked) = (v \in Untracked) THEN Rank[u] < Rank[v] ELSE u \in Untracked
Sampled == {u \in Urls : Cardinality({v \in Urls : Before(v, u)}) < Sample}

-----------------------------------------------------------------------------
(* The endpoints                                                           *)

ChainId(u) == IF kind[u] = "foreign" THEN "other" ELSE "own"
HeadsOf(u) ==
  CASE kind[u] = "honest" -> {head}
    [] kind[u] = "stuck" -> {0}
    [] OTHER -> {Ceiling - 2, Ceiling}

(* The result is there, in time or late: late answers are as good.         *)
Passes(a) == ClassifyResponse(a).is # "failure" /\ a.body = "quantity"

Replies(u, a) ==
  IF a = Answer("quantity") THEN UNCHANGED <<faults, round>>
  ELSE /\ faults < MaxFaults /\ faults' = faults + 1
       /\ round' = [round EXCEPT !.lost = @ \cup {u}]

-----------------------------------------------------------------------------
Holding == {u \in Urls : task[u].at \in {"chainId", "head"}}

Acquire(u) ==
  /\ u \in Sampled /\ task[u].at = "waiting" /\ Cardinality(Holding) < Permits
  /\ task' = [task EXCEPT ![u].at = "chainId"]
  /\ UNCHANGED <<kind, head, faults, round>>

(* The task ends, and its permit is free.                                  *)
Returns(u, h) == task' = [task EXCEPT ![u] = [at |-> "done", head |-> h]]

(* Mutant: any chain id will do.                                          *)
ChainIdIgnored(u) ==
  /\ task[u].at = "chainId"
  /\ \E a \in {Answer("quantity")} \cup Faulty :
       /\ Replies(u, a)
       /\ IF Passes(a) THEN task' = [task EXCEPT ![u].at = "head"] ELSE Returns(u, None)
  /\ UNCHANGED <<kind, head>>

ChainIdRead(u) ==
  /\ task[u].at = "chainId"
  /\ \E a \in {Answer("quantity")} \cup Faulty :
       /\ Replies(u, a)
       /\ IF Passes(a) /\ ChainId(u) = "own"
            THEN task' = [task EXCEPT ![u].at = "head"]
            ELSE Returns(u, None)
  /\ UNCHANGED <<kind, head>>

HeadRead(u) ==
  /\ task[u].at = "head"
  /\ \E a \in {Answer("quantity")} \cup Faulty, h \in HeadsOf(u) :
       Replies(u, a) /\ Returns(u, IF Passes(a) THEN h ELSE None)
  /\ UNCHANGED <<kind, head>>

(* No connection, no headers in time, or a body that breaks off.           *)
CallFails(u) ==
  /\ u \in Holding
  /\ faults < MaxFaults /\ faults' = faults + 1
  /\ round' = [round EXCEPT !.lost = @ \cup {u}]
  /\ Returns(u, None)
  /\ UNCHANGED <<kind, head>>

-----------------------------------------------------------------------------
(* A head close to the largest u64 wraps around and is close to none.      *)
Active == {u \in Sampled : task[u].head # None}
Top == Max({task[u].head : u \in Active})
Close(u) == (task[u].head + Tolerance) % (Ceiling + 1) >= Top

(* Mutant: the highest head is close to itself.                           *)
QualifiedAlone == Cardinality(Active) >= MinActive /\ \E u \in Active : Close(u)
Qualified ==
  /\ Active # {} /\ Cardinality(Active) >= MinActive
  /\ Cardinality({u \in Active : Close(u)}) >= 2

Conclude ==
  /\ round.verdict = "none" /\ \A u \in Sampled : task[u].at = "done"
  /\ round' = [round EXCEPT !.verdict = IF Qualified THEN "qualified" ELSE "refused"]
  /\ UNCHANGED <<kind, head, faults, task>>

NextRound ==
  /\ round.verdict # "none"
  /\ task' = [u \in Urls |-> Waiting] /\ round' = NewRound(head)
  /\ UNCHANGED <<kind, head, faults>>

Grow ==
  /\ head < MaxHead /\ head' = head + 1
  /\ UNCHANGED <<kind, faults, task, round>>

TaskStep(u) == Acquire(u) \/ ChainIdRead(u) \/ HeadRead(u) \/ CallFails(u)
ScannerStep == Conclude \/ NextRound

Next == (\E u \in Urls : TaskStep(u)) \/ ScannerStep \/ Grow

(* No fairness: read_capped waits for a body as long as it lasts, and a    *)
(* round for all its tasks.                                                *)
Spec == Init /\ [][Next]_vars

-----------------------------------------------------------------------------
Honest == {u \in Sampled : kind[u] = "honest"}
Judged == round.verdict # "none"

(* One endpoint that is wrong, in whatever way, does not qualify a chain:  *)
(* an honest head is among those the verdict rests on (autoenable.rs 181). *)
QualifiedOnHonest ==
  round.verdict = "qualified" /\ Cardinality(Sampled \ Honest) <= 1
    => \E u \in Honest \cap Active : task[u].head + Tolerance >= Top

(* Enough honest endpoints, and two where min_active_endpoints is less,    *)
(* qualify it, in whatever order permits come, as long as none invents a   *)
(* head and the chain grows no faster than the tolerance while they wait;  *)
(* endpoints of other chains are no hindrance.                             *)
HonestQualifies ==
  /\ Judged /\ head - round.from <= Tolerance
  /\ Cardinality(Honest \ round.lost) >= Max({MinActive, 2})
  /\ \A u \in Sampled : kind[u] # "inventive"
  => round.verdict = "qualified"
=============================================================================
