------------------------------- MODULE Forward -------------------------------
(* The forwarder's execute_uncached (src/src/forward.rs): requests that    *)
(* share the endpoints' concurrency slots and the hedge gate. A request    *)
(* takes an ordered snapshot of the candidates, may send a read twice (a   *)
(* hedge), fails over along the snapshot until its attempts or its public  *)
(* deadline run out, and tries the paid fallback once at the end. What an  *)
(* endpoint does (refuse the lease, answer, fail, be slow) is any choice:  *)
(* EndpointHealth is the model of it. The gate takes one step here, which  *)
(* HedgeGate implements.                                                   *)
EXTENDS Integers, Sequences, FiniteSets, SequencesExt

CONSTANTS
  Requests,
  ReadOnly,       \* the requests that may be hedged
  Endpoints,      \* the chain's public pool
  Paid,           \* its paid fallback endpoint
  HasFallback,    \* whether one is configured
  Slots,          \* upstream concurrency slots per endpoint
  MaxAttempts,    \* upstream.max_attempts
  MaxPercent,     \* hedging.max_percent
  MaxPrimaries    \* bound on the primaries counted

ASSUME ForwardAssumption ==
  /\ ReadOnly \subseteq Requests
  /\ Paid \notin Endpoints
  /\ HasFallback \in BOOLEAN
  /\ Slots \in Nat \ {0}
  /\ MaxAttempts \in Nat \ {0}
  /\ MaxPercent \in Nat
  /\ MaxPrimaries \in Nat
  /\ IsFiniteSet(Requests) /\ IsFiniteSet(Endpoints)

VARIABLES
  request,     \* each request: its place in execute_uncached and its locals
  busy,        \* permits taken from each endpoint's semaphore
  primaries,   \* the hedge gate's counters
  hedges

vars == <<request, busy, primaries, hedges>>
gate == <<primaries, hedges>>

Gate == INSTANCE HedgeBudget

-----------------------------------------------------------------------------
(* queue: the candidates not yet passed, candidates[next_candidate ..];    *)
(* flying: the endpoints with an attempt under way; time: before the       *)
(* public deadline, between it and the deadline, or after both.            *)
(* History: the snapshot, tried, refused (no lease), hedged.               *)
New == [pc |-> "new", queue |-> <<>>, started |-> 0, failures |-> 0,
        flying |-> {}, time |-> "public", snapshot |-> {},
        tried |-> {}, refused |-> {}, hedged |-> FALSE]

Is(r, place) == request[r].pc = place

Ended == {"answered", "gaveUp", "gone"}

Init ==
  /\ request = [r \in Requests |-> New]
  /\ busy = [e \in Endpoints \cup {Paid} |-> 0]
  /\ primaries = 0
  /\ hedges = 0

Becomes(r, record) == request' = [request EXCEPT ![r] = record]

Free(e) == busy[e] < Slots

Take(e) == busy' = [busy EXCEPT ![e] = @ + 1]

(* The leases of the attempts under way are dropped with their futures.    *)
Release(leases) ==
  busy' = [e \in DOMAIN busy |-> IF e \in leases THEN busy[e] - 1 ELSE busy[e]]

(* The request's record once an attempt on e is under way.                 *)
Sent(record, e) ==
  [record EXCEPT !.flying = @ \cup {e}, !.tried = @ \cup {e},
                 !.started = IF e = Paid THEN @ ELSE @ + 1]

Refused(record, e) == [record EXCEPT !.refused = @ \cup {e}]

Passed(record) == [record EXCEPT !.queue = Tail(@)]

-----------------------------------------------------------------------------
(* The snapshot: candidates(), after resolve_for_request and once more if  *)
(* it was empty. Which endpoints are usable and in which order P2C puts    *)
(* them is any choice; with it is decided whether the request may hedge.   *)
Begin(r) ==
  /\ Is(r, "new")
  /\ \E usable \in SUBSET Endpoints :
     \E queue \in SetToSeqs(usable), healthy \in BOOLEAN :
       Becomes(r, [request[r] EXCEPT
         !.queue = queue, !.snapshot = usable,
         !.pc = IF r \in ReadOnly /\ Len(queue) >= 2 /\ healthy
                THEN "primary" ELSE "loop"])
  /\ UNCHANGED <<busy, gate>>

-----------------------------------------------------------------------------
(* Hedging *)

(* The first candidate is passed whether or not it gives a lease.          *)
Primary(r) ==
  LET e == Head(request[r].queue)
      passed == Passed(request[r])
  IN  /\ Is(r, "primary")
      /\ \/ /\ Free(e) /\ Take(e)
            /\ Becomes(r, [Sent(passed, e) EXCEPT !.pc = "racing"])
            /\ Gate!SendPrimary
         \/ /\ Becomes(r, [Refused(passed, e) EXCEPT !.pc = "loop"])
            /\ UNCHANGED <<busy, gate>>

(* hedge_delay passed first, but the attempts are spent or the pool is not *)
(* healthy any more: wait for the primary, keep the second candidate.      *)
HedgeUnwanted(r) ==
  /\ Is(r, "racing")
  /\ Becomes(r, [request[r] EXCEPT !.pc = "single"])
  /\ UNCHANGED <<busy, gate>>

(* From here on the second candidate is passed, whatever comes of it.      *)
MayHedge(r) ==
  /\ Is(r, "racing")
  /\ request[r].started < MaxAttempts

HedgeRefused(r) ==
  LET e == Head(request[r].queue)
  IN  /\ MayHedge(r)
      /\ Becomes(r, [Refused(Passed(request[r]), e) EXCEPT !.pc = "single"])
      /\ UNCHANGED <<busy, gate>>

(* Mutant: the lease of the hedge that may not be sent is kept.            *)
HedgeDeniedKeepsLease(r) ==
  LET e == Head(request[r].queue)
  IN  /\ MayHedge(r)
      /\ Free(e) /\ Take(e)
      /\ ~Gate!Affordable(primaries, hedges + 1)
      /\ Becomes(r, [Passed(request[r]) EXCEPT !.pc = "single"])
      /\ UNCHANGED gate

(* The endpoint gave a lease but the gate says no: the lease is dropped.   *)
HedgeDenied(r) ==
  LET e == Head(request[r].queue)
  IN  /\ MayHedge(r)
      /\ Free(e)
      /\ ~Gate!Affordable(primaries, hedges + 1)
      /\ Becomes(r, [Passed(request[r]) EXCEPT !.pc = "single"])
      /\ UNCHANGED <<busy, gate>>

HedgeSent(r) ==
  LET e == Head(request[r].queue)
  IN  /\ MayHedge(r)
      /\ Free(e) /\ Take(e)
      /\ Gate!LetHedgeThrough
      /\ Becomes(r, [Sent(Passed(request[r]), e) EXCEPT !.pc = "both",
                                                        !.hedged = TRUE])

-----------------------------------------------------------------------------
(* Completions *)

InFlight == {"racing", "single", "both", "second", "attempt", "paid"}

(* A usable answer, degraded or not, answers the request; an attempt still *)
(* under way is dropped, unrecorded.                                       *)
Answered(r, e) ==
  /\ request[r].pc \in InFlight
  /\ e \in request[r].flying
  /\ Release(request[r].flying)
  /\ Becomes(r, [request[r] EXCEPT !.pc = "answered", !.flying = {}])
  /\ UNCHANGED gate

Landed(record, e) ==
  [record EXCEPT !.flying = @ \ {e}, !.failures = @ + 1]

(* Mutant: the first of two attempts to fail ends the race.                *)
FirstFailsEndsRace(r, e) ==
  /\ Is(r, "both")
  /\ e \in request[r].flying
  /\ Release(request[r].flying)
  /\ Becomes(r, [Landed(request[r], e) EXCEPT !.pc = "loop", !.flying = {}])
  /\ UNCHANGED gate

(* The first of two attempts fails: the other one is still waited for.     *)
FirstFails(r, e) ==
  /\ Is(r, "both")
  /\ e \in request[r].flying
  /\ Release({e})
  /\ Becomes(r, [Landed(request[r], e) EXCEPT !.pc = "second"])
  /\ UNCHANGED gate

OnlyFails(r, e) ==
  /\ request[r].pc \in {"racing", "single", "second", "attempt"}
  /\ e \in request[r].flying
  /\ Release({e})
  /\ Becomes(r, [Landed(request[r], e) EXCEPT !.pc = "loop"])
  /\ UNCHANGED gate

-----------------------------------------------------------------------------
(* Failover *)

CanTry(r) ==
  /\ Is(r, "loop")
  /\ request[r].queue # <<>>
  /\ request[r].started < MaxAttempts
  /\ request[r].time = "public"

TryNext(r) ==
  LET e == Head(request[r].queue)
  IN  /\ CanTry(r)
      /\ Free(e) /\ Take(e)
      /\ Becomes(r, [Sent(Passed(request[r]), e) EXCEPT !.pc = "attempt"])
      /\ Gate!SendPrimary

(* Cooling, without a token, or without a free slot.                       *)
NextRefused(r) ==
  LET e == Head(request[r].queue)
  IN  /\ CanTry(r)
      /\ Becomes(r, Refused(Passed(request[r]), e))
      /\ UNCHANGED <<busy, gate>>

(* No candidate, no attempt or no time is left in the public pool.         *)
PoolExhausted(r) ==
  /\ Is(r, "loop")
  /\ ~CanTry(r)
  /\ Becomes(r, [request[r] EXCEPT !.pc = "fallback"])
  /\ UNCHANGED <<busy, gate>>

(* try_fallback with a lease of the paid endpoint ...                      *)
FallbackSent(r) ==
  /\ Is(r, "fallback")
  /\ HasFallback /\ request[r].time # "over"
  /\ Free(Paid) /\ Take(Paid)
  /\ Becomes(r, [Sent(request[r], Paid) EXCEPT !.pc = "paid"])
  /\ UNCHANGED gate

(* ... or without: not configured, out of time, not installed, Cooling, no *)
(* token.                                                                  *)
FallbackSkipped(r) ==
  /\ Is(r, "fallback")
  /\ Becomes(r, [request[r] EXCEPT !.pc = "gaveUp"])
  /\ UNCHANGED <<busy, gate>>

FallbackFails(r) ==
  /\ Is(r, "paid")
  /\ Release({Paid})
  /\ Becomes(r, [Landed(request[r], Paid) EXCEPT !.pc = "gaveUp"])
  /\ UNCHANGED gate

-----------------------------------------------------------------------------
(* The public deadline passes, then the deadline. Without a fallback they  *)
(* are one. An attempt's time-out is an OnlyFails or FallbackFails.        *)
TimePasses(r) ==
  /\ request[r].pc \notin Ended /\ request[r].time # "over"
  /\ Becomes(r, [request[r] EXCEPT
       !.time = IF @ = "public" /\ HasFallback THEN "reserve" ELSE "over"])
  /\ UNCHANGED <<busy, gate>>

(* The client is gone and the whole future is dropped.                     *)
ClientGone(r) ==
  /\ request[r].pc \in InFlight \cup {"new", "fallback"}
  /\ Release(request[r].flying)
  /\ Becomes(r, [request[r] EXCEPT !.pc = "gone", !.flying = {}])
  /\ UNCHANGED gate

RequestStep(r) ==
  \/ Begin(r)
  \/ Primary(r)
  \/ HedgeUnwanted(r)
  \/ HedgeRefused(r)
  \/ HedgeDenied(r)
  \/ HedgeSent(r)
  \/ \E e \in Endpoints \cup {Paid} :
       \/ Answered(r, e)
       \/ FirstFails(r, e)
       \/ OnlyFails(r, e)
  \/ TryNext(r)
  \/ NextRefused(r)
  \/ PoolExhausted(r)
  \/ FallbackSent(r)
  \/ FallbackSkipped(r)
  \/ FallbackFails(r)

Next ==
  \E r \in Requests :
    \/ RequestStep(r)
    \/ TimePasses(r)
    \/ ClientGone(r)

Spec == Init /\ [][Next]_vars

-----------------------------------------------------------------------------
(* Properties. *)

(* Every variable has its type.                                            *)
TypeOK ==
  /\ request \in [Requests ->
       [pc : {"new", "primary", "loop", "fallback"} \cup InFlight \cup Ended,
        queue : Seq(Endpoints), snapshot : SUBSET Endpoints, started : 0..MaxAttempts,
        failures : Nat, flying : SUBSET (Endpoints \cup {Paid}),
        time : {"public", "reserve", "over"},
        tried : SUBSET (Endpoints \cup {Paid}),
        refused : SUBSET Endpoints, hedged : BOOLEAN]]
  /\ busy \in [Endpoints \cup {Paid} -> 0..Slots]
  /\ primaries \in Nat /\ hedges \in Nat

(* The permits taken from an endpoint are those of the attempts under way  *)
(* on it: none is lost when a hedge is denied, a race is decided or a      *)
(* client leaves, else the endpoint would run out of slots for good.       *)
LeasesBalance ==
  \A e \in Endpoints \cup {Paid} :
    busy[e] = Cardinality({r \in Requests : e \in request[r].flying})

(* A request sends to the public pool at most MaxAttempts times, hedge     *)
(* included, and two attempts are under way only for a hedged read.        *)
AttemptsBounded ==
  \A r \in Requests :
    /\ Cardinality(request[r].tried \ {Paid}) <= MaxAttempts
    /\ Cardinality(request[r].flying) > 1 => r \in ReadOnly /\ request[r].hedged

(* No endpoint is sent the same request twice, by failover, hedge or       *)
(* fallback: the paid endpoint in particular is charged once.              *)
TriedOnce ==
  [][\A r \in Requests :
       (request'[r].flying \ request[r].flying) \cap request[r].tried = {}]_vars

(* An error is reported only after every attempt that was sent came back   *)
(* as a failure: none is given up on while it could still answer.          *)
ErrorMeansAllFailed ==
  \A r \in Requests :
    Is(r, "gaveUp") => request[r].failures = Cardinality(request[r].tried)

(* The paid endpoint is asked last: nothing else is under way and all that *)
(* was sent to the public pool has failed.                                 *)
FallbackComesLast ==
  \A r \in Requests :
    Is(r, "paid") =>
      /\ request[r].flying = {Paid}
      /\ request[r].failures = request[r].started

(* Every hedge the gate let through was sent: none of the budget is spent  *)
(* on an endpoint that then gives no lease.                                *)
HedgesAreSent == hedges = Cardinality({r \in Requests : request[r].hedged})

(* DESIGN.md section 6: an endpoint's failure is never passed on: another  *)
(* one is tried until the budget is spent. Yet a candidate whose hedge the *)
(* gate denied is passed without ever having been tried.                   *)
ErrorMeansTried ==
  \A r \in Requests :
    Is(r, "gaveUp") /\ request[r].time = "public"
      /\ request[r].started < MaxAttempts
      => request[r].snapshot \subseteq request[r].tried \cup request[r].refused

=============================================================================
