------------------------------ MODULE HedgeGate ------------------------------
(* The process-wide hedge gate (src/src/hedge.rs): two relaxed atomic      *)
(* counters that every request shares. A request that wants to hedge loads *)
(* the primaries once, loads the hedges, and then repeats a weak           *)
(* compare-and-exchange on the hedges, with the primaries it first saw.    *)
(* Between any two of these steps other requests count and hedge.          *)
EXTENDS Integers

CONSTANTS
  Requests,
  Enabled,       \* hedging.enabled
  MaxPercent,    \* hedging.max_percent
  MaxPrimaries   \* bound on the number of primary requests

ASSUME GateAssumption ==
  /\ Enabled \in BOOLEAN
  /\ MaxPercent \in Nat
  /\ MaxPrimaries \in Nat

VARIABLES
  primaries,   \* AtomicU64
  hedges,      \* AtomicU64
  attempt,     \* each request in try_acquire: where it is, what it loaded
  granted      \* history: how often try_acquire returned true

vars == <<primaries, hedges, attempt, granted>>

-----------------------------------------------------------------------------
Allowed(p, h) == (h + 1) * 100 <= p * MaxPercent

Outside == [pc |-> "outside", primaries |-> 0, hedges |-> 0]

Init ==
  /\ primaries = 0
  /\ hedges = 0
  /\ attempt = [r \in Requests |-> Outside]
  /\ granted = 0

(* Relaxed atomics: fetch_add by whichever request sends a primary.        *)
RecordPrimary ==
  /\ primaries < MaxPrimaries
  /\ primaries' = primaries + 1
  /\ UNCHANGED <<hedges, attempt, granted>>

LoadPrimaries(r) ==
  /\ Enabled
  /\ attempt[r].pc = "outside"
  /\ attempt' = [attempt EXCEPT ![r] =
                   [pc |-> "loaded", primaries |-> primaries, hedges |-> 0]]
  /\ UNCHANGED <<primaries, hedges, granted>>

LoadHedges(r) ==
  /\ attempt[r].pc = "loaded"
  /\ attempt' = [attempt EXCEPT ![r] =
                   [pc |-> "loop", primaries |-> attempt[r].primaries,
                    hedges |-> hedges]]
  /\ UNCHANGED <<primaries, hedges, granted>>

Refuse(r) ==
  /\ attempt[r].pc = "loop"
  /\ ~Allowed(attempt[r].primaries, attempt[r].hedges)
  /\ attempt' = [attempt EXCEPT ![r] = Outside]
  /\ UNCHANGED <<primaries, hedges, granted>>

(* Mutant: a plain store instead of the compare-and-exchange.              *)
GrantByStore(r) ==
  /\ attempt[r].pc = "loop"
  /\ Allowed(attempt[r].primaries, attempt[r].hedges)
  /\ hedges' = attempt[r].hedges + 1
  /\ granted' = granted + 1
  /\ attempt' = [attempt EXCEPT ![r] = Outside]
  /\ UNCHANGED primaries

(* The exchange succeeds only on the value that was checked.               *)
Grant(r) ==
  /\ attempt[r].pc = "loop"
  /\ Allowed(attempt[r].primaries, attempt[r].hedges)
  /\ hedges = attempt[r].hedges
  /\ hedges' = attempt[r].hedges + 1
  /\ granted' = granted + 1
  /\ attempt' = [attempt EXCEPT ![r] = Outside]
  /\ UNCHANGED primaries

(* It fails when the value moved, and may when it did not: the request     *)
(* goes round the loop with the value the exchange returned.               *)
ExchangeFails(r) ==
  /\ attempt[r].pc = "loop"
  /\ Allowed(attempt[r].primaries, attempt[r].hedges)
  /\ attempt' = [attempt EXCEPT ![r] =
                   [pc |-> "loop", primaries |-> attempt[r].primaries,
                    hedges |-> hedges]]
  /\ UNCHANGED <<primaries, hedges, granted>>

Next ==
  \/ RecordPrimary
  \/ \E r \in Requests :
       \/ LoadPrimaries(r)
       \/ LoadHedges(r)
       \/ Refuse(r)
       \/ Grant(r)
       \/ ExchangeFails(r)

Spec == Init /\ [][Next]_vars

-----------------------------------------------------------------------------
(* Properties. *)

Place == {"outside", "loaded", "loop"}

(* Every variable has its type.                                            *)
TypeOK ==
  /\ primaries \in 0..MaxPrimaries
  /\ hedges \in Nat
  /\ attempt \in [Requests -> [pc : Place, primaries : Nat, hedges : Nat]]
  /\ granted \in Nat

(* Counted by the grants themselves and not by the counter they race on:   *)
(* hedges let through never exceed max_percent of the primary requests     *)
(* sent, however many requests are inside the gate with stale counts.      *)
HedgeShare == granted * 100 <= primaries * MaxPercent

(* The gate implements the budget: every grant is one that the primaries   *)
(* sent by then pay for, although the count it checked was an older one.   *)
Budget == INSTANCE HedgeBudget WITH hedges <- granted

GateImplementsBudget == Budget!Spec

=============================================================================
