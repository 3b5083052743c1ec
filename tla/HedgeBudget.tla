----------------------------- MODULE HedgeBudget -----------------------------
(* What the hedge gate promises (DESIGN.md section 5): every hedge it lets *)
(* through is paid for, at that moment, by the primary requests sent so    *)
(* far. One step decides; HedgeGate shows how the atomics get there.       *)
EXTENDS Integers

CONSTANTS
  MaxPercent,    \* hedging.max_percent
  MaxPrimaries   \* bound on the number of primary requests

VARIABLES
  primaries,   \* primary requests sent
  hedges       \* hedges let through

budget == <<primaries, hedges>>

Affordable(p, h) == h * 100 <= p * MaxPercent

Init ==
  /\ primaries = 0
  /\ hedges = 0

SendPrimary ==
  /\ primaries < MaxPrimaries
  /\ primaries' = primaries + 1
  /\ UNCHANGED hedges

LetHedgeThrough ==
  /\ Affordable(primaries, hedges + 1)
  /\ hedges' = hedges + 1
  /\ UNCHANGED primaries

Next == SendPrimary \/ LetHedgeThrough

Spec == Init /\ [][Next]_budget

=============================================================================
