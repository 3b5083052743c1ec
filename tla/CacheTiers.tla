------------------------------- MODULE CacheTiers -------------------------------
(***************************************************************************)
(* Which answers are kept for good (src/classify.rs, CachedResponse in     *)
(* src/cache.rs, the height of the chain in src/registry.rs).              *)
(*                                                                         *)
(* A chain grows and its last blocks are replaced; endpoints follow it at  *)
(* a small distance, and a liar may report any height at any time, alone   *)
(* too; reports grow old and are left out. A request is planned with the   *)
(* head the router believes in, answered by an endpoint later, and kept    *)
(* under the plan. Answers for the tip live two seconds and are left out.  *)
(***************************************************************************)
EXTENDS Naturals, FiniteSets, FiniteSetsExt

CONSTANTS
  Endpoints,
  Liars,            \* those that may report any height
  Confirmations,    \* the depth of the chain
  MaxLag,           \* how far behind an endpoint in service is
  MaxReorg,         \* how many blocks are replaced at once
  MaxHeight, MaxReorgs,
  MaxKept           \* answers followed at a time

VARIABLES
  chain,    \* the block at each height, named by the reorganisation that brought it
  tip,
  reorgs,
  mined,    \* the height of the block that holds the transaction, 0 if none does
  height,   \* what each endpoint reported lately, 0 if nothing
  head,     \* what the registry holds
  outvoted, \* history: no liar, or enough others, had a part in the head
  asked,    \* the request under way, its plan, and its answer
  kept      \* the immutable answers

vars == <<chain, tip, reorgs, mined, height, head, outvoted, asked, kept>>

Null == [height |-> 0, block |-> 0]
Heights == 1..MaxHeight

(* What is asked for: a block or state by number, the last block by its    *)
(* hash, a receipt, the latest state, the first block, a nonce, or state   *)
(* without a block where the address itself reads as a number.             *)
Calls ==
  [method : {"byNumber"}, height : Heights, block : {0}]
  \cup [method : {"byHash"}, height : {MaxHeight}, block : 0..MaxReorgs]
  \cup [method : {"receipt", "latest", "earliest", "nonce", "shortAddress"}, height : {1}, block : {0}]

NoRequest == [at |-> "none"]

Init ==
  /\ chain = [h \in Heights |-> 0] /\ tip = 1 /\ reorgs = 0 /\ mined = 0
  /\ height = [e \in Endpoints |-> 0] /\ head = 0 /\ outvoted = TRUE
  /\ asked = NoRequest /\ kept = {}

-----------------------------------------------------------------------------
(* The chain                                                               *)

Grow ==
  /\ tip < MaxHeight /\ tip' = tip + 1
  /\ mined' \in {mined, IF mined = 0 THEN tip' ELSE mined}
  /\ UNCHANGED <<chain, reorgs, height, head, outvoted, asked, kept>>

(* The last blocks are replaced; a transaction in them is in any of the    *)
(* new ones, or in none.                                                   *)
Reorg(depth) ==
  /\ reorgs < MaxReorgs /\ depth < tip
  /\ reorgs' = reorgs + 1
  /\ chain' = [h \in Heights |-> IF h > tip - depth THEN reorgs' ELSE chain[h]]
  /\ mined' \in IF mined > tip - depth THEN {0} \cup (tip - depth + 1)..tip ELSE {mined}
  /\ UNCHANGED <<tip, height, head, outvoted, asked, kept>>

-----------------------------------------------------------------------------
(* The head                                                                *)

Minus(a, b) == IF a > b THEN a - b ELSE 0

(* trimmed_max: of three and more, a tenth, but at least one, is left out. *)
TrimmedMax(reports) ==
  LET n == Cardinality(reports)
      trim == IF n < 3 THEN 0 ELSE Max({1, n \div 10})
      AtLeast(h) == {e \in reports : height'[e] >= h}
  IN Max({h \in {height'[e] : e \in reports} : Cardinality(AtLeast(h)) > trim})

Reports(e) ==
  IF e \in Liars THEN 1..(MaxHeight + 2) ELSE {h \in Heights : h + MaxLag >= tip /\ h <= tip}

(* Below three reports nothing is left out, and a liar among them decides. *)
Outvoted(reports) == reports \cap Liars = {} \/ Cardinality(reports) >= 3

RecordProbeHeight(e) ==
  /\ \E h \in Reports(e) : height' = [height EXCEPT ![e] = h]
  /\ LET reports == {x \in Endpoints : height'[x] # 0}
     IN head' = TrimmedMax(reports) /\ outvoted' = Outvoted(reports)
  /\ UNCHANGED <<chain, tip, reorgs, mined, asked, kept>>

(* recent_height: a report is too old, or its endpoint has left the list.  *)
(* The head stays as it is until the next report.                          *)
Forget(e) ==
  /\ height[e] # 0 /\ height' = [height EXCEPT ![e] = 0]
  /\ UNCHANGED <<chain, tip, reorgs, mined, head, outvoted, asked, kept>>

(* The paid fallback sets the head of a chain that has none.               *)
RecordFallbackHeight ==
  /\ head = 0
  /\ head' \in {h \in Heights : h + MaxLag >= tip /\ h <= tip} /\ outvoted' = TRUE
  /\ UNCHANGED <<chain, tip, reorgs, mined, height, asked, kept>>

-----------------------------------------------------------------------------
(* The plan of a request                                                   *)

Finalized == Minus(head, Confirmations)

ByBlockInclusive(h) == IF h <= Finalized THEN "immutable" ELSE "tip"
ByBlock(h) == IF h < Finalized THEN "immutable" ELSE "tip"

(* An address of leading zeros in the place of the block is read as one,   *)
(* that of a precompiled contract as a small one.                          *)
ClassifyMethod(r) ==
  CASE r.method = "byNumber" -> ByBlock(r.height)
    [] r.method = "byHash" -> "immutable"
    [] r.method = "earliest" -> "immutable"
    [] r.method = "receipt" -> "byResponse"
    [] r.method = "latest" -> "tip"
    [] r.method = "nonce" -> "none"
    [] r.method = "shortAddress" -> ByBlock(0)

Ask(r) ==
  /\ asked.at = "none" /\ ClassifyMethod(r) \in {"immutable", "byResponse"}
  /\ ~\E k \in kept : k.request = r
  /\ Cardinality(kept) < MaxKept
  /\ asked' = [at |-> "sent", request |-> r, class |-> ClassifyMethod(r), before |-> Finalized,
               outvoted |-> outvoted]
  /\ UNCHANGED <<chain, tip, reorgs, mined, height, head, outvoted, kept>>

(* What an endpoint with the chain up to some height says.                 *)
BlockAt(h, seen) == IF h = 0 \/ h > seen THEN Null ELSE [height |-> h, block |-> chain[h]]

Says(r, seen) ==
  CASE r.method = "byNumber" -> BlockAt(r.height, seen)
    [] r.method = "byHash" -> IF BlockAt(r.height, seen).block = r.block
                                THEN BlockAt(r.height, seen) ELSE Null
    [] r.method = "receipt" -> BlockAt(mined, seen)
    [] r.method = "earliest" -> BlockAt(1, seen)
    [] OTHER -> BlockAt(seen, seen)

InService == {h \in Heights : h + MaxLag >= tip /\ h <= tip}

Answered ==
  /\ asked.at = "sent"
  /\ \E seen \in InService :
       asked' = [at |-> "answered", request |-> asked.request, class |-> asked.class,
                 before |-> asked.before, outvoted |-> asked.outvoted,
                 answer |-> Says(asked.request, seen)]
  /\ UNCHANGED <<chain, tip, reorgs, mined, height, head, outvoted, kept>>

(* from_plan_success: a receipt is kept if its block is final by the head  *)
(* of the plan; any other result is kept, null too.                        *)
Keepable ==
  asked.class = "byResponse" => asked.answer # Null /\ asked.answer.height < asked.before

Keep ==
  /\ asked.at = "answered"
  /\ asked' = NoRequest
  /\ kept' = kept \cup {[request |-> asked.request, answer |-> asked.answer, outvoted |-> asked.outvoted] :
                           x \in {y \in {1} : Keepable}}
  /\ UNCHANGED <<chain, tip, reorgs, mined, height, head, outvoted>>

-----------------------------------------------------------------------------
Next ==
  \/ Grow \/ \E depth \in 1..MaxReorg : Reorg(depth)
  \/ RecordFallbackHeight \/ \E e \in Endpoints : RecordProbeHeight(e) \/ Forget(e)
  \/ Answered \/ Keep \/ \E r \in Calls : Ask(r)

Spec == Init /\ [][Next]_vars

-----------------------------------------------------------------------------
(* What an endpoint that has the whole chain says now.                     *)
Now(k) == Says(k.request, tip)

(* An answer about a block by its number, or a receipt, that is kept for   *)
(* good under a head that no liar decided is what the chain will always    *)
(* say: heads that are behind, a liar among three reports and more,        *)
(* reports that grow old, and blocks replaced between plan, answer and     *)
(* entry do not matter (trimmed_max, classify_method, from_plan_success).  *)
FinalAnswersStay ==
  \A k \in kept : k.outvoted /\ k.request.method \in {"byNumber", "receipt", "earliest"}
                    => k.answer = Now(k)

(* docs/DESIGN.md:134: the immutable tier holds only what is older than    *)
(* the confirmations, whatever the method; so an answer is never outdated. *)
ImmutableStaysTrue ==
  \A k \in kept : k.request.method # "byHash" \/ k.answer = Null => k.answer = Now(k)
=============================================================================
