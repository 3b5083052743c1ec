-------------------------------- MODULE Ingress --------------------------------
(***************************************************************************)
(* The way of an HTTP request to the forwarder: the guard (src/guard.rs), a*)
(* rate limit, a limit of the body and a semaphore, and the handler        *)
(* (src/server.rs, rpc and execute_batch) with its checks of the chain and *)
(* its batches, whose items run side by side. A client may go at any point,*)
(* whereupon hyper drops the future; a signal ends the process             *)
(* (src/main.rs) once the open requests are answered or a deadline passed. *)
(***************************************************************************)
EXTENDS Naturals, FiniteSets, Sequences

CONSTANTS
  Requests,
  MaxConcurrent,  \* max_concurrent_requests
  BatchLimit      \* batch_limit

VARIABLES
  phase,      \* of the process: serving, draining, stopped (code 0), killed (code 1)
  permits,    \* of the semaphore
  inFlight,   \* the gauge
  request     \* where each request is, its body, its results and its answer

vars == <<phase, permits, inFlight, request>>

(* A body: too large, no JSON, a scalar, one call, or a batch of calls and *)
(* of items that are no objects.                                           *)
Items == {"call", "junk"}
Batches == (UNION {[1..n -> Items] : n \in 0..BatchLimit}) \cup {[i \in 1..(BatchLimit + 1) |-> "call"]}
Bodies == [kind : {"large", "garbage", "scalar", "call"}, items : {<<>>}]
          \cup [kind : {"batch"}, items : Batches]
ChainRefusals == {"unknown_chain", "chain_disabled", "no_endpoints"}

(* The id of an item is its place; an item that is no object has none.     *)
NoId == 0
Id(items, i) == IF items[i] = "call" THEN i ELSE NoId

(* An answer is one for the whole request or one for each item of a batch. *)
Whole(says) == [whole |-> TRUE, items |-> <<[id |-> NoId, says |-> says]>>]
PerItem(answers) == [whole |-> FALSE, items |-> answers]
NoAnswer == PerItem(<<>>)

Away == [at |-> "away", body |-> [kind |-> "call", items |-> <<>>], results |-> <<>>,
         answer |-> NoAnswer]
Gone == [Away EXCEPT !.at = "gone"]

Init ==
  /\ phase = "serving"
  /\ permits = MaxConcurrent /\ inFlight = 0
  /\ request = [r \in Requests |-> Away]

Answers(r, at, answer) == request' = [request EXCEPT ![r].at = at, ![r].answer = answer]

Inside == {r \in Requests : request[r].at \in {"handler", "batch", "done"}}
Open == Inside \cup {r \in Requests : request[r].at = "body"}

-----------------------------------------------------------------------------
(* The guard                                                               *)

(* The limiter, a library, lets a request through or not.                  *)
Arrive(r) ==
  /\ phase = "serving" /\ request[r].at = "away"
  /\ \E body \in Bodies, allowed \in BOOLEAN :
       request' = [request EXCEPT ![r] =
         IF allowed THEN [Away EXCEPT !.at = "body", !.body = body]
         ELSE [Away EXCEPT !.at = "answered", !.answer = Whole("rate_limited")]]
  /\ UNCHANGED <<phase, permits, inFlight>>

(* The whole body is read before a permit is asked for.                    *)
TooLarge(r) ==
  /\ request[r].at = "body" /\ request[r].body.kind = "large"
  /\ Answers(r, "answered", Whole("body_too_large"))
  /\ UNCHANGED <<phase, permits, inFlight>>

Overload(r) ==
  /\ request[r].at = "body" /\ request[r].body.kind # "large" /\ permits = 0
  /\ Answers(r, "answered", Whole("overload"))
  /\ UNCHANGED <<phase, permits, inFlight>>

Admit(r) ==
  /\ request[r].at = "body" /\ request[r].body.kind # "large" /\ permits > 0
  /\ permits' = permits - 1 /\ inFlight' = inFlight + 1
  /\ request' = [request EXCEPT ![r].at = "handler"]
  /\ UNCHANGED phase

-----------------------------------------------------------------------------
(* The handler                                                             *)

(* The body is parsed before the chain is looked at, its items after.      *)
NotJson(r) ==
  /\ request[r].at = "handler" /\ request[r].body.kind = "garbage"
  /\ Answers(r, "done", Whole("parse_error"))
  /\ UNCHANGED <<phase, permits, inFlight>>

(* Of a batch, however long, each item is answered with the refusal.       *)
ChainRefuses(r, reason) ==
  LET items == request[r].body.items
  IN /\ request[r].at = "handler" /\ request[r].body.kind # "garbage"
     /\ Answers(r, "done",
          IF request[r].body.kind # "batch" THEN Whole(reason)
          ELSE PerItem([i \in DOMAIN items |-> [id |-> Id(items, i), says |-> reason]]))
     /\ UNCHANGED <<phase, permits, inFlight>>

Malformed(r) ==
  \/ request[r].body.kind = "scalar"
  \/ request[r].body.kind = "batch" /\ Len(request[r].body.items) \notin 1..BatchLimit

InvalidRequest(r) ==
  /\ request[r].at = "handler" /\ Malformed(r)
  /\ Answers(r, "done", Whole("invalid_request"))
  /\ UNCHANGED <<phase, permits, inFlight>>

Forward(r) ==
  /\ request[r].at = "handler" /\ request[r].body.kind = "call"
  /\ Answers(r, "done", Whole("forwarded"))
  /\ UNCHANGED <<phase, permits, inFlight>>

(* execute_batch: junk is answered at once, a task is spawned per call.    *)
SpawnBatch(r) ==
  /\ request[r].at = "handler" /\ request[r].body.kind = "batch" /\ ~Malformed(r)
  /\ request' = [request EXCEPT ![r].at = "batch",
       ![r].results = [i \in DOMAIN request[r].body.items |->
          [id |-> NoId,
           says |-> IF request[r].body.items[i] = "junk" THEN "invalid_request" ELSE "running"]]]
  /\ UNCHANGED <<phase, permits, inFlight>>

Running(r) == {i \in DOMAIN request[r].results : request[r].results[i].says = "running"}

(* The tasks end in any order, each with its index and its response.       *)
ItemLandsFirst(r, i) ==
  /\ request[r].at = "batch" /\ i \in Running(r)
  /\ request' = [request EXCEPT ![r].results[CHOOSE j \in Running(r) : \A k \in Running(r) : j <= k] =
                   [id |-> i, says |-> "forwarded"]]
  /\ UNCHANGED <<phase, permits, inFlight>>

ItemLands(r, i) ==
  /\ request[r].at = "batch" /\ i \in Running(r)
  /\ request' = [request EXCEPT ![r].results[i] = [id |-> i, says |-> "forwarded"]]
  /\ UNCHANGED <<phase, permits, inFlight>>

ItemPanics(r, i) ==
  /\ request[r].at = "batch" /\ i \in Running(r)
  /\ request' = [request EXCEPT ![r].results[i].says = "lost"]
  /\ UNCHANGED <<phase, permits, inFlight>>

(* The item of a lost task is answered with an error under its own id.     *)
JoinBatch(r) ==
  /\ request[r].at = "batch" /\ Running(r) = {}
  /\ Answers(r, "done", PerItem([i \in DOMAIN request[r].results |->
       IF request[r].results[i].says = "lost" THEN [id |-> i, says |-> "exhausted"]
       ELSE request[r].results[i]]))
  /\ UNCHANGED <<phase, permits, inFlight>>

-----------------------------------------------------------------------------
(* The permit and the gauge go with the future, however it ends.           *)
Return(r) ==
  /\ request[r].at = "done"
  /\ permits' = permits + 1 /\ inFlight' = inFlight - 1
  /\ request' = [request EXCEPT ![r].at = "answered"]
  /\ UNCHANGED phase

ClientGoneKeepsGauge(r) ==
  /\ r \in Open
  /\ permits' = IF r \in Inside THEN permits + 1 ELSE permits
  /\ request' = [request EXCEPT ![r] = Gone]
  /\ UNCHANGED <<phase, inFlight>>

ClientGone(r) ==
  /\ r \in Open
  /\ permits' = IF r \in Inside THEN permits + 1 ELSE permits
  /\ inFlight' = IF r \in Inside THEN inFlight - 1 ELSE inFlight
  /\ request' = [request EXCEPT ![r] = Gone]
  /\ UNCHANGED phase

-----------------------------------------------------------------------------
(* The end of the process                                                  *)

Signal ==
  /\ phase = "serving" /\ phase' = "draining"
  /\ UNCHANGED <<permits, inFlight, request>>

Drained ==
  /\ phase = "draining" /\ Open = {}
  /\ phase' = "stopped"
  /\ UNCHANGED <<permits, inFlight, request>>

DeadlineOnlyInside ==
  /\ phase = "draining" /\ Inside # {}
  /\ phase' = "killed"
  /\ UNCHANGED <<permits, inFlight, request>>

Deadline ==
  /\ phase = "draining"
  /\ phase' = "killed"
  /\ UNCHANGED <<permits, inFlight, request>>

Alive == phase \in {"serving", "draining"}

Read(r) == TooLarge(r) \/ Overload(r) \/ Admit(r)

Handle(r) ==
  /\ Alive
  /\ \/ NotJson(r) \/ InvalidRequest(r) \/ Forward(r) \/ SpawnBatch(r)
     \/ \E reason \in ChainRefusals : ChainRefuses(r, reason)
     \/ \E i \in Running(r) : ItemLands(r, i) \/ ItemPanics(r, i)
     \/ JoinBatch(r) \/ Return(r)

Next ==
  \/ \E r \in Requests : Arrive(r) \/ Handle(r) \/ (Alive /\ (Read(r) \/ ClientGone(r)))
  \/ Signal \/ Drained \/ Deadline

(* The runtime polls every task and its timer; nothing is assumed of a     *)
(* client: it may never finish sending its body.                           *)
Spec == Init /\ [][Next]_vars /\ (\A r \in Requests : WF_vars(Handle(r))) /\ WF_vars(Deadline)

-----------------------------------------------------------------------------
(* The permits taken and the gauge are those of the requests inside, also  *)
(* when clients go away in the middle of a batch.                          *)
NothingLeaks ==
  /\ inFlight = Cardinality(Inside)
  /\ permits + inFlight = MaxConcurrent

(* A batch that is answered item by item has one answer for each item, in  *)
(* its place and under its id, in whatever order the tasks ended and       *)
(* though some were lost.                                                  *)
BatchAnsweredInPlace ==
  \A r \in Requests :
    LET items == request[r].body.items
        answer == request[r].answer
    IN (request[r].at \in {"done", "answered"} /\ request[r].body.kind = "batch" /\ ~answer.whole) =>
         /\ Len(answer.items) = Len(items)
         /\ \A i \in DOMAIN items :
              answer.items[i].id = Id(items, i) /\ answer.items[i].says \notin {"running", "lost"}

(* A signal ends the process, though a client never finishes its body.     *)
ShutdownEnds == phase = "draining" ~> phase \in {"stopped", "killed"}
=============================================================================
