---------------------------- MODULE ForwardProofs ----------------------------
(* The forwarder for any requests, endpoints, slots and attempts.           *)
EXTENDS Forward, FiniteSetTheorems, SequenceTheorems, TLAPS

All == Endpoints \cup {Paid}

RequestType ==
  [pc : {"new", "primary", "loop", "fallback"} \cup InFlight \cup Ended,
   queue : Seq(Endpoints), snapshot : SUBSET Endpoints, started : 0..MaxAttempts,
   failures : Nat, flying : SUBSET All,
   time : {"public", "reserve", "over"},
   tried : SUBSET All, refused : SUBSET Endpoints, hedged : BOOLEAN]

(* The candidates left are distinct, and none of them was tried.           *)
Untried(q) ==
  /\ \A i, j \in 1..Len(q.queue) : i # j => q.queue[i] # q.queue[j]
  /\ \A i \in 1..Len(q.queue) : q.queue[i] \notin q.tried

(* What was sent is under way or has failed, until the request is answered *)
(* or dropped. `started` counts what was sent to the public pool.          *)
Counted(q) ==
  /\ q.flying \subseteq q.tried
  /\ q.started = Cardinality(q.tried \ {Paid})
  /\ q.pc \notin {"answered", "gone"} =>
       q.failures + Cardinality(q.flying) = Cardinality(q.tried)

(* What is under way at each place of execute_uncached.                    *)
Placed(q) ==
  /\ q.pc \notin InFlight => q.flying = {}
  /\ q.pc \in {"racing", "single", "second", "attempt"} =>
       \E e \in Endpoints : q.flying = {e}
  /\ q.pc = "both" => \E d, e \in Endpoints : d # e /\ q.flying = {d, e}
  /\ q.pc = "paid" => q.flying = {Paid}
  /\ Paid \in q.tried => q.pc \in {"paid"} \cup Ended
  /\ q.pc = "new" => q.tried = {}
  /\ q.pc = "primary" => q.tried = {} /\ Len(q.queue) >= 2
  /\ q.pc = "racing" => q.queue # <<>>

(* Only a read is in the race, and it is hedged from its second attempt on.*)
Raced(r, q) ==
  /\ q.pc \in {"primary", "racing", "both"} => r \in ReadOnly
  /\ q.pc = "both" => q.hedged
  /\ q.hedged => q.pc \notin {"new", "primary", "racing"}

Sound(r, q) ==
  /\ q \in RequestType
  /\ Untried(q) /\ Counted(q) /\ Placed(q) /\ Raced(r, q)

ForwardInv ==
  /\ request \in [Requests -> RequestType]
  /\ \A r \in Requests : Sound(r, request[r])
  /\ busy \in [All -> 0..Slots]
  /\ primaries \in Nat /\ hedges \in Nat
  /\ LeasesBalance
  /\ HedgesAreSent

-----------------------------------------------------------------------------
(* The operators on a request's record. *)

(* Passing a candidate takes one that was not tried off the queue.         *)
LEMMA PassedUntried ==
  ASSUME NEW q \in RequestType, Untried(q), q.queue # <<>>
  PROVE  /\ Passed(q) \in RequestType
         /\ Untried(Passed(q))
         /\ Passed(q) = [q EXCEPT !.queue = Tail(q.queue)]
         /\ Head(q.queue) \in Endpoints /\ Head(q.queue) \notin q.tried
         /\ \A i \in 1..Len(Tail(q.queue)) : Tail(q.queue)[i] # Head(q.queue)
         /\ Len(Tail(q.queue)) = Len(q.queue) - 1
<1>1. q.queue \in Seq(Endpoints) /\ Len(q.queue) \in Nat
  BY DEF RequestType
<1>2. /\ Head(q.queue) \in Endpoints /\ Head(q.queue) = q.queue[1]
      /\ Tail(q.queue) \in Seq(Endpoints)
      /\ Len(Tail(q.queue)) = Len(q.queue) - 1 /\ Len(q.queue) >= 1
      /\ \A i \in 1..Len(Tail(q.queue)) : Tail(q.queue)[i] = q.queue[i + 1]
  BY <1>1
<1>3. Passed(q) = [q EXCEPT !.queue = Tail(q.queue)] /\ Passed(q) \in RequestType
  BY <1>2 DEF Passed, RequestType
<1>4. Passed(q).queue = Tail(q.queue) /\ Passed(q).tried = q.tried
  BY <1>3 DEF RequestType
<1>5. \A i \in 1..Len(Tail(q.queue)) : i \in 1..Len(q.queue) /\ i + 1 \in 1..Len(q.queue) /\ i + 1 # 1
  BY <1>1, <1>2
<1>6. \A i \in 1..Len(Tail(q.queue)) : Tail(q.queue)[i] # Head(q.queue) /\ Tail(q.queue)[i] \notin q.tried
  BY <1>1, <1>2, <1>5 DEF Untried
<1>7. \A i, j \in 1..Len(Tail(q.queue)) : i # j => Tail(q.queue)[i] # Tail(q.queue)[j]
  <2>1. TAKE i, j \in 1..Len(Tail(q.queue))
  <2>2. HAVE i # j
  <2>3. i + 1 # j + 1
    BY <2>2
  <2>. QED
    BY <1>2, <1>5, <2>3 DEF Untried
<1>8. Head(q.queue) \notin q.tried
  BY <1>1, <1>2 DEF Untried
<1>. QED
  BY <1>2, <1>3, <1>4, <1>6, <1>7, <1>8 DEF Untried

(* Sets of endpoints are finite. *)
LEMMA EndpointsFinite ==
  ASSUME NEW S \in SUBSET All
  PROVE  IsFiniteSet(S) /\ Cardinality(S) \in Nat
<1>1. IsFiniteSet(All)
  BY ForwardAssumption, FS_AddElement DEF All
<1>. QED
  BY <1>1, FS_Subset, FS_CardinalityType

(* An endpoint that was not tried is counted once when it is sent to.      *)
LEMMA SentCounted ==
  ASSUME NEW q \in RequestType, Counted(q), NEW e \in All,
         e \notin q.tried, e # Paid => q.started < MaxAttempts,
         q.pc \notin {"answered", "gone"}
  PROVE  /\ Sent(q, e) \in RequestType
         /\ Counted(Sent(q, e))
         /\ Sent(q, e).flying = q.flying \cup {e}
         /\ Sent(q, e).tried = q.tried \cup {e}
         /\ Sent(q, e).queue = q.queue /\ Sent(q, e).hedged = q.hedged
         /\ Sent(q, e).pc = q.pc
<1>. DEFINE s == Sent(q, e)
<1>1. /\ s.flying = q.flying \cup {e} /\ s.tried = q.tried \cup {e}
      /\ s.started = IF e = Paid THEN q.started ELSE q.started + 1
      /\ s.pc = q.pc /\ s.failures = q.failures /\ s.queue = q.queue
      /\ s.hedged = q.hedged
  BY DEF Sent, RequestType
<1>2. s \in RequestType
  <2>1. (IF e = Paid THEN q.started ELSE q.started + 1) \in 0..MaxAttempts
    BY ForwardAssumption DEF RequestType
  <2>2. q.flying \cup {e} \in SUBSET All /\ q.tried \cup {e} \in SUBSET All
    BY DEF RequestType
  <2>. QED
    BY <2>1, <2>2 DEF Sent, RequestType
<1>3. /\ IsFiniteSet(q.flying) /\ IsFiniteSet(q.tried) /\ IsFiniteSet(q.tried \ {Paid})
      /\ Cardinality(q.flying) \in Nat /\ Cardinality(q.tried) \in Nat
      /\ Cardinality(q.tried \ {Paid}) \in Nat
      /\ q.failures \in Nat /\ q.started \in Nat
  <2>1. q.flying \in SUBSET All /\ q.tried \in SUBSET All /\ q.tried \ {Paid} \in SUBSET All
        /\ q.failures \in Nat /\ q.started \in Nat
    BY ForwardAssumption DEF RequestType
  <2>. QED
    BY <2>1, EndpointsFinite
<1>4. /\ Cardinality(s.tried) = Cardinality(q.tried) + 1
      /\ Cardinality(s.flying) = Cardinality(q.flying) + 1
  <2>1. e \notin q.flying
    BY DEF Counted
  <2>2. /\ Cardinality(q.tried \cup {e}) = Cardinality(q.tried) + 1
        /\ Cardinality(q.flying \cup {e}) = Cardinality(q.flying) + 1
    BY <1>3, <2>1, FS_AddElement
  <2>. QED
    BY <1>1, <2>2
<1>5. s.started = Cardinality(s.tried \ {Paid})
  <2>1. CASE e = Paid
    <3>1. s.tried \ {Paid} = q.tried \ {Paid}
      BY <1>1, <2>1
    <3>. QED
      BY <1>1, <2>1, <3>1 DEF Counted
  <2>2. CASE e # Paid
    <3>1. s.tried \ {Paid} = (q.tried \ {Paid}) \cup {e} /\ e \notin q.tried \ {Paid}
      BY <1>1, <2>2
    <3>2. Cardinality(s.tried \ {Paid}) = Cardinality(q.tried \ {Paid}) + 1
      BY <1>3, <3>1, FS_AddElement
    <3>. QED
      BY <1>1, <2>2, <3>2 DEF Counted
  <2>. QED
    BY <2>1, <2>2
<1>6. s.failures + Cardinality(s.flying) = Cardinality(s.tried)
  <2>. HIDE DEF s
  <2>. QED
    BY <1>1, <1>3, <1>4 DEF Counted
<1>7. s.flying \subseteq s.tried
  BY <1>1 DEF Counted
<1>. QED
  BY <1>1, <1>2, <1>5, <1>6, <1>7 DEF Counted

(* An attempt that came back as a failure is one under way less and one    *)
(* failure more.                                                           *)
LEMMA LandedCounted ==
  ASSUME NEW q \in RequestType, Counted(q), NEW e \in q.flying,
         q.pc \notin {"answered", "gone"}
  PROVE  /\ Landed(q, e) \in RequestType
         /\ Counted(Landed(q, e))
         /\ Landed(q, e).flying = q.flying \ {e}
         /\ Landed(q, e).tried = q.tried
         /\ Landed(q, e).queue = q.queue /\ Landed(q, e).hedged = q.hedged
         /\ Landed(q, e).pc = q.pc
<1>. DEFINE s == Landed(q, e)
<1>1. /\ s.flying = q.flying \ {e} /\ s.tried = q.tried /\ s.started = q.started
      /\ s.pc = q.pc /\ s.failures = q.failures + 1 /\ s.queue = q.queue
      /\ s.hedged = q.hedged
  BY DEF Landed, RequestType
<1>2. s \in RequestType
  <2>1. q.failures + 1 \in Nat /\ q.flying \ {e} \in SUBSET All
    BY DEF RequestType
  <2>. QED
    BY <2>1 DEF Landed, RequestType
<1>3. IsFiniteSet(q.flying) /\ Cardinality(q.flying) \in Nat
      /\ Cardinality(q.tried) \in Nat /\ q.failures \in Nat
  <2>1. q.flying \in SUBSET All /\ q.tried \in SUBSET All /\ q.failures \in Nat
    BY DEF RequestType
  <2>. QED
    BY <2>1, EndpointsFinite
<1>4. Cardinality(s.flying) = Cardinality(q.flying) - 1
  BY <1>1, <1>3, FS_RemoveElement
<1>5. s.failures + Cardinality(s.flying) = Cardinality(s.tried)
  <2>. HIDE DEF s
  <2>. QED
    BY <1>1, <1>3, <1>4 DEF Counted
<1>. QED
  BY <1>1, <1>2, <1>5 DEF Counted

-----------------------------------------------------------------------------
(* One request steps, the others stay where they are. *)

LEMMA OneSteps ==
  ASSUME ForwardInv, NEW r \in Requests, NEW q \in RequestType, Becomes(r, q)
  PROVE  /\ request' \in [Requests -> RequestType]
         /\ request'[r] = q
         /\ \A s \in Requests \ {r} : request'[s] = request[s]
BY DEF ForwardInv, Becomes

(* The requests with an attempt under way on an endpoint.                  *)
On(e) == {r \in Requests : e \in request[r].flying}

LEMMA OnFinite ==
  ASSUME NEW S \in SUBSET Requests
  PROVE  IsFiniteSet(S) /\ Cardinality(S) \in Nat
BY ForwardAssumption, FS_Subset, FS_CardinalityType

(* Permits are left alone by who sends nothing and drops nothing, ...      *)
LEMMA StaysBalanced ==
  ASSUME ForwardInv, NEW r \in Requests, NEW q \in RequestType, Becomes(r, q),
         q.flying = request[r].flying, busy' = busy
  PROVE  LeasesBalance' /\ busy' \in [All -> 0..Slots]
<1>1. \A e \in All : On(e)' = On(e)
  BY OneSteps DEF On
<1>. QED
  BY <1>1 DEF LeasesBalance, ForwardInv, On, All

(* ... taken by who sends, ...                                             *)
LEMMA TakesBalanced ==
  ASSUME ForwardInv, NEW r \in Requests, NEW q \in RequestType, Becomes(r, q),
         NEW e \in All, e \notin request[r].flying,
         q.flying = request[r].flying \cup {e}, Free(e), Take(e)
  PROVE  LeasesBalance' /\ busy' \in [All -> 0..Slots]
<1>1. /\ On(e)' = On(e) \cup {r} /\ r \notin On(e)
      /\ \A d \in All \ {e} : On(d)' = On(d)
  BY OneSteps DEF On
<1>2. busy \in [All -> 0..Slots] /\ Slots \in Nat
      /\ \A d \in All : busy[d] = Cardinality(On(d))
  BY ForwardAssumption DEF ForwardInv, LeasesBalance, All, On
<1>3. /\ busy'[e] = busy[e] + 1 /\ busy[e] < Slots
      /\ \A d \in All \ {e} : busy'[d] = busy[d]
      /\ busy' \in [All -> 0..Slots]
  <2>1. busy' = [busy EXCEPT ![e] = busy[e] + 1] /\ busy[e] < Slots
    BY DEF Take, Free
  <2>2. busy[e] + 1 \in 0..Slots
    BY <1>2, <2>1
  <2>. QED
    BY <1>2, <2>1, <2>2
<1>4. Cardinality(On(e)') = busy'[e]
  <2>1. IsFiniteSet(On(e))
    BY OnFinite DEF On
  <2>2. Cardinality(On(e) \cup {r}) = Cardinality(On(e)) + 1
    BY <1>1, <2>1, FS_AddElement
  <2>. QED
    BY <1>1, <1>2, <1>3, <2>2
<1>5. \A d \in All : busy'[d] = Cardinality(On(d)')
  BY <1>1, <1>2, <1>3, <1>4
<1>. QED
  BY <1>3, <1>5 DEF LeasesBalance, All, On

(* ... and given back by who drops attempts.                               *)
LEMMA ReleasesBalanced ==
  ASSUME ForwardInv, NEW r \in Requests, NEW q \in RequestType, Becomes(r, q),
         NEW leases \in SUBSET request[r].flying,
         q.flying = request[r].flying \ leases, Release(leases)
  PROVE  LeasesBalance' /\ busy' \in [All -> 0..Slots]
<1>1. \A e \in leases : On(e)' = On(e) \ {r} /\ r \in On(e)
  BY OneSteps DEF On
<1>2. \A e \in All \ leases : On(e)' = On(e)
  BY OneSteps DEF On
<1>3. busy \in [All -> 0..Slots] /\ Slots \in Nat
      /\ \A d \in All : busy[d] = Cardinality(On(d))
  BY ForwardAssumption DEF ForwardInv, LeasesBalance, All, On
<1>4. request[r].flying \subseteq All
  BY DEF ForwardInv, RequestType
<1>5. \A e \in leases : Cardinality(On(e)') = busy[e] - 1 /\ busy[e] - 1 \in 0..Slots
  <2>. SUFFICES ASSUME NEW e \in leases
                PROVE  Cardinality(On(e)') = busy[e] - 1 /\ busy[e] - 1 \in 0..Slots
    OBVIOUS
  <2>1. IsFiniteSet(On(e)) /\ IsFiniteSet(On(e) \ {r}) /\ On(e) \ {r} \in SUBSET Requests
    BY OnFinite DEF On
  <2>2. /\ Cardinality(On(e) \ {r}) = Cardinality(On(e)) - 1
        /\ Cardinality(On(e) \ {r}) \in Nat
    BY <1>1, <2>1, FS_RemoveElement, OnFinite
  <2>3. e \in All /\ busy[e] \in 0..Slots /\ busy[e] = Cardinality(On(e))
    BY <1>3, <1>4
  <2>4. On(e)' = On(e) \ {r} /\ r \in On(e)
    BY <1>1
  <2>5. Cardinality(On(e) \ {r}) = busy[e] - 1
    BY <2>2, <2>3, <2>4
  <2>6. busy[e] - 1 \in 0..Slots
    BY <1>3, <2>2, <2>3, <2>5
  <2>. QED
    BY <2>4, <2>5, <2>6
<1>6. busy' = [e \in All |-> IF e \in leases THEN busy[e] - 1 ELSE busy[e]]
  BY <1>3 DEF Release
<1>7. busy' \in [All -> 0..Slots]
  BY <1>3, <1>5, <1>6
<1>8. \A d \in All : busy'[d] = Cardinality(On(d)')
  BY <1>2, <1>3, <1>5, <1>6
<1>. QED
  BY <1>7, <1>8 DEF LeasesBalance, All, On

(* The invariant is kept by a step of a request that sends no hedge.       *)
LEMMA StepKeeps ==
  ASSUME ForwardInv, NEW r \in Requests, NEW q, Sound(r, q), Becomes(r, q),
         LeasesBalance', busy' \in [All -> 0..Slots],
         q.hedged = request[r].hedged, primaries' \in Nat, hedges' = hedges
  PROVE  ForwardInv'
<1>1. q \in RequestType
  BY DEF Sound
<1>2. /\ request' \in [Requests -> RequestType]
      /\ request'[r] = q
      /\ \A s \in Requests \ {r} : request'[s] = request[s]
  BY <1>1, OneSteps
<1>3. \A s \in Requests : Sound(s, request'[s])
  BY <1>2 DEF ForwardInv
<1>4. HedgesAreSent'
  <2>1. {s \in Requests : request'[s].hedged} = {s \in Requests : request[s].hedged}
    BY <1>2
  <2>. QED
    BY <2>1 DEF HedgesAreSent, ForwardInv
<1>. QED
  BY <1>2, <1>3, <1>4 DEF ForwardInv

(* A hedge is counted once: who sends one has sent none before.            *)
LEMMA HedgeCounted ==
  ASSUME ForwardInv, NEW r \in Requests, NEW q, Sound(r, q), Becomes(r, q),
         LeasesBalance', busy' \in [All -> 0..Slots],
         ~request[r].hedged, q.hedged, primaries' = primaries, hedges' = hedges + 1
  PROVE  ForwardInv'
<1>1. q \in RequestType
  BY DEF Sound
<1>2. /\ request' \in [Requests -> RequestType]
      /\ request'[r] = q
      /\ \A s \in Requests \ {r} : request'[s] = request[s]
  BY <1>1, OneSteps
<1>3. \A s \in Requests : Sound(s, request'[s])
  BY <1>2 DEF ForwardInv
<1>4. HedgesAreSent'
  <2>. DEFINE sent == {s \in Requests : request[s].hedged}
  <2>1. {s \in Requests : request'[s].hedged} = sent \cup {r} /\ r \notin sent
    BY <1>2
  <2>2. IsFiniteSet(sent)
    BY OnFinite
  <2>3. Cardinality(sent \cup {r}) = Cardinality(sent) + 1
    BY <2>1, <2>2, FS_AddElement
  <2>. QED
    BY <2>1, <2>3 DEF HedgesAreSent, ForwardInv
<1>. QED
  BY <1>2, <1>3, <1>4 DEF ForwardInv

-----------------------------------------------------------------------------
LEMMA InitForward == Init => ForwardInv
<1>. SUFFICES ASSUME Init PROVE ForwardInv
  OBVIOUS
<1>1. MaxAttempts \in Nat /\ Slots \in Nat
  BY ForwardAssumption
<1>2. /\ New.pc = "new" /\ New.queue = <<>> /\ New.started = 0 /\ New.failures = 0
      /\ New.flying = {} /\ New.tried = {} /\ New.hedged = FALSE
      /\ New \in RequestType
  BY <1>1 DEF New, RequestType
<1>3. Untried(New)
  BY <1>2 DEF Untried
<1>4. Counted(New)
  <2>1. {} \ {Paid} = {}
    OBVIOUS
  <2>. QED
    BY <1>2, <2>1, FS_EmptySet DEF Counted
<1>5. \A r \in Requests : Sound(r, New)
  BY <1>2, <1>3, <1>4 DEF Sound, Placed, Raced
<1>6. request = [r \in Requests |-> New] /\ busy = [e \in All |-> 0]
      /\ primaries = 0 /\ hedges = 0
  BY DEF Init, All
<1>7. \A r \in Requests : request[r] = New
  BY <1>6
<1>8. busy \in [All -> 0..Slots]
  BY <1>1, <1>6
<1>9. LeasesBalance
  <2>1. \A e \in All : {r \in Requests : e \in request[r].flying} = {} /\ busy[e] = 0
    BY <1>2, <1>6, <1>7
  <2>. QED
    BY <2>1, FS_EmptySet DEF LeasesBalance, All
<1>10. HedgesAreSent
  <2>1. {r \in Requests : request[r].hedged} = {}
    BY <1>2, <1>7
  <2>. QED
    BY <1>6, <2>1, FS_EmptySet DEF HedgesAreSent
<1>11. request \in [Requests -> RequestType] /\ \A r \in Requests : Sound(r, request[r])
  BY <1>2, <1>5, <1>6
<1>. QED
  BY <1>6, <1>8, <1>9, <1>10, <1>11 DEF ForwardInv

(* The snapshot lists each usable endpoint once.                           *)
LEMMA BeginKeeps ==
  ASSUME ForwardInv, NEW r \in Requests, Begin(r)
  PROVE  ForwardInv'
<1>. DEFINE o == request[r]
<1>1. Sound(r, o) /\ o \in RequestType /\ o.pc = "new"
  BY DEF ForwardInv, Sound, Begin, Is
<1>2. PICK usable \in SUBSET Endpoints :
        \E queue \in SetToSeqs(usable), healthy \in BOOLEAN :
          Becomes(r, [o EXCEPT
            !.queue = queue, !.snapshot = usable,
            !.pc = IF r \in ReadOnly /\ Len(queue) >= 2 /\ healthy
                   THEN "primary" ELSE "loop"])
  BY DEF Begin
<1>. PICK queue \in SetToSeqs(usable), healthy \in BOOLEAN :
       Becomes(r, [o EXCEPT
         !.queue = queue, !.snapshot = usable,
         !.pc = IF r \in ReadOnly /\ Len(queue) >= 2 /\ healthy
                THEN "primary" ELSE "loop"])
  BY <1>2
<1>. DEFINE pc == IF r \in ReadOnly /\ Len(queue) >= 2 /\ healthy
                  THEN "primary" ELSE "loop"
            q == [o EXCEPT !.queue = queue, !.snapshot = usable, !.pc = pc]
<1>3. /\ queue \in Seq(Endpoints)
      /\ \A i, j \in 1..Len(queue) : i # j => queue[i] # queue[j]
  <2>1. Cardinality(usable) \in Nat
    BY EndpointsFinite DEF All
  <2>2. /\ queue \in [1..Cardinality(usable) -> usable]
        /\ \A i, j \in 1..Cardinality(usable) : i # j => queue[i] # queue[j]
    BY DEF SetToSeqs
  <2>3. queue \in [1..Cardinality(usable) -> Endpoints]
    BY <2>2
  <2>4. queue \in Seq(Endpoints) /\ Len(queue) = Cardinality(usable)
    BY <2>1, <2>3
  <2>. QED
    BY <2>2, <2>4
<1>4. /\ q.queue = queue /\ q.pc = pc /\ q.flying = o.flying /\ q.tried = o.tried
      /\ q.hedged = o.hedged /\ q.started = o.started /\ q.failures = o.failures
      /\ q \in RequestType
  BY <1>1, <1>3 DEF RequestType
<1>5. o.tried = {} /\ o.flying = {} /\ ~o.hedged
  BY <1>1 DEF Sound, Placed, Raced, InFlight, RequestType
<1>6. pc = "loop" \/ (pc = "primary" /\ r \in ReadOnly /\ Len(queue) >= 2)
  OBVIOUS
<1>. HIDE DEF q, pc
<1>7. Untried(q)
  BY <1>3, <1>4, <1>5 DEF Untried
<1>8. Counted(q)
  BY <1>1, <1>4, <1>6 DEF Counted, Sound
<1>9. Placed(q) /\ Raced(r, q)
  BY <1>4, <1>5, <1>6 DEF Placed, Raced, InFlight, Ended
<1>10. Becomes(r, q) /\ UNCHANGED <<busy, gate>>
  BY DEF Begin, q, pc
<1>. QED
  BY <1>1, <1>4, <1>7, <1>8, <1>9, <1>10, StaysBalanced, StepKeeps
     DEF Sound, gate, ForwardInv

(* Nothing is counted anew where only the place in the code changes.       *)
LEMMA SameCounts ==
  ASSUME NEW o, NEW q, Untried(o), Counted(o), o.pc \notin {"answered", "gone"},
         q.queue = o.queue, q.tried = o.tried, q.flying = o.flying,
         q.started = o.started, q.failures = o.failures
  PROVE  Untried(q) /\ Counted(q)
BY DEF Untried, Counted

(* The next candidate is passed and sent to.                               *)
LEMMA SentNext ==
  ASSUME NEW r \in Requests, NEW o, Sound(r, o), o.queue # <<>>,
         o.started < MaxAttempts, o.pc \notin Ended
  PROVE  LET e == Head(o.queue)
             s == Sent(Passed(o), e)
         IN  /\ s \in RequestType /\ Untried(s) /\ Counted(s)
             /\ e \in Endpoints /\ e \notin o.tried /\ e \notin o.flying
             /\ s.flying = o.flying \cup {e} /\ s.tried = o.tried \cup {e}
             /\ s.hedged = o.hedged /\ s.queue = Tail(o.queue) /\ s.pc = o.pc
             /\ Len(s.queue) = Len(o.queue) - 1
<1>. DEFINE e == Head(o.queue)
            p == Passed(o)
            s == Sent(p, e)
<1>1. o \in RequestType /\ Untried(o) /\ Counted(o)
  BY DEF Sound
<1>2. /\ p \in RequestType /\ Untried(p) /\ p.queue = Tail(o.queue)
      /\ e \in Endpoints /\ e \notin o.tried
      /\ \A i \in 1..Len(Tail(o.queue)) : Tail(o.queue)[i] # e
      /\ Len(Tail(o.queue)) = Len(o.queue) - 1
  BY <1>1, PassedUntried DEF RequestType
<1>3. /\ p.tried = o.tried /\ p.flying = o.flying /\ p.started = o.started
      /\ p.failures = o.failures /\ p.pc = o.pc /\ p.hedged = o.hedged
  BY <1>1 DEF Passed, RequestType
<1>. HIDE DEF p, e
<1>4. Counted(p) /\ p.pc \notin {"answered", "gone"}
  BY <1>1, <1>3 DEF Counted, Ended
<1>5. /\ s \in RequestType /\ Counted(s)
      /\ s.flying = p.flying \cup {e} /\ s.tried = p.tried \cup {e}
      /\ s.queue = p.queue /\ s.hedged = p.hedged /\ s.pc = p.pc
  <2>1. e \in All /\ e \notin p.tried /\ p.started < MaxAttempts
    BY <1>2, <1>3 DEF All
  <2>. QED
    BY <1>2, <1>4, <2>1, SentCounted
<1>. HIDE DEF s
<1>6. Untried(s)
  BY <1>2, <1>3, <1>5 DEF Untried
<1>7. e \notin o.flying
  BY <1>1, <1>2 DEF Counted
<1>. QED
  BY <1>2, <1>3, <1>5, <1>6, <1>7 DEF s, p, e

(* The next candidate is passed without an attempt.                        *)
LEMMA PassedNext ==
  ASSUME NEW r \in Requests, NEW o, Sound(r, o), o.queue # <<>>,
         o.pc \notin Ended,
         NEW s \in {Passed(o), Refused(Passed(o), Head(o.queue))}
  PROVE  /\ s \in RequestType /\ Untried(s) /\ Counted(s)
         /\ s.flying = o.flying /\ s.tried = o.tried
         /\ s.hedged = o.hedged /\ s.pc = o.pc
<1>1. o \in RequestType /\ Untried(o) /\ Counted(o)
  BY DEF Sound
<1>2. /\ Passed(o) \in RequestType /\ Untried(Passed(o))
      /\ Head(o.queue) \in Endpoints
  BY <1>1, PassedUntried
<1>3. /\ Passed(o).tried = o.tried /\ Passed(o).flying = o.flying
      /\ Passed(o).started = o.started /\ Passed(o).failures = o.failures
      /\ Passed(o).pc = o.pc /\ Passed(o).hedged = o.hedged
  BY <1>1 DEF Passed, RequestType
<1>. DEFINE p == Passed(o)
<1>. HIDE DEF p
<1>4. Counted(p) /\ p.pc \notin {"answered", "gone"}
  BY <1>1, <1>3 DEF Counted, Ended, p
<1>5. CASE s = Passed(o)
  BY <1>2, <1>3, <1>4, <1>5 DEF p
<1>6. CASE s = Refused(Passed(o), Head(o.queue))
  <2>1. p \in RequestType /\ s = [p EXCEPT !.refused = @ \cup {Head(o.queue)}]
    BY <1>2, <1>6 DEF p, Refused
  <2>2. /\ s \in RequestType /\ s.queue = p.queue /\ s.tried = p.tried
        /\ s.flying = p.flying /\ s.started = p.started
        /\ s.failures = p.failures /\ s.pc = p.pc /\ s.hedged = p.hedged
    <3>1. p.refused \cup {Head(o.queue)} \in SUBSET Endpoints
      BY <1>2, <2>1 DEF RequestType
    <3>. QED
      BY <2>1, <3>1 DEF RequestType
  <2>3. Untried(p)
    BY <1>2 DEF p
  <2>4. Untried(s) /\ Counted(s)
    BY <1>4, <2>2, <2>3, SameCounts
  <2>. QED
    BY <1>3, <2>2, <2>4 DEF p
<1>. QED
  BY <1>5, <1>6

-----------------------------------------------------------------------------
(* Hedging *)

LEMMA PrimaryKeeps ==
  ASSUME ForwardInv, NEW r \in Requests, Primary(r)
  PROVE  ForwardInv'
<1>. DEFINE o == request[r]
            e == Head(o.queue)
<1>1. /\ Sound(r, o) /\ o.pc = "primary" /\ o.queue # <<>> /\ o.started < MaxAttempts
      /\ o.tried = {} /\ o.flying = {} /\ ~o.hedged /\ r \in ReadOnly /\ Len(o.queue) >= 2
      /\ o.pc \notin Ended
  <2>1. Sound(r, o) /\ o.pc = "primary" /\ o \in RequestType
    BY DEF ForwardInv, Sound, Primary, Is
  <2>2. /\ o.tried = {} /\ o.flying = {} /\ ~o.hedged /\ r \in ReadOnly
        /\ Len(o.queue) >= 2
    BY <2>1 DEF Sound, Placed, Raced, InFlight, RequestType
  <2>3. o.started = 0
    <3>1. o.tried \ {Paid} = {}
      BY <2>2
    <3>. QED
      BY <2>1, <3>1, FS_EmptySet DEF Sound, Counted
  <2>4. o.queue # <<>>
    BY <2>2
  <2>. QED
    BY <2>1, <2>2, <2>3, <2>4, ForwardAssumption DEF Ended
<1>2. CASE /\ Free(e) /\ Take(e)
           /\ Becomes(r, [Sent(Passed(o), e) EXCEPT !.pc = "racing"])
           /\ Gate!SendPrimary
  <2>. DEFINE s == Sent(Passed(o), e)
              q == [s EXCEPT !.pc = "racing"]
  <2>1. /\ s \in RequestType /\ Untried(s) /\ Counted(s)
        /\ e \in Endpoints /\ e \notin o.flying
        /\ s.flying = o.flying \cup {e} /\ s.tried = o.tried \cup {e}
        /\ s.hedged = o.hedged /\ s.queue = Tail(o.queue) /\ s.pc = o.pc
        /\ Len(s.queue) = Len(o.queue) - 1
    BY <1>1, SentNext
  <2>. HIDE DEF s
  <2>2. /\ q \in RequestType /\ q.pc = "racing" /\ q.queue = s.queue
        /\ q.tried = s.tried /\ q.flying = s.flying /\ q.started = s.started
        /\ q.failures = s.failures /\ q.hedged = s.hedged
    BY <2>1 DEF RequestType, InFlight
  <2>3. Becomes(r, q) /\ Free(e) /\ Take(e)
    BY <1>2 DEF s
  <2>. HIDE DEF q
  <2>4. Untried(q) /\ Counted(q)
    BY <1>1, <2>1, <2>2, SameCounts
  <2>5. q.queue # <<>>
    <3>1. o.queue \in Seq(Endpoints) /\ s.queue \in Seq(Endpoints)
      BY <1>1, <2>1 DEF Sound, RequestType
    <3>2. Len(s.queue) >= 1
      BY <1>1, <2>1, <3>1
    <3>3. s.queue # <<>>
      BY <3>2
    <3>. QED
      BY <2>2, <3>3
  <2>6. Paid \notin q.tried
    BY <1>1, <2>1, <2>2, ForwardAssumption
  <2>7. Sound(r, q)
    BY <1>1, <2>1, <2>2, <2>4, <2>5, <2>6 DEF Sound, Placed, Raced, InFlight
  <2>8. primaries' \in Nat /\ hedges' = hedges
    BY <1>2 DEF Gate!SendPrimary, ForwardInv
  <2>9. e \in All /\ e \notin request[r].flying /\ q.flying = request[r].flying \cup {e}
    BY <2>1, <2>2 DEF All
  <2>10. LeasesBalance' /\ busy' \in [All -> 0..Slots]
    BY <2>2, <2>3, <2>9, TakesBalanced
  <2>. QED
    BY <2>1, <2>2, <2>3, <2>7, <2>8, <2>10, StepKeeps
<1>3. CASE /\ Becomes(r, [Refused(Passed(o), e) EXCEPT !.pc = "loop"])
           /\ UNCHANGED <<busy, gate>>
  <2>. DEFINE s == Refused(Passed(o), e)
              q == [s EXCEPT !.pc = "loop"]
  <2>1. /\ s \in RequestType /\ Untried(s) /\ Counted(s)
        /\ s.flying = o.flying /\ s.tried = o.tried
        /\ s.hedged = o.hedged /\ s.pc = o.pc
    BY <1>1, PassedNext
  <2>. HIDE DEF s
  <2>2. /\ q \in RequestType /\ q.pc = "loop" /\ q.queue = s.queue
        /\ q.tried = s.tried /\ q.flying = s.flying /\ q.started = s.started
        /\ q.failures = s.failures /\ q.hedged = s.hedged
    BY <2>1 DEF RequestType
  <2>3. Becomes(r, q)
    BY <1>3 DEF s
  <2>. HIDE DEF q
  <2>4. Untried(q) /\ Counted(q)
    BY <1>1, <2>1, <2>2, SameCounts
  <2>5. Sound(r, q)
    BY <1>1, <2>1, <2>2, <2>4 DEF Sound, Placed, Raced, InFlight
  <2>6. UNCHANGED <<busy, primaries, hedges>>
    BY <1>3 DEF gate
  <2>7. LeasesBalance' /\ busy' \in [All -> 0..Slots]
    BY <2>1, <2>2, <2>3, <2>6, StaysBalanced
  <2>. QED
    BY <2>1, <2>2, <2>3, <2>5, <2>6, <2>7, StepKeeps DEF ForwardInv
<1>. QED
  BY <1>2, <1>3 DEF Primary

(* A step that changes neither permits nor counters.                       *)
LEMMA QuietKeeps ==
  ASSUME ForwardInv, NEW r \in Requests, NEW q, Sound(r, q), Becomes(r, q),
         q.flying = request[r].flying, q.hedged = request[r].hedged,
         UNCHANGED <<busy, gate>>
  PROVE  ForwardInv'
<1>1. q \in RequestType /\ UNCHANGED <<busy, primaries, hedges>>
  BY DEF Sound, gate
<1>2. LeasesBalance' /\ busy' \in [All -> 0..Slots]
  BY <1>1, StaysBalanced
<1>. QED
  BY <1>1, <1>2, StepKeeps DEF ForwardInv

(* What the race knows of its primary.                                     *)
LEMMA Racing ==
  ASSUME ForwardInv, NEW r \in Requests, Is(r, "racing")
  PROVE  /\ Sound(r, request[r]) /\ request[r].pc = "racing"
         /\ request[r].queue # <<>> /\ ~request[r].hedged /\ r \in ReadOnly
         /\ Paid \notin request[r].tried
         /\ \E d \in Endpoints : request[r].flying = {d}
         /\ request[r].pc \notin Ended
BY DEF ForwardInv, Sound, Placed, Raced, Is, Ended

LEMMA HedgeUnwantedKeeps ==
  ASSUME ForwardInv, NEW r \in Requests, HedgeUnwanted(r)
  PROVE  ForwardInv'
<1>. DEFINE o == request[r]
            q == [o EXCEPT !.pc = "single"]
<1>1. /\ Sound(r, o) /\ o.pc = "racing" /\ ~o.hedged /\ Paid \notin o.tried
      /\ \E d \in Endpoints : o.flying = {d}
  BY Racing DEF HedgeUnwanted
<1>2. /\ q \in RequestType /\ q.pc = "single" /\ q.queue = o.queue
      /\ q.tried = o.tried /\ q.flying = o.flying /\ q.started = o.started
      /\ q.failures = o.failures /\ q.hedged = o.hedged
  BY <1>1 DEF Sound, RequestType, InFlight
<1>3. Becomes(r, q) /\ UNCHANGED <<busy, gate>>
  BY DEF HedgeUnwanted
<1>. HIDE DEF q
<1>4. Untried(q) /\ Counted(q)
  BY <1>1, <1>2, SameCounts DEF Sound
<1>5. Sound(r, q)
  BY <1>1, <1>2, <1>4 DEF Sound, Placed, Raced, InFlight
<1>. QED
  BY <1>2, <1>3, <1>5, QuietKeeps

(* The second candidate is passed, the primary is still waited for.        *)
LEMMA HedgePassedKeeps ==
  ASSUME ForwardInv, NEW r \in Requests, MayHedge(r),
         NEW s \in {Passed(request[r]), Refused(Passed(request[r]), Head(request[r].queue))},
         Becomes(r, [s EXCEPT !.pc = "single"]), UNCHANGED <<busy, gate>>
  PROVE  ForwardInv'
<1>. DEFINE o == request[r]
            q == [s EXCEPT !.pc = "single"]
<1>1. /\ Sound(r, o) /\ o.pc = "racing" /\ ~o.hedged /\ Paid \notin o.tried
      /\ o.queue # <<>> /\ o.pc \notin Ended
      /\ \E d \in Endpoints : o.flying = {d}
  BY Racing DEF MayHedge
<1>2. /\ s \in RequestType /\ Untried(s) /\ Counted(s)
      /\ s.flying = o.flying /\ s.tried = o.tried
      /\ s.hedged = o.hedged /\ s.pc = o.pc
  BY <1>1, PassedNext
<1>3. /\ q \in RequestType /\ q.pc = "single" /\ q.queue = s.queue
      /\ q.tried = s.tried /\ q.flying = s.flying /\ q.started = s.started
      /\ q.failures = s.failures /\ q.hedged = s.hedged
  BY <1>2 DEF RequestType, InFlight
<1>. HIDE DEF q
<1>4. Untried(q) /\ Counted(q)
  BY <1>1, <1>2, <1>3, SameCounts
<1>5. Sound(r, q)
  BY <1>1, <1>2, <1>3, <1>4 DEF Sound, Placed, Raced, InFlight
<1>6. Becomes(r, q)
  BY DEF q
<1>. QED
  BY <1>2, <1>3, <1>5, <1>6, QuietKeeps

LEMMA HedgeSentKeeps ==
  ASSUME ForwardInv, NEW r \in Requests, HedgeSent(r)
  PROVE  ForwardInv'
<1>. DEFINE o == request[r]
            e == Head(o.queue)
            s == Sent(Passed(o), e)
            q == [s EXCEPT !.pc = "both", !.hedged = TRUE]
<1>1. /\ Sound(r, o) /\ o.pc = "racing" /\ ~o.hedged /\ Paid \notin o.tried
      /\ o.queue # <<>> /\ o.pc \notin Ended /\ r \in ReadOnly
      /\ \E d \in Endpoints : o.flying = {d}
  BY Racing DEF HedgeSent, MayHedge
<1>2. o.started < MaxAttempts
  BY DEF HedgeSent, MayHedge
<1>3. /\ s \in RequestType /\ Untried(s) /\ Counted(s)
      /\ e \in Endpoints /\ e \notin o.flying
      /\ s.flying = o.flying \cup {e} /\ s.tried = o.tried \cup {e}
      /\ s.hedged = o.hedged /\ s.pc = o.pc
  BY <1>1, <1>2, SentNext
<1>4. Becomes(r, q) /\ Free(e) /\ Take(e) /\ Gate!LetHedgeThrough
  BY DEF HedgeSent
<1>. HIDE DEF s
<1>5. /\ q \in RequestType /\ q.pc = "both" /\ q.queue = s.queue
      /\ q.tried = s.tried /\ q.flying = s.flying /\ q.started = s.started
      /\ q.failures = s.failures /\ q.hedged
  BY <1>3 DEF RequestType, InFlight
<1>. HIDE DEF q
<1>6. Untried(q) /\ Counted(q)
  BY <1>1, <1>3, <1>5, SameCounts
<1>7. Paid \notin q.tried
  BY <1>1, <1>3, <1>5, ForwardAssumption
<1>8. \E d, f \in Endpoints : d # f /\ q.flying = {d, f}
  <2>1. PICK d \in Endpoints : o.flying = {d}
    BY <1>1
  <2>2. d # e /\ q.flying = {d, e}
    BY <1>3, <1>5, <2>1
  <2>. QED
    BY <1>3, <2>2
<1>9. Sound(r, q)
  BY <1>1, <1>5, <1>6, <1>7, <1>8 DEF Sound, Placed, Raced, InFlight
<1>10. e \in All /\ e \notin request[r].flying /\ q.flying = request[r].flying \cup {e}
  BY <1>3, <1>5 DEF All
<1>11. LeasesBalance' /\ busy' \in [All -> 0..Slots]
  BY <1>4, <1>5, <1>10, TakesBalanced
<1>12. primaries' = primaries /\ hedges' = hedges + 1
  BY <1>4 DEF Gate!LetHedgeThrough
<1>. QED
  BY <1>1, <1>4, <1>5, <1>9, <1>11, <1>12, HedgeCounted

-----------------------------------------------------------------------------
(* Completions *)

(* An answer, and a client that leaves, drop every attempt under way.      *)
LEMMA DroppedKeeps ==
  ASSUME ForwardInv, NEW r \in Requests, NEW pc \in {"answered", "gone"},
         Release(request[r].flying),
         Becomes(r, [request[r] EXCEPT !.pc = pc, !.flying = {}]),
         UNCHANGED gate
  PROVE  ForwardInv'
<1>. DEFINE o == request[r]
            q == [o EXCEPT !.pc = pc, !.flying = {}]
<1>1. Sound(r, o) /\ o \in RequestType
  BY DEF ForwardInv, Sound
<1>2. /\ q \in RequestType /\ q.pc = pc /\ q.queue = o.queue
      /\ q.tried = o.tried /\ q.flying = {} /\ q.started = o.started
      /\ q.hedged = o.hedged
  BY <1>1 DEF RequestType, Ended
<1>3. Becomes(r, q)
  OBVIOUS
<1>. HIDE DEF q
<1>4. Untried(q) /\ Counted(q)
  BY <1>1, <1>2 DEF Sound, Untried, Counted
<1>5. Sound(r, q)
  BY <1>2, <1>4 DEF Sound, Placed, Raced, InFlight, Ended
<1>6. LeasesBalance' /\ busy' \in [All -> 0..Slots]
  <2>1. o.flying \in SUBSET o.flying /\ q.flying = o.flying \ o.flying
    BY <1>2
  <2>. QED
    BY <1>2, <1>3, <2>1, ReleasesBalanced
<1>. QED
  BY <1>2, <1>3, <1>5, <1>6, StepKeeps DEF gate, ForwardInv

(* A failure gives its own permit back and waits or goes on.               *)
LEMMA FailedKeeps ==
  ASSUME ForwardInv, NEW r \in Requests, NEW e \in request[r].flying,
         request[r].pc \in InFlight, Release({e}),
         NEW pc \in {"loop", "second", "gaveUp"},
         Becomes(r, [Landed(request[r], e) EXCEPT !.pc = pc]),
         pc = "loop" => request[r].flying = {e} /\ Paid \notin request[r].tried,
         pc = "gaveUp" => request[r].flying = {e},
         pc = "second" => /\ Paid \notin request[r].tried
                          /\ \E d \in Endpoints : request[r].flying \ {e} = {d},
         UNCHANGED gate
  PROVE  ForwardInv'
<1>. DEFINE o == request[r]
            s == Landed(o, e)
            q == [s EXCEPT !.pc = pc]
<1>1. Sound(r, o) /\ o \in RequestType /\ o.pc \notin {"answered", "gone"} /\ Counted(o)
  BY DEF ForwardInv, Sound, InFlight
<1>2. /\ s \in RequestType /\ Counted(s) /\ s.flying = o.flying \ {e}
      /\ s.tried = o.tried /\ s.queue = o.queue /\ s.hedged = o.hedged
      /\ s.pc = o.pc
  BY <1>1, LandedCounted
<1>. HIDE DEF s
<1>3. /\ q \in RequestType /\ q.pc = pc /\ q.queue = s.queue
      /\ q.tried = s.tried /\ q.flying = s.flying /\ q.started = s.started
      /\ q.failures = s.failures /\ q.hedged = s.hedged
  BY <1>2 DEF RequestType, InFlight, Ended
<1>4. Becomes(r, q)
  BY DEF s
<1>. HIDE DEF q
<1>5. Untried(s)
  BY <1>1, <1>2 DEF Sound, Untried
<1>6. Untried(q) /\ Counted(q)
  BY <1>1, <1>2, <1>3, <1>5, SameCounts
<1>7. Placed(q)
  <2>1. CASE pc = "second"
    BY <1>2, <1>3, <2>1 DEF Placed, InFlight
  <2>2. CASE pc # "second"
    <3>1. q.flying = {}
      BY <1>2, <1>3, <2>2
    <3>. QED
      BY <1>2, <1>3, <2>2, <3>1 DEF Placed, InFlight, Ended
  <2>. QED
    BY <2>1, <2>2
<1>8. Raced(r, q)
  BY <1>1, <1>2, <1>3 DEF Sound, Raced, InFlight
<1>9. LeasesBalance' /\ busy' \in [All -> 0..Slots]
  <2>1. {e} \in SUBSET o.flying /\ q.flying = o.flying \ {e}
    BY <1>2, <1>3
  <2>. QED
    BY <1>3, <1>4, <2>1, ReleasesBalanced
<1>. QED
  BY <1>2, <1>3, <1>4, <1>6, <1>7, <1>8, <1>9, StepKeeps DEF Sound, gate, ForwardInv

LEMMA CompletionsKeep ==
  ASSUME ForwardInv, NEW r \in Requests, NEW e \in All,
         Answered(r, e) \/ FirstFails(r, e) \/ OnlyFails(r, e)
  PROVE  ForwardInv'
<1>1. Sound(r, request[r]) /\ request[r].flying \subseteq request[r].tried
  BY DEF ForwardInv, Sound, Counted
<1>2. CASE Answered(r, e)
  BY <1>2, DroppedKeeps DEF Answered
<1>3. CASE FirstFails(r, e)
  <2>1. /\ request[r].pc = "both" /\ e \in request[r].flying /\ Release({e})
        /\ Becomes(r, [Landed(request[r], e) EXCEPT !.pc = "second"])
        /\ UNCHANGED gate
    BY <1>3 DEF FirstFails, Is
  <2>2. Paid \notin request[r].tried /\ request[r].pc \in InFlight
    BY <1>1, <2>1 DEF Sound, Placed, Ended, InFlight
  <2>3. PICK d, f \in Endpoints : d # f /\ request[r].flying = {d, f}
    BY <1>1, <2>1 DEF Sound, Placed
  <2>4. \E g \in Endpoints : request[r].flying \ {e} = {g}
    <3>1. CASE e = d
      BY <2>3, <3>1
    <3>2. CASE e = f
      BY <2>3, <3>2
    <3>. QED
      BY <2>1, <2>3, <3>1, <3>2
  <2>. QED
    BY <2>1, <2>2, <2>4, FailedKeeps
<1>4. CASE OnlyFails(r, e)
  <2>1. /\ request[r].pc \in {"racing", "single", "second", "attempt"}
        /\ e \in request[r].flying /\ Release({e})
        /\ Becomes(r, [Landed(request[r], e) EXCEPT !.pc = "loop"])
        /\ UNCHANGED gate
    BY <1>4 DEF OnlyFails
  <2>2. Paid \notin request[r].tried /\ request[r].pc \in InFlight
        /\ \E d \in Endpoints : request[r].flying = {d}
    BY <1>1, <2>1 DEF Sound, Placed, Ended, InFlight
  <2>3. request[r].flying = {e}
    BY <2>1, <2>2
  <2>. QED
    BY <2>1, <2>2, <2>3, FailedKeeps
<1>. QED
  BY <1>2, <1>3, <1>4

-----------------------------------------------------------------------------
(* Failover *)

LEMMA TryNextKeeps ==
  ASSUME ForwardInv, NEW r \in Requests, TryNext(r)
  PROVE  ForwardInv'
<1>. DEFINE o == request[r]
            e == Head(o.queue)
            s == Sent(Passed(o), e)
            q == [s EXCEPT !.pc = "attempt"]
<1>1. /\ Sound(r, o) /\ o.pc = "loop" /\ o.queue # <<>> /\ o.started < MaxAttempts
      /\ o.pc \notin Ended /\ o.flying = {} /\ Paid \notin o.tried
  <2>1. Sound(r, o) /\ o.pc = "loop" /\ o.queue # <<>> /\ o.started < MaxAttempts
    BY DEF ForwardInv, TryNext, CanTry, Is
  <2>. QED
    BY <2>1 DEF Sound, Placed, Ended, InFlight
<1>2. /\ s \in RequestType /\ Untried(s) /\ Counted(s)
      /\ e \in Endpoints /\ e \notin o.flying
      /\ s.flying = o.flying \cup {e} /\ s.tried = o.tried \cup {e}
      /\ s.hedged = o.hedged /\ s.pc = o.pc
  BY <1>1, SentNext
<1>3. Becomes(r, q) /\ Free(e) /\ Take(e) /\ Gate!SendPrimary
  BY DEF TryNext
<1>. HIDE DEF s
<1>4. /\ q \in RequestType /\ q.pc = "attempt" /\ q.queue = s.queue
      /\ q.tried = s.tried /\ q.flying = s.flying /\ q.started = s.started
      /\ q.failures = s.failures /\ q.hedged = s.hedged
  BY <1>2 DEF RequestType, InFlight
<1>. HIDE DEF q
<1>5. Untried(q) /\ Counted(q)
  BY <1>1, <1>2, <1>4, SameCounts
<1>6. Paid \notin q.tried /\ q.flying = {e}
  BY <1>1, <1>2, <1>4, ForwardAssumption
<1>7. Sound(r, q)
  BY <1>1, <1>2, <1>4, <1>5, <1>6 DEF Sound, Placed, Raced, InFlight
<1>8. e \in All /\ e \notin request[r].flying /\ q.flying = request[r].flying \cup {e}
  BY <1>2, <1>4 DEF All
<1>9. LeasesBalance' /\ busy' \in [All -> 0..Slots]
  BY <1>3, <1>4, <1>8, TakesBalanced
<1>10. primaries' \in Nat /\ hedges' = hedges
  BY <1>3 DEF Gate!SendPrimary, ForwardInv
<1>. QED
  BY <1>2, <1>3, <1>4, <1>7, <1>9, <1>10, StepKeeps

LEMMA NextRefusedKeeps ==
  ASSUME ForwardInv, NEW r \in Requests, NextRefused(r)
  PROVE  ForwardInv'
<1>. DEFINE o == request[r]
            q == Refused(Passed(o), Head(o.queue))
<1>1. /\ Sound(r, o) /\ o.pc = "loop" /\ o.queue # <<>>
      /\ o.pc \notin Ended /\ o.flying = {} /\ Paid \notin o.tried
  <2>1. Sound(r, o) /\ o.pc = "loop" /\ o.queue # <<>>
    BY DEF ForwardInv, NextRefused, CanTry, Is
  <2>. QED
    BY <2>1 DEF Sound, Placed, Ended, InFlight
<1>2. /\ q \in RequestType /\ Untried(q) /\ Counted(q)
      /\ q.flying = o.flying /\ q.tried = o.tried
      /\ q.hedged = o.hedged /\ q.pc = o.pc
  BY <1>1, PassedNext
<1>3. Becomes(r, q) /\ UNCHANGED <<busy, gate>>
  BY DEF NextRefused
<1>. HIDE DEF q
<1>4. Sound(r, q)
  BY <1>1, <1>2 DEF Sound, Placed, Raced, InFlight
<1>. QED
  BY <1>2, <1>3, <1>4, QuietKeeps

(* The loop is left for the fallback, the fallback for the error.          *)
LEMMA GivesUpKeeps ==
  ASSUME ForwardInv, NEW r \in Requests, PoolExhausted(r) \/ FallbackSkipped(r)
  PROVE  ForwardInv'
<1>. DEFINE o == request[r]
<1>1. PICK pc \in {"fallback", "gaveUp"} :
        /\ Becomes(r, [o EXCEPT !.pc = pc])
        /\ UNCHANGED <<busy, gate>>
  BY DEF PoolExhausted, FallbackSkipped
<1>. DEFINE q == [o EXCEPT !.pc = pc]
<1>2. /\ Sound(r, o) /\ o \in RequestType /\ o.pc \in {"loop", "fallback"}
      /\ o.flying = {} /\ Paid \notin o.tried
  <2>1. Sound(r, o) /\ o \in RequestType /\ o.pc \in {"loop", "fallback"}
    BY DEF ForwardInv, Sound, PoolExhausted, FallbackSkipped, Is
  <2>. QED
    BY <2>1 DEF Sound, Placed, Ended, InFlight
<1>3. /\ q \in RequestType /\ q.pc = pc /\ q.queue = o.queue
      /\ q.tried = o.tried /\ q.flying = o.flying /\ q.started = o.started
      /\ q.failures = o.failures /\ q.hedged = o.hedged
  BY <1>2 DEF RequestType, Ended
<1>4. Becomes(r, q)
  BY <1>1
<1>. HIDE DEF q
<1>5. Untried(q) /\ Counted(q)
  BY <1>2, <1>3, SameCounts DEF Sound
<1>6. Sound(r, q)
  BY <1>2, <1>3, <1>5 DEF Sound, Placed, Raced, InFlight
<1>. QED
  BY <1>1, <1>3, <1>4, <1>6, QuietKeeps

LEMMA FallbackSentKeeps ==
  ASSUME ForwardInv, NEW r \in Requests, FallbackSent(r)
  PROVE  ForwardInv'
<1>. DEFINE o == request[r]
            s == Sent(o, Paid)
            q == [s EXCEPT !.pc = "paid"]
<1>1. /\ Sound(r, o) /\ o \in RequestType /\ Counted(o) /\ Untried(o)
      /\ o.pc = "fallback" /\ o.flying = {} /\ Paid \notin o.tried
  <2>1. Sound(r, o) /\ o \in RequestType /\ o.pc = "fallback"
    BY DEF ForwardInv, Sound, FallbackSent, Is
  <2>. QED
    BY <2>1 DEF Sound, Placed, Ended, InFlight
<1>2. /\ s \in RequestType /\ Counted(s)
      /\ s.flying = o.flying \cup {Paid} /\ s.tried = o.tried \cup {Paid}
      /\ s.queue = o.queue /\ s.hedged = o.hedged /\ s.pc = o.pc
  BY <1>1, SentCounted DEF All
<1>3. Becomes(r, q) /\ Free(Paid) /\ Take(Paid) /\ UNCHANGED gate
  BY DEF FallbackSent
<1>. HIDE DEF s
<1>4. /\ q \in RequestType /\ q.pc = "paid" /\ q.queue = s.queue
      /\ q.tried = s.tried /\ q.flying = s.flying /\ q.started = s.started
      /\ q.failures = s.failures /\ q.hedged = s.hedged
  BY <1>2 DEF RequestType, InFlight
<1>. HIDE DEF q
<1>5. Untried(s)
  <2>1. o.queue \in Seq(Endpoints)
    BY <1>1 DEF RequestType
  <2>2. \A i \in 1..Len(o.queue) : o.queue[i] # Paid
    BY <2>1, ForwardAssumption
  <2>. QED
    BY <1>1, <1>2, <2>2 DEF Untried
<1>6. Untried(q) /\ Counted(q)
  BY <1>1, <1>2, <1>4, <1>5, SameCounts
<1>7. q.flying = {Paid}
  BY <1>1, <1>2, <1>4
<1>8. Sound(r, q)
  BY <1>1, <1>2, <1>4, <1>6, <1>7 DEF Sound, Placed, Raced, InFlight
<1>9. Paid \in All /\ Paid \notin request[r].flying
      /\ q.flying = request[r].flying \cup {Paid}
  BY <1>1, <1>2, <1>4 DEF All
<1>10. LeasesBalance' /\ busy' \in [All -> 0..Slots]
  BY <1>3, <1>4, <1>9, TakesBalanced
<1>. QED
  BY <1>2, <1>3, <1>4, <1>8, <1>10, StepKeeps DEF gate, ForwardInv

LEMMA FallbackFailsKeeps ==
  ASSUME ForwardInv, NEW r \in Requests, FallbackFails(r)
  PROVE  ForwardInv'
<1>1. /\ request[r].pc = "paid" /\ request[r].flying = {Paid}
      /\ request[r].pc \in InFlight
  BY DEF ForwardInv, Sound, Placed, FallbackFails, Is, InFlight
<1>. QED
  BY <1>1, FailedKeeps DEF FallbackFails

-----------------------------------------------------------------------------
LEMMA TimePassesKeeps ==
  ASSUME ForwardInv, NEW r \in Requests, TimePasses(r)
  PROVE  ForwardInv'
<1>. DEFINE o == request[r]
            time == IF o.time = "public" /\ HasFallback THEN "reserve" ELSE "over"
            q == [o EXCEPT !.time = time]
<1>1. Sound(r, o) /\ o \in RequestType /\ o.pc \notin Ended
  BY DEF ForwardInv, Sound, TimePasses
<1>2. Becomes(r, q) /\ UNCHANGED <<busy, gate>>
  BY DEF TimePasses
<1>3. time \in {"public", "reserve", "over"}
  OBVIOUS
<1>. HIDE DEF time
<1>4. /\ q \in RequestType /\ q.pc = o.pc /\ q.queue = o.queue
      /\ q.tried = o.tried /\ q.flying = o.flying /\ q.started = o.started
      /\ q.failures = o.failures /\ q.hedged = o.hedged
  BY <1>1, <1>3 DEF RequestType
<1>. HIDE DEF q
<1>5. Untried(q) /\ Counted(q)
  BY <1>1, <1>4, SameCounts DEF Sound, Ended
<1>6. Sound(r, q)
  BY <1>1, <1>4, <1>5 DEF Sound, Placed, Raced
<1>. QED
  BY <1>2, <1>4, <1>6, QuietKeeps

LEMMA NextForward == ForwardInv /\ [Next]_vars => ForwardInv'
<1>. SUFFICES ASSUME ForwardInv, [Next]_vars PROVE ForwardInv'
  OBVIOUS
<1>1. CASE UNCHANGED vars
  BY <1>1 DEF vars, ForwardInv, LeasesBalance, HedgesAreSent
<1>2. ASSUME NEW r \in Requests, RequestStep(r) PROVE ForwardInv'
  <2>1. CASE Begin(r)
    BY <2>1, BeginKeeps
  <2>2. CASE Primary(r)
    BY <2>2, PrimaryKeeps
  <2>3. CASE HedgeUnwanted(r)
    BY <2>3, HedgeUnwantedKeeps
  <2>4. CASE HedgeRefused(r) \/ HedgeDenied(r)
    BY <2>4, HedgePassedKeeps DEF HedgeRefused, HedgeDenied
  <2>5. CASE HedgeSent(r)
    BY <2>5, HedgeSentKeeps
  <2>6. CASE \E e \in Endpoints \cup {Paid} :
               Answered(r, e) \/ FirstFails(r, e) \/ OnlyFails(r, e)
    BY <2>6, CompletionsKeep DEF All
  <2>7. CASE TryNext(r)
    BY <2>7, TryNextKeeps
  <2>8. CASE NextRefused(r)
    BY <2>8, NextRefusedKeeps
  <2>9. CASE PoolExhausted(r) \/ FallbackSkipped(r)
    BY <2>9, GivesUpKeeps
  <2>10. CASE FallbackSent(r)
    BY <2>10, FallbackSentKeeps
  <2>11. CASE FallbackFails(r)
    BY <2>11, FallbackFailsKeeps
  <2>. QED
    BY <1>2, <2>1, <2>2, <2>3, <2>4, <2>5, <2>6, <2>7, <2>8, <2>9, <2>10, <2>11
       DEF RequestStep
<1>3. ASSUME NEW r \in Requests, TimePasses(r) PROVE ForwardInv'
  BY <1>3, TimePassesKeeps
<1>4. ASSUME NEW r \in Requests, ClientGone(r) PROVE ForwardInv'
  BY <1>4, DroppedKeeps DEF ClientGone
<1>. QED
  BY <1>1, <1>2, <1>3, <1>4 DEF Next

(* The inductive invariant of the forwarder.                               *)
LEMMA Invariant == Spec => []ForwardInv
BY InitForward, NextForward, PTL DEF Spec

-----------------------------------------------------------------------------
(* Every variable has its type, for any requests, endpoints, slots and     *)
(* attempts: no semaphore goes below zero or above its permits, and the    *)
(* attempts sent to the public pool stay within upstream.max_attempts.     *)
THEOREM ForwardTypes == Spec => []TypeOK
<1>1. ForwardInv => TypeOK
  BY DEF ForwardInv, TypeOK, RequestType, All
<1>. QED
  BY <1>1, Invariant, PTL

(* The permits taken from every endpoint's semaphore are those of the      *)
(* attempts under way on it, whichever way requests hedge, fail over, are  *)
(* answered or dropped.                                                    *)
THEOREM LeasesTheorem == Spec => []LeasesBalance
<1>1. ForwardInv => LeasesBalance
  BY DEF ForwardInv
<1>. QED
  BY <1>1, Invariant, PTL

(* What is counted of a request, without the record's other parts.         *)
LEMMA Counts ==
  ASSUME ForwardInv, NEW r \in Requests
  PROVE  LET q == request[r]
         IN  /\ q.flying \in SUBSET All /\ q.tried \in SUBSET All
             /\ IsFiniteSet(q.tried)
             /\ Cardinality(q.tried) \in Nat /\ Cardinality(q.flying) \in Nat
             /\ Cardinality(q.tried \ {Paid}) \in Nat
             /\ IsFiniteSet(q.tried \ {Paid})
             /\ q.failures \in Nat /\ q.started \in 0..MaxAttempts
             /\ Counted(q) /\ Placed(q) /\ Raced(r, q)
<1>1. request[r] \in RequestType /\ Sound(r, request[r])
  BY DEF ForwardInv
<1>2. /\ request[r].flying \in SUBSET All /\ request[r].tried \in SUBSET All
      /\ request[r].tried \ {Paid} \in SUBSET All
      /\ request[r].failures \in Nat /\ request[r].started \in 0..MaxAttempts
  BY <1>1 DEF RequestType
<1>. QED
  BY <1>1, <1>2, EndpointsFinite DEF Sound

(* An error is reported only when every attempt that was sent has failed.  *)
THEOREM ErrorTheorem == Spec => []ErrorMeansAllFailed
<1>1. ForwardInv => ErrorMeansAllFailed
  <2>. SUFFICES ASSUME ForwardInv, NEW r \in Requests, Is(r, "gaveUp")
                PROVE  request[r].failures = Cardinality(request[r].tried)
    BY DEF ErrorMeansAllFailed
  <2>1. request[r].pc = "gaveUp"
    BY DEF Is
  <2>2. request[r].flying = {} /\ request[r].failures \in Nat
    BY <2>1, Counts DEF Placed, InFlight
  <2>3. request[r].failures + Cardinality(request[r].flying) = Cardinality(request[r].tried)
    BY <2>1, Counts DEF Counted
  <2>. QED
    BY <2>2, <2>3, FS_EmptySet
<1>. QED
  BY <1>1, Invariant, PTL

(* The paid endpoint is asked last, when all that was sent to the public   *)
(* pool has failed and nothing else is under way.                          *)
THEOREM FallbackTheorem == Spec => []FallbackComesLast
<1>1. ForwardInv => FallbackComesLast
  <2>. SUFFICES ASSUME ForwardInv, NEW r \in Requests, Is(r, "paid")
                PROVE  /\ request[r].flying = {Paid}
                       /\ request[r].failures = request[r].started
    BY DEF FallbackComesLast
  <2>. DEFINE tried == request[r].tried
  <2>1. request[r].pc = "paid"
    BY DEF Is
  <2>2. request[r].flying = {Paid} /\ Cardinality({Paid}) = 1 /\ Paid \in tried
    BY <2>1, Counts, FS_Singleton DEF Placed, Counted
  <2>3. request[r].failures + 1 = Cardinality(tried)
    <3>1. request[r].failures + Cardinality(request[r].flying) = Cardinality(tried)
      BY <2>1, Counts DEF Counted
    <3>. QED
      BY <2>2, <3>1
  <2>4. Cardinality(tried) = Cardinality(tried \ {Paid}) + 1
    <3>1. IsFiniteSet(tried) /\ Cardinality(tried) \in Nat
          /\ Cardinality(tried \ {Paid}) \in Nat
      BY Counts
    <3>2. Cardinality(tried \ {Paid}) = Cardinality(tried) - 1
      BY <2>2, <3>1, FS_RemoveElement
    <3>. QED
      BY <3>1, <3>2
  <2>5. request[r].started = Cardinality(tried \ {Paid})
        /\ request[r].started \in Nat /\ request[r].failures \in Nat
    BY Counts, ForwardAssumption DEF Counted
  <2>. QED
    BY <2>2, <2>3, <2>4, <2>5
<1>. QED
  BY <1>1, Invariant, PTL

(* No request sends to the public pool more often than max_attempts, and   *)
(* two attempts are under way only for a read that was hedged.             *)
THEOREM AttemptsTheorem == Spec => []AttemptsBounded
<1>1. ForwardInv => AttemptsBounded
  <2>. SUFFICES ASSUME ForwardInv, NEW r \in Requests
                PROVE  /\ Cardinality(request[r].tried \ {Paid}) <= MaxAttempts
                       /\ Cardinality(request[r].flying) > 1 =>
                            r \in ReadOnly /\ request[r].hedged
    BY DEF AttemptsBounded
  <2>1. Cardinality(request[r].tried \ {Paid}) <= MaxAttempts
    BY Counts, ForwardAssumption DEF Counted
  <2>2. ASSUME Cardinality(request[r].flying) > 1 PROVE request[r].pc = "both"
    <3>1. request[r].flying # {}
      <4>1. ASSUME request[r].flying = {} PROVE FALSE
        <5>1. Cardinality(request[r].flying) = 0
          BY <4>1, FS_EmptySet
        <5>. QED
          BY <2>2, <5>1
      <4>. QED
        BY <4>1
    <3>2. \A e : request[r].flying # {e}
      <4>1. ASSUME NEW e, request[r].flying = {e} PROVE FALSE
        <5>1. Cardinality(request[r].flying) = 1
          BY <4>1, FS_Singleton
        <5>. QED
          BY <2>2, <5>1
      <4>. QED
        BY <4>1
    <3>3. Placed(request[r])
      BY Counts
    <3>4. request[r].pc \notin {"racing", "single", "second", "attempt", "paid"}
      BY <3>2, <3>3 DEF Placed
    <3>. QED
      BY <3>1, <3>3, <3>4 DEF Placed, InFlight
  <2>. QED
    BY <2>1, <2>2, Counts DEF Raced
<1>. QED
  BY <1>1, Invariant, PTL

(* Every hedge the gate let through was sent.                              *)
THEOREM HedgesTheorem == Spec => []HedgesAreSent
<1>1. ForwardInv => HedgesAreSent
  BY DEF ForwardInv
<1>. QED
  BY <1>1, Invariant, PTL

(* What a step of a request adds to its attempts it had not tried.         *)
LEMMA SendsOnce ==
  ASSUME ForwardInv, NEW r \in Requests, RequestStep(r) \/ TimePasses(r) \/ ClientGone(r)
  PROVE  \E q : /\ Becomes(r, q)
                /\ (q.flying \ request[r].flying) \cap request[r].tried = {}
<1>. DEFINE o == request[r]
            Fresh(q) == (q.flying \ o.flying) \cap o.tried = {}
<1>1. Sound(r, o) /\ o \in RequestType
  BY DEF ForwardInv, Sound
<1>2. ASSUME o.queue # <<>>, o.started < MaxAttempts, o.pc \notin Ended, NEW pc,
             NEW q \in {[Sent(Passed(o), Head(o.queue)) EXCEPT !.pc = pc],
                        [Sent(Passed(o), Head(o.queue)) EXCEPT !.pc = pc, !.hedged = TRUE]}
      PROVE  Fresh(q)
  <2>. DEFINE s == Sent(Passed(o), Head(o.queue))
  <2>1. /\ s \in RequestType /\ Head(o.queue) \notin o.tried
        /\ s.flying = o.flying \cup {Head(o.queue)}
    BY <1>1, <1>2, SentNext
  <2>. HIDE DEF s
  <2>2. q.flying = s.flying
    BY <1>2, <2>1 DEF RequestType, s
  <2>. QED
    BY <2>1, <2>2
<1>3. ASSUME o.queue # <<>>, o.pc \notin Ended,
             NEW p \in {Passed(o), Refused(Passed(o), Head(o.queue))}, NEW pc
      PROVE  Fresh(p) /\ Fresh([p EXCEPT !.pc = pc])
  <2>1. p \in RequestType /\ p.flying = o.flying
    BY <1>1, <1>3, PassedNext
  <2>2. [p EXCEPT !.pc = pc].flying = p.flying
    BY <2>1 DEF RequestType
  <2>. QED
    BY <2>1, <2>2
<1>4. ASSUME NEW pc PROVE Fresh([o EXCEPT !.pc = pc]) /\ Fresh([o EXCEPT !.pc = pc, !.flying = {}])
  BY <1>1 DEF RequestType
<1>5. ASSUME NEW e, NEW pc PROVE Fresh([Landed(o, e) EXCEPT !.pc = pc])
  BY <1>1 DEF RequestType, Landed
<1>6. CASE Begin(r)
  <2>1. PICK usable \in SUBSET Endpoints :
          \E queue \in SetToSeqs(usable), healthy \in BOOLEAN :
            Becomes(r, [o EXCEPT
              !.queue = queue, !.snapshot = usable,
              !.pc = IF r \in ReadOnly /\ Len(queue) >= 2 /\ healthy
                     THEN "primary" ELSE "loop"])
    BY <1>6 DEF Begin
  <2>. PICK queue \in SetToSeqs(usable), healthy \in BOOLEAN :
         Becomes(r, [o EXCEPT
           !.queue = queue, !.snapshot = usable,
           !.pc = IF r \in ReadOnly /\ Len(queue) >= 2 /\ healthy
                  THEN "primary" ELSE "loop"])
    BY <2>1
  <2>. DEFINE q == [o EXCEPT !.queue = queue, !.snapshot = usable,
                             !.pc = IF r \in ReadOnly /\ Len(queue) >= 2 /\ healthy
                                    THEN "primary" ELSE "loop"]
  <2>2. q.flying = o.flying
    BY <1>1 DEF RequestType
  <2>. QED
    BY <2>2
<1>7. CASE Primary(r)
  <2>1. o.pc = "primary" /\ o.queue # <<>> /\ o.started < MaxAttempts /\ o.pc \notin Ended
    <3>1. o.pc = "primary" /\ o.tried = {} /\ Len(o.queue) >= 2
      BY <1>1, <1>7 DEF Sound, Placed, Primary, Is
    <3>2. o.tried \ {Paid} = {}
      BY <3>1
    <3>3. o.started = 0
      BY <1>1, <3>2, FS_EmptySet DEF Sound, Counted
    <3>4. o.queue # <<>>
      BY <3>1
    <3>. QED
      BY <3>1, <3>3, <3>4, ForwardAssumption DEF Ended
  <2>. QED
    BY <1>2, <1>3, <1>7, <2>1 DEF Primary
<1>8. CASE HedgeUnwanted(r)
  BY <1>4, <1>8 DEF HedgeUnwanted
<1>9. CASE HedgeRefused(r) \/ HedgeDenied(r)
  BY <1>3, <1>9, Racing DEF HedgeRefused, HedgeDenied, MayHedge
<1>10. CASE HedgeSent(r)
  BY <1>2, <1>10, Racing DEF HedgeSent, MayHedge
<1>11. CASE \E e \in Endpoints \cup {Paid} :
              Answered(r, e) \/ FirstFails(r, e) \/ OnlyFails(r, e)
  BY <1>4, <1>5, <1>11 DEF Answered, FirstFails, OnlyFails
<1>12. CASE TryNext(r)
  BY <1>2, <1>12 DEF TryNext, CanTry, Is, Ended
<1>13. CASE NextRefused(r)
  BY <1>3, <1>13 DEF NextRefused, CanTry, Is, Ended
<1>14. CASE PoolExhausted(r) \/ FallbackSkipped(r)
  BY <1>4, <1>14 DEF PoolExhausted, FallbackSkipped
<1>15. CASE FallbackSent(r)
  <2>1. Paid \notin o.tried
    BY <1>1, <1>15 DEF Sound, Placed, FallbackSent, Is, Ended
  <2>2. [Sent(o, Paid) EXCEPT !.pc = "paid"].flying = o.flying \cup {Paid}
    BY <1>1 DEF Sent, RequestType
  <2>. QED
    BY <1>15, <2>1, <2>2 DEF FallbackSent
<1>16. CASE FallbackFails(r)
  BY <1>5, <1>16 DEF FallbackFails
<1>17. CASE TimePasses(r)
  <2>. DEFINE q == [o EXCEPT !.time = IF @ = "public" /\ HasFallback
                                     THEN "reserve" ELSE "over"]
  <2>1. q.flying = o.flying
    BY <1>1 DEF RequestType
  <2>2. Becomes(r, q)
    BY <1>17 DEF TimePasses
  <2>. QED
    BY <2>1, <2>2
<1>18. CASE ClientGone(r)
  BY <1>4, <1>18 DEF ClientGone
<1>. QED
  BY <1>6, <1>7, <1>8, <1>9, <1>10, <1>11, <1>12, <1>13, <1>14, <1>15, <1>16, <1>17, <1>18
     DEF RequestStep

(* No endpoint is sent the same request twice, by failover, hedge or       *)
(* fallback, so the paid endpoint is charged at most once for it.          *)
THEOREM TriedOnceTheorem == Spec => TriedOnce
<1>. DEFINE Once == \A r \in Requests :
              (request'[r].flying \ request[r].flying) \cap request[r].tried = {}
<1>1. ForwardInv /\ [Next]_vars => [Once]_vars
  <2>. SUFFICES ASSUME ForwardInv, Next PROVE Once
    OBVIOUS
  <2>1. PICK s \in Requests : RequestStep(s) \/ TimePasses(s) \/ ClientGone(s)
    BY DEF Next
  <2>2. PICK q : /\ Becomes(s, q)
                 /\ (q.flying \ request[s].flying) \cap request[s].tried = {}
    BY <2>1, SendsOnce
  <2>3. request'[s] = q /\ \A r \in Requests \ {s} : request'[r] = request[r]
    BY <2>2 DEF Becomes, ForwardInv
  <2>. QED
    BY <2>2, <2>3
<1>. QED
  BY <1>1, Invariant, PTL DEF Spec, TriedOnce

-----------------------------------------------------------------------------
(* Requests reach the gate only through its two operations: what HedgeGate *)
(* is shown to implement is all that the forwarder uses.                   *)
THEOREM UsesGate == Spec => Gate!Spec
<1>1. Init => Gate!Init
  BY DEF Init, Gate!Init
<1>2. [Next]_vars => [Gate!Next]_(Gate!budget)
  <2>. SUFFICES ASSUME [Next]_vars PROVE [Gate!Next]_(Gate!budget)
    OBVIOUS
  <2>1. ASSUME NEW r \in Requests, RequestStep(r)
        PROVE  Gate!SendPrimary \/ Gate!LetHedgeThrough \/ UNCHANGED gate
    BY <2>1 DEF RequestStep, Begin, Primary, HedgeUnwanted, HedgeRefused, HedgeDenied,
       HedgeSent, Answered, FirstFails, OnlyFails, TryNext, NextRefused, PoolExhausted,
       FallbackSent, FallbackSkipped, FallbackFails, gate
  <2>2. ASSUME NEW r \in Requests, TimePasses(r) \/ ClientGone(r)
        PROVE  UNCHANGED gate
    BY <2>2 DEF TimePasses, ClientGone, gate
  <2>3. CASE UNCHANGED vars
    BY <2>3 DEF vars, Gate!budget
  <2>. QED
    BY <2>1, <2>2, <2>3 DEF Next, Gate!Next, Gate!budget, gate
<1>. QED
  BY <1>1, <1>2, PTL DEF Spec, Gate!Spec

(* The requests that were sent twice at once stay within their share of    *)
(* the primaries, hedging.max_percent, at every moment.                    *)
HedgedShare ==
  Cardinality({r \in Requests : request[r].hedged}) * 100 <= primaries * MaxPercent

ShareInv == ForwardInv /\ Gate!Affordable(primaries, hedges)

THEOREM HedgedShareTheorem == Spec => []HedgedShare
<1>1. Init => ShareInv
  <2>. SUFFICES ASSUME Init PROVE Gate!Affordable(primaries, hedges)
    BY InitForward DEF ShareInv
  <2>1. MaxPercent \in Nat /\ primaries = 0 /\ hedges = 0
    BY ForwardAssumption DEF Init
  <2>. QED
    BY <2>1 DEF Gate!Affordable
<1>2. ShareInv /\ [Next]_vars /\ [Gate!Next]_(Gate!budget) => ShareInv'
  <2>. SUFFICES ASSUME ShareInv, [Next]_vars, [Gate!Next]_(Gate!budget)
                PROVE  Gate!Affordable(primaries, hedges)'
    BY NextForward DEF ShareInv
  <2>1. primaries \in Nat /\ hedges \in Nat /\ MaxPercent \in Nat
        /\ hedges * 100 <= primaries * MaxPercent
    BY ForwardAssumption DEF ShareInv, ForwardInv, Gate!Affordable
  <2>2. CASE Gate!SendPrimary
    <3>1. primaries' = primaries + 1 /\ hedges' = hedges
      BY <2>2 DEF Gate!SendPrimary
    <3>2. /\ (primaries + 1) * MaxPercent = primaries * MaxPercent + MaxPercent
          /\ primaries * MaxPercent \in Nat
      BY <2>1
    <3>. QED
      BY <2>1, <3>1, <3>2 DEF Gate!Affordable
  <2>3. CASE Gate!LetHedgeThrough
    BY <2>3 DEF Gate!LetHedgeThrough, Gate!Affordable
  <2>4. CASE UNCHANGED Gate!budget
    BY <2>1, <2>4 DEF Gate!budget, Gate!Affordable
  <2>. QED
    BY <2>2, <2>3, <2>4 DEF Gate!Next
<1>3. ShareInv => HedgedShare
  BY DEF ShareInv, ForwardInv, HedgesAreSent, HedgedShare, Gate!Affordable
<1>4. Spec => [][Gate!Next]_(Gate!budget)
  BY UsesGate, PTL DEF Gate!Spec
<1>. QED
  BY <1>1, <1>2, <1>3, <1>4, PTL DEF Spec

=============================================================================
