------------------------------ MODULE ServingProofs ------------------------------
(* The parts that serve requests, whatever the constants: the folding of   *)
(* equal requests, the hedge gate, and the ingress.                        *)
EXTENDS Parts, FiniteSetTheorems, SequenceTheorems, TLAPS

-----------------------------------------------------------------------------
(* The folding of equal requests (SingleFlight)                            *)

(* An instance has names of its own for what it takes from FiniteSets.     *)
LEMMA FlightCounts == \A S : Flight!Cardinality(S) = Cardinality(S)
BY DEF Cardinality, Flight!Cardinality

FlightPlaces ==
  {"idle", "missed", "alone", "keeping"} \cup Flight!Leading \cup Flight!Following
CallerType ==
  [pc : FlightPlaces, flight : Flight!Flights \cup {Flight!NoFlight}, ok : BOOLEAN]

CallerSound(q) ==
  /\ q \in CallerType
  /\ q.pc \in Flight!Leading \cup Flight!Following => q.flight # Flight!NoFlight

Leaders == {c \in Callers : caller[c].pc \in Flight!Leading}

FlightTypes ==
  /\ caller \in [Callers -> CallerType]
  /\ \A c \in Callers : CallerSound(caller[c])
  /\ entry \in BOOLEAN
  /\ flight \in Flight!Flights \cup {Flight!NoFlight}
  /\ result \in [Flight!Flights -> {"pending", "success", "failed"}]
  /\ clearing \in BOOLEAN
  /\ clears \in 0..MaxClears /\ (clearing => clears < MaxClears)

(* Each clear takes one flight out of the map before its leader does, and  *)
(* so does a leader that outlived a clear, but it leaves at the same time: *)
(* without a flight in the map there are no more leaders than clears.      *)
LeadersCounted ==
  Cardinality(Leaders) <= clears + (IF flight = Flight!NoFlight THEN 0 ELSE 1)

FlightInv == FlightTypes /\ Flight!FlightHasLeader /\ LeadersCounted

LEMMA LeadersFinite ==
  /\ IsFiniteSet(Leaders) /\ Cardinality(Leaders) \in Nat
  /\ IsFiniteSet(Leaders') /\ Cardinality(Leaders') \in Nat
<1>1. Leaders \subseteq Callers /\ Leaders' \subseteq Callers
  BY DEF Leaders
<1>. QED
  BY <1>1, FlightAssumption, FS_Subset, FS_CardinalityType

LEMMA FlightStarts == Flight!Init => FlightInv
<1>. SUFFICES ASSUME Flight!Init PROVE FlightInv
  OBVIOUS
<1>1. \A c \in Callers : caller[c] = Flight!Idle
  BY DEF Flight!Init
<1>2. CallerSound(Flight!Idle) /\ Flight!Idle.pc = "idle"
  BY DEF Flight!Idle, CallerSound, CallerType, FlightPlaces, Flight!Leading, Flight!Following
<1>3. caller \in [Callers -> CallerType]
  BY <1>2 DEF Flight!Init, CallerSound
<1>4. FlightTypes
  <2>1. \A c \in Callers : CallerSound(caller[c])
    BY <1>1, <1>2
  <2>2. clears \in 0..MaxClears
    BY FlightAssumption DEF Flight!Init
  <2>. QED
    BY <1>3, <2>1, <2>2 DEF FlightTypes, Flight!Init
<1>5. Leaders = {}
  BY <1>1, <1>2 DEF Leaders, Flight!Leading
<1>. QED
  BY <1>4, <1>5, FS_EmptySet DEF FlightInv, LeadersCounted, Flight!FlightHasLeader, Flight!Init

(* One caller goes on and leads a flight after the step if it did before.  *)
LEMMA CallerGoesOn ==
  ASSUME FlightInv, NEW c \in Callers, NEW q, CallerSound(q),
         caller' = [caller EXCEPT ![c] = q],
         q.pc \in Flight!Leading <=> caller[c].pc \in Flight!Leading,
         q.pc \in Flight!Leading => q.flight = caller[c].flight,
         entry' \in BOOLEAN, result' \in [Flight!Flights -> {"pending", "success", "failed"}],
         UNCHANGED <<flight, clearing, clears>>
  PROVE  FlightInv'
<1>1. caller'[c] = q /\ \A b \in Callers \ {c} : caller'[b] = caller[b]
  BY DEF FlightInv, FlightTypes
<1>2. FlightTypes'
  <2>1. caller' \in [Callers -> CallerType]
    BY DEF FlightInv, FlightTypes, CallerSound
  <2>2. \A b \in Callers : CallerSound(caller'[b])
    BY <1>1 DEF FlightInv, FlightTypes
  <2>. QED
    BY <2>1, <2>2 DEF FlightInv, FlightTypes, CallerSound, CallerType, FlightPlaces
<1>3. Leaders' = Leaders
  BY <1>1 DEF Leaders
<1>4. Flight!FlightHasLeader'
  BY <1>1 DEF FlightInv, Flight!FlightHasLeader, Flight!At
<1>. QED
  BY <1>2, <1>3, <1>4 DEF FlightInv, LeadersCounted

(* The first of the free flights: there are more flights than holders.     *)
LEMMA FreeFlightIsFree ==
  ASSUME FlightTypes, flight = Flight!NoFlight
  PROVE  Flight!FreeFlight \in Flight!Flights
<1>. DEFINE Carried == {caller[c].flight : c \in Callers}
            carries == [c \in Callers |-> caller[c].flight]
<1>1. IsFiniteSet(Carried) /\ Cardinality(Carried) <= Cardinality(Callers)
  <2>1. carries \in Surjection(Callers, Carried)
    BY DEF Surjection
  <2>. HIDE DEF Carried, carries
  <2>. QED
    BY <2>1, FlightAssumption, FS_Surjection
<1>2. Cardinality(Callers) \in Nat /\ Cardinality(Carried) \in Nat
  BY <1>1, FlightAssumption, FS_CardinalityType
<1>3. Flight!Flights = 1..(Cardinality(Callers) + 1)
  BY FlightCounts DEF Flight!Flights
<1>4. IsFiniteSet(Flight!Flights) /\ Cardinality(Flight!Flights) = Cardinality(Callers) + 1
  BY <1>2, <1>3, FS_Interval
<1>5. ~(Flight!Flights \subseteq Carried)
  <2>. HIDE DEF Carried
  <2>. SUFFICES ASSUME Flight!Flights \subseteq Carried PROVE FALSE
    OBVIOUS
  <2>1. Cardinality(Flight!Flights) <= Cardinality(Carried)
    BY <1>1, FS_Subset
  <2>. QED
    BY <1>1, <1>2, <1>4, <2>1
<1>6. PICK f \in Flight!Flights : f \notin Carried
  BY <1>5
<1>7. f # Flight!NoFlight
  BY <1>2, <1>3 DEF Flight!NoFlight
<1>8. f \notin Flight!Held
  BY <1>6, <1>7 DEF Flight!Held
<1>. QED
  BY <1>8 DEF Flight!FreeFlight

(* A caller that leads becomes one more, while the map has no flight.      *)
LEMMA LeadKeeps ==
  ASSUME FlightInv, NEW c \in Callers, Flight!Lead(c)
  PROVE  FlightInv'
<1>. DEFINE f == Flight!FreeFlight
            q == [pc |-> "leads", flight |-> f, ok |-> FALSE]
<1>1. /\ caller[c].pc = "missed" /\ flight = Flight!NoFlight
      /\ caller' = [caller EXCEPT ![c] = q]
      /\ flight' = f /\ result' = [result EXCEPT ![f] = "pending"]
      /\ UNCHANGED <<entry, clearing, clears>>
  BY DEF Flight!Lead, Flight!NewFlight, Flight!At, Flight!cleared
<1>2. f \in Flight!Flights /\ f # Flight!NoFlight
  <2>1. f \in Flight!Flights
    BY <1>1, FreeFlightIsFree DEF FlightInv
  <2>. QED
    BY <2>1 DEF Flight!Flights, Flight!NoFlight
<1>. HIDE DEF f
<1>3. CallerSound(q) /\ q.pc = "leads" /\ q.flight = f
  BY <1>2 DEF CallerSound, CallerType, FlightPlaces, Flight!Leading, Flight!Following
<1>. HIDE DEF q
<1>4. caller'[c] = q /\ \A b \in Callers \ {c} : caller'[b] = caller[b]
  BY <1>1 DEF FlightInv, FlightTypes
<1>5. FlightTypes'
  <2>1. caller' \in [Callers -> CallerType]
    BY <1>1, <1>3 DEF FlightInv, FlightTypes, CallerSound
  <2>2. \A b \in Callers : CallerSound(caller'[b])
    BY <1>3, <1>4 DEF FlightInv, FlightTypes
  <2>3. result' \in [Flight!Flights -> {"pending", "success", "failed"}]
    BY <1>1 DEF FlightInv, FlightTypes
  <2>. QED
    BY <1>1, <1>2, <2>1, <2>2, <2>3
       DEF FlightInv, FlightTypes, CallerSound, CallerType, FlightPlaces
<1>6. Flight!FlightHasLeader'
  BY <1>1, <1>3, <1>4 DEF Flight!FlightHasLeader, Flight!At, Flight!Leading
<1>7. Cardinality(Leaders') <= Cardinality(Leaders) + 1
  <2>1. Leaders' = Leaders \cup {c}
    BY <1>3, <1>4 DEF Leaders, Flight!Leading
  <2>2. Cardinality(Leaders') = IF c \in Leaders THEN Cardinality(Leaders)
                                                ELSE Cardinality(Leaders) + 1
    BY <2>1, LeadersFinite, FS_AddElement
  <2>. QED
    BY <2>2, LeadersFinite
<1>8. clears \in Nat
  BY FlightAssumption DEF FlightInv, FlightTypes
<1>. QED
  BY <1>1, <1>2, <1>5, <1>6, <1>7, <1>8, LeadersFinite DEF FlightInv, LeadersCounted

(* The leader leaves, and with it whatever flight the map has.             *)
LEMMA RemoveFlightKeeps ==
  ASSUME FlightInv, NEW c \in Callers, Flight!RemoveFlight(c)
  PROVE  FlightInv'
<1>1. /\ caller[c].pc = "notified" /\ flight' = Flight!NoFlight
      /\ caller' = [caller EXCEPT ![c] = Flight!Idle]
      /\ UNCHANGED <<entry, result, clearing, clears>>
  BY DEF Flight!RemoveFlight, Flight!Leaves, Flight!At, Flight!cleared
<1>2. CallerSound(Flight!Idle) /\ Flight!Idle.pc = "idle"
  BY DEF Flight!Idle, CallerSound, CallerType, FlightPlaces, Flight!Leading, Flight!Following
<1>3. caller'[c] = Flight!Idle /\ \A b \in Callers \ {c} : caller'[b] = caller[b]
  BY <1>1 DEF FlightInv, FlightTypes
<1>4. FlightTypes'
  <2>1. caller' \in [Callers -> CallerType]
    BY <1>1, <1>2 DEF FlightInv, FlightTypes, CallerSound
  <2>2. \A b \in Callers : CallerSound(caller'[b])
    BY <1>2, <1>3 DEF FlightInv, FlightTypes
  <2>. QED
    BY <1>1, <2>1, <2>2 DEF FlightInv, FlightTypes, CallerSound, CallerType, FlightPlaces
<1>5. Cardinality(Leaders') = Cardinality(Leaders) - 1
  <2>1. Leaders' = Leaders \ {c} /\ c \in Leaders
    BY <1>1, <1>2, <1>3 DEF Leaders, Flight!Leading
  <2>. QED
    BY <2>1, LeadersFinite, FS_RemoveElement
<1>6. clears \in Nat
  BY FlightAssumption DEF FlightInv, FlightTypes
<1>. QED
  BY <1>1, <1>4, <1>5, <1>6, LeadersFinite
     DEF FlightInv, LeadersCounted, Flight!FlightHasLeader

(* Followers that are woken go round their loop; leaders stay leaders.     *)
LEMMA NotifyKeeps ==
  ASSUME FlightInv, NEW c \in Callers, Flight!NotifyWaiters(c)
  PROVE  FlightInv'
<1>1. /\ caller[c].pc = "stored"
      /\ DOMAIN caller' = Callers
      /\ UNCHANGED <<entry, flight, result, clearing, clears>>
  BY DEF Flight!NotifyWaiters, Flight!At, Flight!cleared
<1>2. ASSUME NEW b \in Callers
      PROVE  /\ CallerSound(caller'[b])
             /\ caller'[b].pc \in Flight!Leading <=> caller[b].pc \in Flight!Leading
             /\ caller'[b].flight = caller[b].flight
  <2>1. CallerSound(caller[b]) /\ CallerSound(caller[c])
    BY DEF FlightInv, FlightTypes
  <2>2. CASE b = c
    <3>. DEFINE q == [caller[c] EXCEPT !.pc = "notified"]
    <3>1. caller'[b] = q
      BY <2>2 DEF Flight!NotifyWaiters
    <3>2. q \in CallerType /\ q.pc = "notified" /\ q.flight = caller[c].flight
      BY <2>1 DEF CallerSound, CallerType, FlightPlaces, Flight!Leading
    <3>. HIDE DEF q
    <3>. QED
      BY <1>1, <2>1, <2>2, <3>1, <3>2 DEF CallerSound, Flight!Leading
  <2>3. CASE b # c /\ caller[b].pc \in {"seen", "asleep"} /\ caller[b].flight = caller[c].flight
    <3>. DEFINE q == [caller[b] EXCEPT !.pc = "follows"]
    <3>1. caller'[b] = q
      BY <2>3 DEF Flight!NotifyWaiters, Flight!Woken, Flight!At
    <3>2. q \in CallerType /\ q.pc = "follows" /\ q.flight = caller[b].flight
      BY <2>1 DEF CallerSound, CallerType, FlightPlaces, Flight!Following
    <3>. HIDE DEF q
    <3>. QED
      BY <2>1, <2>3, <3>1, <3>2 DEF CallerSound, Flight!Leading, Flight!Following
  <2>4. CASE b # c /\ ~(caller[b].pc \in {"seen", "asleep"} /\ caller[b].flight = caller[c].flight)
    <3>1. caller'[b] = caller[b]
      BY <2>4 DEF Flight!NotifyWaiters, Flight!Woken, Flight!At
    <3>. QED
      BY <2>1, <3>1
  <2>. QED
    BY <2>2, <2>3, <2>4
<1>3. FlightTypes'
  <2>1. caller' = [b \in Callers |-> caller'[b]]
    BY DEF Flight!NotifyWaiters
  <2>2. \A b \in Callers : caller'[b] \in CallerType
    BY <1>2 DEF CallerSound
  <2>3. caller' \in [Callers -> CallerType]
    BY <2>1, <2>2
  <2>. QED
    BY <1>1, <1>2, <2>3 DEF FlightInv, FlightTypes, CallerSound, CallerType, FlightPlaces
<1>4. Leaders' = Leaders
  BY <1>2 DEF Leaders
<1>5. Flight!FlightHasLeader'
  BY <1>1, <1>2 DEF FlightInv, Flight!FlightHasLeader, Flight!At
<1>. QED
  BY <1>1, <1>3, <1>4, <1>5 DEF FlightInv, LeadersCounted

(* A caller that keeps its flight, and its part in it, as it goes on.      *)
LEMMA CallerMoves ==
  ASSUME FlightInv, NEW c \in Callers, NEW pc \in FlightPlaces, NEW ok \in BOOLEAN,
         \/ caller' = [caller EXCEPT ![c].pc = pc]
         \/ caller' = [caller EXCEPT ![c].pc = pc, ![c].ok = ok],
         pc \in Flight!Leading <=> caller[c].pc \in Flight!Leading,
         pc \in Flight!Following => caller[c].pc \in Flight!Following,
         entry' \in BOOLEAN, result' \in [Flight!Flights -> {"pending", "success", "failed"}],
         UNCHANGED <<flight, clearing, clears>>
  PROVE  FlightInv'
<1>. DEFINE old == caller[c]
            moved == [old EXCEPT !.pc = pc]
            answered == [old EXCEPT !.pc = pc, !.ok = ok]
<1>1. CallerSound(old) /\ old \in CallerType
  BY DEF FlightInv, FlightTypes, CallerSound
<1>2. ASSUME NEW q \in CallerType, q.pc = pc, q.flight = old.flight,
             caller' = [caller EXCEPT ![c] = q]
      PROVE  FlightInv'
  <2>1. CallerSound(q)
    BY <1>1, <1>2 DEF CallerSound
  <2>. QED
    BY <1>2, <2>1, CallerGoesOn DEF old
<1>3. CASE caller' = [caller EXCEPT ![c].pc = pc]
  <2>1. caller' = [caller EXCEPT ![c] = moved]
    BY <1>3
  <2>. HIDE DEF old
  <2>2. moved \in CallerType /\ moved.pc = pc /\ moved.flight = old.flight
    BY <1>1 DEF CallerType
  <2>. QED
    BY <1>2, <2>1, <2>2
<1>4. CASE caller' = [caller EXCEPT ![c].pc = pc, ![c].ok = ok]
  <2>1. caller' = [caller EXCEPT ![c] = answered]
    BY <1>4 DEF FlightInv, FlightTypes
  <2>. HIDE DEF old
  <2>2. answered \in CallerType /\ answered.pc = pc /\ answered.flight = old.flight
    BY <1>1 DEF CallerType
  <2>. QED
    BY <1>2, <2>1, <2>2
<1>. QED
  BY <1>3, <1>4

(* Who leads and who follows.                                              *)
LEMMA Parting ==
  /\ \A pc \in {"inserting", "completes", "stored"} :
       pc \in FlightPlaces /\ pc \in Flight!Leading /\ pc \notin Flight!Following
  /\ \A pc \in {"armed", "seen", "asleep"} :
       pc \in FlightPlaces /\ pc \notin Flight!Leading /\ pc \in Flight!Following
  /\ \A pc \in {"missed", "keeping"} :
       pc \in FlightPlaces /\ pc \notin Flight!Leading /\ pc \notin Flight!Following
  /\ {"leads"} \subseteq Flight!Leading
  /\ {"follows"} \subseteq Flight!Following
  /\ {"idle", "alone", "follows"} \cap Flight!Leading = {}
BY DEF FlightPlaces, Flight!Leading, Flight!Following

(* A caller without a flight, or with one it follows, leaves it.           *)
LEMMA CallerLeaves ==
  ASSUME FlightInv, NEW c \in Callers,
         \/ caller' = [caller EXCEPT ![c] = Flight!Idle]
         \/ caller' = [caller EXCEPT ![c] = [Flight!Idle EXCEPT !.pc = "alone"]],
         caller[c].pc \notin Flight!Leading, entry' \in BOOLEAN,
         UNCHANGED <<flight, result, clearing, clears>>
  PROVE  FlightInv'
<1>. DEFINE q == [Flight!Idle EXCEPT !.pc = "alone"]
<1>1. CallerSound(q) /\ q.pc = "alone"
  BY DEF Flight!Idle, CallerSound, CallerType, FlightPlaces, Flight!Leading, Flight!Following
<1>2. CallerSound(Flight!Idle) /\ Flight!Idle.pc = "idle"
  BY DEF Flight!Idle, CallerSound, CallerType, FlightPlaces, Flight!Leading, Flight!Following
<1>3. result' \in [Flight!Flights -> {"pending", "success", "failed"}]
  BY DEF FlightInv, FlightTypes
<1>4. CASE caller' = [caller EXCEPT ![c] = Flight!Idle]
  BY <1>2, <1>3, <1>4, CallerGoesOn, Parting
<1>5. CASE caller' = [caller EXCEPT ![c] = q]
  <2>. HIDE DEF q
  <2>. QED
    BY <1>1, <1>3, <1>5, CallerGoesOn, Parting
<1>. QED
  BY <1>4, <1>5

LEMMA LookupKeeps ==
  ASSUME FlightInv, NEW c \in Callers, Flight!LookupStep(c)
  PROVE  FlightInv'
<1>. USE DEF Flight!At, Flight!cleared
<1>1. entry \in BOOLEAN /\ result \in [Flight!Flights -> {"pending", "success", "failed"}]
  BY DEF FlightInv, FlightTypes
<1>2. CASE Flight!Hit(c)
  BY <1>2 DEF Flight!Hit, Flight!vars, FlightInv, FlightTypes, LeadersCounted, Leaders,
              Flight!FlightHasLeader
<1>3. CASE Flight!Miss(c)
  BY <1>1, <1>3, CallerMoves, Parting DEF Flight!Miss, Flight!Goes
<1>4. CASE Flight!Lead(c)
  BY <1>4, LeadKeeps
<1>5. CASE Flight!Follow(c)
  <2>. DEFINE q == [caller[c] EXCEPT !.pc = "follows", !.flight = flight]
  <2>1. CallerSound(caller[c]) /\ caller[c].pc = "missed"
        /\ flight \in Flight!Flights \cup {Flight!NoFlight} /\ flight # Flight!NoFlight
    BY <1>5 DEF FlightInv, FlightTypes, Flight!Follow
  <2>2. CallerSound(q) /\ q.pc = "follows"
    BY <2>1 DEF CallerSound, CallerType, FlightPlaces, Flight!Following
  <2>3. caller' = [caller EXCEPT ![c] = q] /\ UNCHANGED <<entry, flight, result, clearing, clears>>
    BY <1>5 DEF Flight!Follow
  <2>. HIDE DEF q
  <2>. QED
    BY <1>1, <2>1, <2>2, <2>3, CallerGoesOn, Parting
<1>. QED
  BY <1>2, <1>3, <1>4, <1>5 DEF Flight!LookupStep

LEMMA LeaderKeeps ==
  ASSUME FlightInv, NEW c \in Callers, Flight!LeaderStep(c)
  PROVE  FlightInv'
<1>. USE DEF Flight!At, Flight!cleared
<1>1. entry \in BOOLEAN /\ result \in [Flight!Flights -> {"pending", "success", "failed"}]
  BY DEF FlightInv, FlightTypes
<1>2. CASE Flight!LeaderAnswered(c)
  BY <1>1, <1>2, CallerMoves, Parting DEF Flight!LeaderAnswered
<1>3. CASE Flight!LeaderInserts(c)
  BY <1>1, <1>3, CallerMoves, Parting DEF Flight!LeaderInserts, Flight!Goes
<1>4. CASE Flight!LeaderFails(c)
  BY <1>1, <1>4, CallerMoves, Parting DEF Flight!LeaderFails
<1>5. CASE Flight!StoreResult(c)
  <2>1. result' \in [Flight!Flights -> {"pending", "success", "failed"}]
    BY <1>1, <1>5 DEF Flight!StoreResult
  <2>. QED
    BY <1>1, <1>5, <2>1, CallerMoves, Parting DEF Flight!StoreResult, Flight!Goes
<1>6. CASE Flight!NotifyWaiters(c)
  BY <1>6, NotifyKeeps
<1>7. CASE Flight!RemoveFlight(c)
  BY <1>7, RemoveFlightKeeps
<1>. QED
  BY <1>2, <1>3, <1>4, <1>5, <1>6, <1>7 DEF Flight!LeaderStep

LEMMA FollowerKeeps ==
  ASSUME FlightInv, NEW c \in Callers, Flight!FollowerStep(c) \/ Flight!FollowerGone(c)
  PROVE  FlightInv'
<1>. USE DEF Flight!At, Flight!cleared
<1>1. entry \in BOOLEAN /\ result \in [Flight!Flights -> {"pending", "success", "failed"}]
  BY DEF FlightInv, FlightTypes
<1>2. CASE Flight!Arm(c)
  BY <1>1, <1>2, CallerMoves, Parting DEF Flight!Arm, Flight!Goes
<1>3. CASE Flight!LookFinds(c)
  BY <1>1, <1>3, CallerLeaves, Parting DEF Flight!LookFinds, Flight!Leaves
<1>4. CASE Flight!LookFindsNone(c)
  BY <1>1, <1>4, CallerMoves, Parting DEF Flight!LookFindsNone, Flight!Goes
<1>5. CASE Flight!Sleep(c)
  BY <1>1, <1>5, CallerMoves, Parting DEF Flight!Sleep, Flight!Goes
<1>6. CASE Flight!AloneAnswered(c)
  <2>1. CASE caller' = [caller EXCEPT ![c].pc = "keeping", ![c].ok = TRUE]
    BY <1>1, <1>6, <2>1, CallerMoves, Parting DEF Flight!AloneAnswered
  <2>2. CASE Flight!Leaves(c)
    BY <1>1, <1>6, <2>2, CallerLeaves, Parting DEF Flight!AloneAnswered, Flight!Leaves
  <2>. QED
    BY <1>6, <2>1, <2>2 DEF Flight!AloneAnswered
<1>7. CASE Flight!AloneInserts(c)
  BY <1>1, <1>7, CallerLeaves, Parting DEF Flight!AloneInserts, Flight!Leaves
<1>8. CASE Flight!FollowerGone(c)
  BY <1>1, <1>8, CallerLeaves, Parting DEF Flight!FollowerGone, Flight!Leaves
<1>. QED
  BY <1>2, <1>3, <1>4, <1>5, <1>6, <1>7, <1>8 DEF Flight!FollowerStep

(* Steps of the cache and the administrator; a clear lets the misses of a  *)
(* key have one more leader.                                               *)
LEMMA CacheKeeps ==
  ASSUME FlightInv, Flight!Evict \/ Flight!ClearEntries \/ Flight!ClearFlights
  PROVE  FlightInv'
<1>1. UNCHANGED <<caller, result>> /\ entry' \in BOOLEAN /\ clearing' \in BOOLEAN
  BY DEF Flight!Evict, Flight!ClearEntries, Flight!ClearFlights, Flight!cleared,
         FlightInv, FlightTypes
<1>2. Leaders' = Leaders
  BY <1>1 DEF Leaders
<1>3. FlightTypes' <=> FlightTypes /\ flight' \in Flight!Flights \cup {Flight!NoFlight}
                         /\ clears' \in 0..MaxClears /\ (clearing' => clears' < MaxClears)
  BY <1>1 DEF FlightInv, FlightTypes, CallerSound, CallerType, FlightPlaces
<1>4. CASE Flight!Evict \/ Flight!ClearEntries
  <2>1. UNCHANGED <<flight, clears>> /\ (clearing' => clears < MaxClears)
    BY <1>4 DEF Flight!Evict, Flight!ClearEntries, Flight!cleared, FlightInv, FlightTypes
  <2>2. FlightTypes'
    BY <1>3, <2>1 DEF FlightInv, FlightTypes
  <2>. QED
    BY <1>1, <1>2, <2>1, <2>2 DEF FlightInv, LeadersCounted, Flight!FlightHasLeader, Flight!At
<1>5. CASE Flight!ClearFlights
  <2>1. /\ flight' = Flight!NoFlight /\ clears' = clears + 1 /\ ~clearing'
        /\ clears < MaxClears /\ clears \in Nat /\ MaxClears \in Nat
    BY <1>5, FlightAssumption DEF Flight!ClearFlights, FlightInv, FlightTypes
  <2>2. FlightTypes'
    BY <1>3, <2>1 DEF FlightInv
  <2>3. Cardinality(Leaders) <= clears + 1
    BY <2>1, LeadersFinite DEF FlightInv, LeadersCounted
  <2>. QED
    BY <1>2, <2>1, <2>2, <2>3 DEF FlightInv, LeadersCounted, Flight!FlightHasLeader
<1>. QED
  BY <1>4, <1>5

LEMMA FlightInvKept == FlightInv /\ [Flight!Next]_(Flight!vars) => FlightInv'
<1>. SUFFICES ASSUME FlightInv, [Flight!Next]_(Flight!vars) PROVE FlightInv'
  OBVIOUS
<1>1. CASE UNCHANGED Flight!vars
  <2>1. UNCHANGED <<caller, entry, flight, result, clearing, clears>>
    BY <1>1 DEF Flight!vars
  <2>2. Leaders' = Leaders
    BY <2>1 DEF Leaders
  <2>. QED
    BY <2>1, <2>2 DEF FlightInv, FlightTypes, CallerSound, CallerType, FlightPlaces,
       LeadersCounted, Flight!FlightHasLeader, Flight!At
<1>2. ASSUME NEW c \in Callers,
             \/ Flight!LookupStep(c) \/ Flight!LeaderStep(c)
             \/ Flight!FollowerStep(c) \/ Flight!FollowerGone(c)
      PROVE  FlightInv'
  BY <1>2, LookupKeeps, LeaderKeeps, FollowerKeeps
<1>. QED
  BY <1>1, <1>2, CacheKeeps DEF Flight!Next

THEOREM FlightInvariant == Flight!Spec => []FlightInv
BY FlightStarts, FlightInvKept, PTL DEF Flight!Spec

(* SingleFlight::acquire and LeaderFlight::complete: with n clears behind  *)
(* it, the cache has at most n + 1 leaders for a key, for any callers.     *)
THEOREM OneLeaderPerClear == Flight!Spec => []LeadersBounded
<1>1. FlightInv => LeadersBounded
  <2>. SUFFICES ASSUME FlightInv PROVE LeadersBounded
    OBVIOUS
  <2>1. clears \in Nat /\ Cardinality(Leaders) <= clears + 1
    BY LeadersFinite, FlightAssumption DEF FlightInv, FlightTypes, LeadersCounted
  <2>2. Flight!Cardinality({c \in Callers : Flight!At(c, Flight!Leading)}) = Cardinality(Leaders)
    <3>1. {c \in Callers : Flight!At(c, Flight!Leading)} = Leaders
      BY DEF Flight!At, Leaders
    <3>. QED
      BY <3>1, FlightCounts
  <2>. QED
    BY <2>1, <2>2 DEF LeadersBounded, Flight!LeadersBounded
<1>. QED
  BY <1>1, FlightInvariant, PTL

(* SingleFlight::remove: no flight is left in the map without a leader who *)
(* will take it out, so nobody follows one that nobody completes.          *)
THEOREM MapFlightHasLeader == Flight!Spec => []Flight!FlightHasLeader
<1>1. FlightInv => Flight!FlightHasLeader
  BY DEF FlightInv
<1>. QED
  BY <1>1, FlightInvariant, PTL

-----------------------------------------------------------------------------
(* The hedge gate (HedgeGate), for any number of requests and any           *)
(* percentage.                                                             *)

AttemptType == [pc : Place, primaries : Nat, hedges : Nat]

(* The counter the requests race on counts the grants, and no request      *)
(* holds more primaries than were sent: the stale count errs on the side   *)
(* of refusing. Without the first part a grant by a lost update would not  *)
(* show in the counter; without the second a stale check would not carry   *)
(* over to the moment of the exchange.                                     *)
GateInv ==
  /\ TypeOK
  /\ hedges = granted
  /\ \A r \in Requests : attempt[r].primaries <= primaries
  /\ HedgeShare

(* A check passed with an older count of primaries passes with a later one.*)
LEMMA AllowedGrows ==
  ASSUME NEW p \in Nat, NEW q \in Nat, NEW h \in Nat, p <= q, Allowed(p, h)
  PROVE  (h + 1) * 100 <= q * MaxPercent
<1>1. MaxPercent \in Nat
  BY GateAssumption
<1>2. p * MaxPercent <= q * MaxPercent /\ p * MaxPercent \in Nat
      /\ q * MaxPercent \in Nat
  <2>1. PICK d \in Nat : q = p + d
    <3>1. q - p \in Nat /\ q = p + (q - p)
      OBVIOUS
    <3>. QED
      BY <3>1
  <2>2. q * MaxPercent = p * MaxPercent + d * MaxPercent
    BY <1>1, <2>1
  <2>3. p * MaxPercent \in Nat /\ d * MaxPercent \in Nat
    BY <1>1
  <2>. QED
    BY <2>2, <2>3
<1>3. (h + 1) * 100 <= p * MaxPercent
  BY DEF Allowed
<1>. QED
  BY <1>2, <1>3

LEMMA InitGate == Init => GateInv
<1>. SUFFICES ASSUME Init PROVE GateInv
  OBVIOUS
<1>1. primaries = 0 /\ hedges = 0 /\ granted = 0
  BY DEF Init
<1>2. /\ attempt \in [Requests -> AttemptType]
      /\ \A r \in Requests : attempt[r].primaries <= 0
  BY DEF Init, Outside, AttemptType, Place
<1>3. HedgeShare
  BY <1>1, GateAssumption DEF HedgeShare
<1>. QED
  BY <1>1, <1>2, <1>3, GateAssumption DEF GateInv, TypeOK, AttemptType

(* What a request stores of itself is never ahead of the counters.         *)
LEMMA AttemptKept ==
  ASSUME GateInv, NEW r \in Requests, NEW record \in AttemptType,
         record.primaries <= primaries,
         attempt' = [attempt EXCEPT ![r] = record]
  PROVE  /\ attempt' \in [Requests -> AttemptType]
         /\ \A q \in Requests : attempt'[q].primaries <= primaries
BY DEF GateInv, TypeOK, AttemptType

LEMMA NextGate == GateInv /\ [Next]_vars => GateInv'
<1>. SUFFICES ASSUME GateInv, [Next]_vars PROVE GateInv'
  OBVIOUS
<1>1. /\ primaries \in Nat /\ primaries \in 0..MaxPrimaries
      /\ hedges \in Nat /\ granted = hedges
      /\ attempt \in [Requests -> AttemptType]
      /\ \A r \in Requests : attempt[r].primaries <= primaries
      /\ \A r \in Requests : attempt[r] \in AttemptType
      /\ \A r \in Requests : attempt[r].primaries \in Nat
                             /\ attempt[r].hedges \in Nat
      /\ granted * 100 <= primaries * MaxPercent
  BY DEF GateInv, TypeOK, AttemptType, HedgeShare
<1>2. CASE RecordPrimary
  <2>1. primaries' = primaries + 1 /\ primaries' \in 0..MaxPrimaries
        /\ UNCHANGED <<hedges, attempt, granted>>
    BY <1>1, <1>2, GateAssumption DEF RecordPrimary
  <2>2. primaries' * MaxPercent = primaries * MaxPercent + MaxPercent
        /\ primaries * MaxPercent \in Nat /\ MaxPercent \in Nat
    BY <1>1, <2>1, GateAssumption
  <2>3. granted' * 100 <= primaries' * MaxPercent
    BY <1>1, <2>1, <2>2
  <2>4. \A r \in Requests : attempt'[r].primaries <= primaries'
    BY <1>1, <2>1
  <2>. QED
    BY <1>1, <2>1, <2>3, <2>4 DEF GateInv, TypeOK, AttemptType, HedgeShare
<1>3. ASSUME NEW r \in Requests,
             NEW record \in AttemptType, record.primaries <= primaries,
             attempt' = [attempt EXCEPT ![r] = record],
             UNCHANGED <<primaries, hedges, granted>>
      PROVE  GateInv'
  <2>1. /\ attempt' \in [Requests -> AttemptType]
        /\ \A q \in Requests : attempt'[q].primaries <= primaries
    BY <1>3, AttemptKept
  <2>. QED
    BY <1>1, <1>3, <2>1 DEF GateInv, TypeOK, AttemptType, HedgeShare
<1>4. Outside \in AttemptType /\ Outside.primaries <= primaries
  BY <1>1 DEF Outside, AttemptType, Place
<1>5. ASSUME NEW r \in Requests, LoadPrimaries(r) PROVE GateInv'
  <2>. DEFINE record == [pc |-> "loaded", primaries |-> primaries, hedges |-> 0]
  <2>1. record \in AttemptType /\ record.primaries <= primaries
    BY <1>1 DEF AttemptType, Place
  <2>2. /\ attempt' = [attempt EXCEPT ![r] = record]
        /\ UNCHANGED <<primaries, hedges, granted>>
    BY <1>5 DEF LoadPrimaries
  <2>. HIDE DEF record
  <2>. QED
    BY <1>3, <2>1, <2>2
<1>6. ASSUME NEW r \in Requests, LoadHedges(r) \/ ExchangeFails(r)
      PROVE  GateInv'
  <2>. DEFINE record == [pc |-> "loop", primaries |-> attempt[r].primaries,
                        hedges |-> hedges]
  <2>1. record \in AttemptType /\ record.primaries <= primaries
    BY <1>1 DEF AttemptType, Place
  <2>2. /\ attempt' = [attempt EXCEPT ![r] = record]
        /\ UNCHANGED <<primaries, hedges, granted>>
    BY <1>6 DEF LoadHedges, ExchangeFails
  <2>. HIDE DEF record
  <2>. QED
    BY <1>3, <2>1, <2>2
<1>7. ASSUME NEW r \in Requests, Refuse(r) PROVE GateInv'
  <2>1. /\ attempt' = [attempt EXCEPT ![r] = Outside]
        /\ UNCHANGED <<primaries, hedges, granted>>
    BY <1>7 DEF Refuse
  <2>. QED
    BY <1>3, <1>4, <2>1
<1>8. ASSUME NEW r \in Requests, Grant(r) PROVE GateInv'
  <2>1. /\ Allowed(attempt[r].primaries, attempt[r].hedges)
        /\ hedges = attempt[r].hedges
        /\ hedges' = hedges + 1 /\ granted' = granted + 1
        /\ attempt' = [attempt EXCEPT ![r] = Outside]
        /\ primaries' = primaries
    BY <1>8 DEF Grant
  <2>2. (hedges + 1) * 100 <= primaries * MaxPercent
    BY <1>1, <2>1, AllowedGrows
  <2>3. /\ attempt' \in [Requests -> AttemptType]
        /\ \A q \in Requests : attempt'[q].primaries <= primaries
    BY <1>4, <2>1, AttemptKept
  <2>4. granted' * 100 <= primaries' * MaxPercent /\ granted' = hedges'
        /\ granted' \in Nat
    BY <1>1, <2>1, <2>2
  <2>. QED
    BY <1>1, <2>1, <2>3, <2>4 DEF GateInv, TypeOK, AttemptType, HedgeShare
<1>9. CASE UNCHANGED vars
  BY <1>1, <1>9 DEF vars, GateInv, TypeOK, AttemptType, HedgeShare
<1>. QED
  BY <1>2, <1>5, <1>6, <1>7, <1>8, <1>9 DEF Next

LEMMA GateInvariant == Spec => []GateInv
BY InitGate, NextGate, PTL DEF Spec

(* However many requests race through the gate, the hedges it let through  *)
(* never exceed the configured share of the primary requests.              *)
THEOREM ShareKept == Spec => []HedgeShare
<1>1. GateInv => HedgeShare
  BY DEF GateInv
<1>. QED
  BY <1>1, GateInvariant, PTL

(* The racing counters implement the budget that one step would keep.      *)
THEOREM GateKeepsBudget == Spec => GateImplementsBudget
<1>1. Init => Budget!Init
  BY DEF Init, Budget!Init
<1>2. GateInv /\ [Next]_vars => [Budget!Next]_(Budget!budget)
  <2>. SUFFICES ASSUME GateInv, [Next]_vars
                PROVE  [Budget!Next]_(Budget!budget)
    OBVIOUS
  <2>1. CASE RecordPrimary
    BY <2>1 DEF RecordPrimary, Budget!Next, Budget!SendPrimary
  <2>2. ASSUME NEW r \in Requests, Grant(r) PROVE Budget!LetHedgeThrough
    <3>1. /\ attempt[r].primaries \in Nat /\ attempt[r].hedges \in Nat
          /\ primaries \in Nat /\ attempt[r].primaries <= primaries
          /\ granted = hedges
      BY DEF GateInv, TypeOK
    <3>2. /\ Allowed(attempt[r].primaries, attempt[r].hedges)
          /\ hedges = attempt[r].hedges
          /\ granted' = granted + 1 /\ primaries' = primaries
      BY <2>2 DEF Grant
    <3>3. (granted + 1) * 100 <= primaries * MaxPercent
      BY <3>1, <3>2, AllowedGrows
    <3>. QED
      BY <3>2, <3>3 DEF Budget!LetHedgeThrough, Budget!Affordable
  <2>3. ASSUME NEW r \in Requests,
               \/ LoadPrimaries(r) \/ LoadHedges(r)
               \/ Refuse(r) \/ ExchangeFails(r)
        PROVE  UNCHANGED Budget!budget
    BY <2>3 DEF LoadPrimaries, LoadHedges, Refuse, ExchangeFails, Budget!budget
  <2>4. CASE UNCHANGED vars
    BY <2>4 DEF vars, Budget!budget
  <2>. QED
    BY <2>1, <2>2, <2>3, <2>4 DEF Next, Budget!Next
<1>. QED
  BY <1>1, <1>2, GateInvariant, PTL
     DEF Spec, GateImplementsBudget, Budget!Spec


-----------------------------------------------------------------------------
(* The ingress (Ingress), for any requests, any number of permits and any  *)
(* batches.                                                                *)

LEMMA HttpCounts == \A S : Http!Cardinality(S) = Cardinality(S)
BY DEF Cardinality, Http!Cardinality

States == {"away", "body", "handler", "batch", "done", "answered", "gone"}
WithPermit == {"handler", "batch", "done"}

(* Every request has a place, whatever else is known of it.                *)
Placed(q) == "at" \in DOMAIN q
Shaped ==
  /\ DOMAIN request = Https
  /\ \A r \in Https : Placed(request[r]) /\ request[r].at \in States

PermitInv == Shaped /\ permits \in Nat /\ NothingLeaks

-----------------------------------------------------------------------------
(* One request goes to another place, the others stay where they are.      *)
Goes(r, q) ==
  /\ request' = [request EXCEPT ![r] = q]
  /\ Placed(q) /\ q.at \in States

LEMMA GoesShaped ==
  ASSUME Shaped, NEW r \in Https, NEW q, Goes(r, q)
  PROVE  /\ Shaped'
         /\ request'[r] = q
         /\ \A s \in Https \ {r} : request'[s] = request[s]
BY DEF Shaped, Goes

LEMMA GoesInside ==
  ASSUME Shaped, NEW r \in Https, NEW q, Goes(r, q)
  PROVE  Http!Inside' = IF q.at \in WithPermit THEN Http!Inside \cup {r} ELSE Http!Inside \ {r}
BY GoesShaped DEF Http!Inside, WithPermit

(* Who stays inside or outside leaves permits and gauge as they are.       *)
LEMMA StaysKeeps ==
  ASSUME PermitInv, NEW r \in Https, NEW q, Goes(r, q),
         q.at \in WithPermit <=> r \in Http!Inside,
         UNCHANGED <<permits, inFlight>>
  PROVE  PermitInv'
<1>1. Shaped' /\ Http!Inside' = Http!Inside
  BY GoesShaped, GoesInside DEF PermitInv
<1>. QED
  BY <1>1, HttpCounts, IngressAssumption
     DEF PermitInv, NothingLeaks, Http!NothingLeaks

LEMMA EntersKeeps ==
  ASSUME PermitInv, NEW r \in Https, NEW q, Goes(r, q),
         q.at \in WithPermit, r \notin Http!Inside,
         permits > 0, permits' = permits - 1, inFlight' = inFlight + 1
  PROVE  PermitInv'
<1>1. Shaped' /\ Http!Inside' = Http!Inside \cup {r}
  BY GoesShaped, GoesInside DEF PermitInv
<1>2. IsFiniteSet(Http!Inside) /\ Cardinality(Http!Inside) \in Nat
  BY IngressAssumption, FS_Subset, FS_CardinalityType DEF Http!Inside
<1>3. Cardinality(Http!Inside') = Cardinality(Http!Inside) + 1
  BY <1>1, <1>2, FS_AddElement
<1>. QED
  BY <1>1, <1>2, <1>3, HttpCounts, IngressAssumption
     DEF PermitInv, NothingLeaks, Http!NothingLeaks

LEMMA LeavesKeeps ==
  ASSUME PermitInv, NEW r \in Https, NEW q, Goes(r, q),
         q.at \notin WithPermit, r \in Http!Inside,
         permits' = permits + 1, inFlight' = inFlight - 1
  PROVE  PermitInv'
<1>1. Shaped' /\ Http!Inside' = Http!Inside \ {r}
  BY GoesShaped, GoesInside DEF PermitInv
<1>2. IsFiniteSet(Http!Inside) /\ Cardinality(Http!Inside) \in Nat
  BY IngressAssumption, FS_Subset, FS_CardinalityType DEF Http!Inside
<1>3. Cardinality(Http!Inside') = Cardinality(Http!Inside) - 1
  BY <1>1, <1>2, FS_RemoveElement
<1>. QED
  BY <1>1, <1>2, <1>3, HttpCounts, IngressAssumption
     DEF PermitInv, NothingLeaks, Http!NothingLeaks
-----------------------------------------------------------------------------
LEMMA PermitsStart == Http!Init => PermitInv
<1>. SUFFICES ASSUME Http!Init PROVE PermitInv
  OBVIOUS
<1>1. \A r \in Https : request[r] = Http!Away
  BY DEF Http!Init
<1>2. Placed(Http!Away) /\ Http!Away.at = "away"
  BY DEF Placed, Http!Away
<1>3. Shaped
  BY <1>1, <1>2 DEF Shaped, Http!Init, States
<1>4. Http!Inside = {}
  BY <1>1, <1>2 DEF Http!Inside
<1>. QED
  BY <1>3, <1>4, FS_EmptySet, HttpCounts, IngressAssumption DEF PermitInv, NothingLeaks, Http!NothingLeaks, Http!Init

(* Steps that keep the place of a request, or answer it.                   *)
LEMMA AnswersGoes ==
  ASSUME Shaped, NEW r \in Https, NEW at \in States, NEW answer, Http!Answers(r, at, answer)
  PROVE  Goes(r, [request[r] EXCEPT !.at = at, !.answer = answer])
<1>. DEFINE q == [request[r] EXCEPT !.at = at, !.answer = answer]
<1>1. Placed(q) /\ q.at \in States
  BY DEF Shaped, Placed
<1>2. request' = [request EXCEPT ![r] = q]
  BY DEF Http!Answers, Shaped
<1>. QED
  BY <1>1, <1>2 DEF Goes

LEMMA AnswersKeeps ==
  ASSUME PermitInv, NEW r \in Https, NEW at \in States, NEW answer, Http!Answers(r, at, answer),
         at \in WithPermit <=> request[r].at \in WithPermit, UNCHANGED <<permits, inFlight>>
  PROVE  PermitInv'
<1>. DEFINE q == [request[r] EXCEPT !.at = at, !.answer = answer]
<1>1. Goes(r, q)
  BY AnswersGoes DEF PermitInv
<1>2. q.at = at
  BY DEF PermitInv, Shaped, Placed
<1>3. q.at \in WithPermit <=> r \in Http!Inside
  BY <1>2 DEF Http!Inside, WithPermit
<1>. HIDE DEF q
<1>. QED
  BY <1>1, <1>3, StaysKeeps

LEMMA ArriveKeeps ==
  ASSUME PermitInv, NEW r \in Https, Http!Arrive(r)
  PROVE  PermitInv'
<1>1. PICK body \in Http!Bodies, allowed \in BOOLEAN :
        request' = [request EXCEPT ![r] =
          IF allowed THEN [Http!Away EXCEPT !.at = "body", !.body = body]
          ELSE [Http!Away EXCEPT !.at = "answered", !.answer = Http!Whole("rate_limited")]]
  BY DEF Http!Arrive
<1>. DEFINE q == IF allowed THEN [Http!Away EXCEPT !.at = "body", !.body = body]
                 ELSE [Http!Away EXCEPT !.at = "answered", !.answer = Http!Whole("rate_limited")]
<1>2. Goes(r, q) /\ q.at \notin WithPermit
  BY <1>1 DEF Goes, Placed, Http!Away, States, WithPermit
<1>3. r \notin Http!Inside
  BY DEF Http!Inside, Http!Arrive
<1>. HIDE DEF q
<1>. QED
  BY <1>2, <1>3, StaysKeeps DEF Http!Arrive

LEMMA ReadKeeps ==
  ASSUME PermitInv, NEW r \in Https, Http!Read(r)
  PROVE  PermitInv'
<1>1. CASE Http!TooLarge(r) \/ Http!Overload(r)
  BY <1>1, AnswersKeeps DEF Http!TooLarge, Http!Overload, States, WithPermit
<1>2. CASE Http!Admit(r)
  <2>. DEFINE q == [request[r] EXCEPT !.at = "handler"]
  <2>1. Goes(r, q) /\ q.at = "handler"
    BY <1>2 DEF Http!Admit, PermitInv, Shaped, Goes, Placed, States
  <2>2. r \notin Http!Inside /\ permits > 0 /\ permits' = permits - 1 /\ inFlight' = inFlight + 1
    BY <1>2 DEF Http!Admit, Http!Inside
  <2>. HIDE DEF q
  <2>. QED
    BY <2>1, <2>2, EntersKeeps DEF WithPermit
<1>. QED
  BY <1>1, <1>2 DEF Http!Read

LEMMA BatchStays ==
  ASSUME PermitInv, NEW r \in Https, NEW results,
         request[r].at \in {"handler", "batch"},
         request' = [request EXCEPT ![r].at = "batch", ![r].results = results],
         UNCHANGED <<permits, inFlight>>
  PROVE  PermitInv'
<1>. DEFINE q == [request[r] EXCEPT !.at = "batch", !.results = results]
<1>1. Placed(q) /\ q.at = "batch"
  BY DEF PermitInv, Shaped, Placed
<1>2. request' = [request EXCEPT ![r] = q]
  BY DEF PermitInv, Shaped
<1>3. Goes(r, q) /\ q.at = "batch"
  BY <1>1, <1>2 DEF Goes, Placed, States
<1>4. r \in Http!Inside
  BY DEF Http!Inside
<1>. HIDE DEF q
<1>. QED
  BY <1>3, <1>4, StaysKeeps DEF WithPermit

LEMMA ItemKeeps ==
  ASSUME PermitInv, NEW r \in Https, NEW i, Http!ItemLands(r, i) \/ Http!ItemPanics(r, i)
  PROVE  PermitInv'
<1>1. request[r].at = "batch" /\ UNCHANGED <<permits, inFlight>>
  BY DEF Http!ItemLands, Http!ItemPanics
<1>2. \E results : request' = [request EXCEPT ![r].results = results]
  <2>1. CASE Http!ItemLands(r, i)
    <3>. DEFINE results == [request[r].results EXCEPT ![i] = [id |-> i, says |-> "forwarded"]]
    <3>1. request' = [request EXCEPT ![r].results = results]
      BY <2>1 DEF Http!ItemLands
    <3>. QED
      BY <3>1
  <2>2. CASE Http!ItemPanics(r, i)
    <3>. DEFINE results == [request[r].results EXCEPT ![i].says = "lost"]
    <3>1. request' = [request EXCEPT ![r].results = results]
      BY <2>2 DEF Http!ItemPanics
    <3>. QED
      BY <3>1
  <2>. QED
    BY <2>1, <2>2
<1>3. PICK results : request' = [request EXCEPT ![r].results = results]
  BY <1>2
<1>. DEFINE q == [request[r] EXCEPT !.results = results]
<1>4. Goes(r, q) /\ q.at = "batch"
  BY <1>1, <1>3 DEF PermitInv, Shaped, Goes, Placed, States
<1>5. r \in Http!Inside
  BY <1>1 DEF Http!Inside
<1>. HIDE DEF q
<1>. QED
  BY <1>1, <1>4, <1>5, StaysKeeps DEF WithPermit

LEMMA HandleKeeps ==
  ASSUME PermitInv, NEW r \in Https, Http!Handle(r)
  PROVE  PermitInv'
<1>1. CASE Http!NotJson(r) \/ Http!InvalidRequest(r) \/ Http!Forward(r) \/ Http!JoinBatch(r)
  BY <1>1, AnswersKeeps DEF Http!NotJson, Http!InvalidRequest, Http!Forward, Http!JoinBatch, States, WithPermit
<1>2. ASSUME NEW reason \in Http!ChainRefusals, Http!ChainRefuses(r, reason)
      PROVE  PermitInv'
  BY <1>2, AnswersKeeps DEF Http!ChainRefuses, States, WithPermit
<1>3. CASE Http!SpawnBatch(r)
  BY <1>3, BatchStays DEF Http!SpawnBatch
<1>4. ASSUME NEW i \in Http!Running(r), Http!ItemLands(r, i) \/ Http!ItemPanics(r, i)
      PROVE  PermitInv'
  BY <1>4, ItemKeeps
<1>5. CASE Http!Return(r)
  <2>. DEFINE q == [request[r] EXCEPT !.at = "answered"]
  <2>1. Goes(r, q) /\ q.at = "answered"
    BY <1>5 DEF Http!Return, PermitInv, Shaped, Goes, Placed, States
  <2>2. r \in Http!Inside /\ permits' = permits + 1 /\ inFlight' = inFlight - 1
    BY <1>5 DEF Http!Return, Http!Inside
  <2>. HIDE DEF q
  <2>. QED
    BY <2>1, <2>2, LeavesKeeps DEF WithPermit
<1>. QED
  BY <1>1, <1>2, <1>3, <1>4, <1>5 DEF Http!Handle

(* A client may go at any point of the way.                                *)
LEMMA ClientGoneKeeps ==
  ASSUME PermitInv, NEW r \in Https, Http!ClientGone(r)
  PROVE  PermitInv'
<1>1. Goes(r, Http!Gone) /\ Http!Gone.at \notin WithPermit
  BY DEF Http!ClientGone, Http!Gone, Http!Away, Goes, Placed, States, WithPermit
<1>2. CASE r \in Http!Inside
  BY <1>1, <1>2, LeavesKeeps DEF Http!ClientGone
<1>3. CASE r \notin Http!Inside
  BY <1>1, <1>3, StaysKeeps DEF Http!ClientGone
<1>. QED
  BY <1>2, <1>3

LEMMA PermitsUntouched ==
  ASSUME PermitInv, UNCHANGED <<permits, inFlight, request>>
  PROVE  PermitInv'
<1>1. Shaped' /\ Http!Inside' = Http!Inside
  BY DEF PermitInv, Shaped, Http!Inside
<1>. QED
  BY <1>1, HttpCounts, IngressAssumption
     DEF PermitInv, NothingLeaks, Http!NothingLeaks

LEMMA PermitsKept ==
  ASSUME PermitInv, [Http!Next]_(Http!vars)
  PROVE  PermitInv'
<1>1. ASSUME NEW r \in Https, Http!Arrive(r) \/ Http!Handle(r) \/ Http!Read(r) \/ Http!ClientGone(r)
      PROVE  PermitInv'
  BY <1>1, ArriveKeeps, HandleKeeps, ReadKeeps, ClientGoneKeeps
<1>2. CASE Http!Signal \/ Http!Drained \/ Http!Deadline \/ UNCHANGED Http!vars
  BY <1>2, PermitsUntouched DEF Http!Signal, Http!Drained, Http!Deadline, Http!vars
<1>. QED
  BY <1>1, <1>2 DEF Http!Next

(* The permits taken and the gauge are those of the requests inside, for   *)
(* any number of requests and permits, wherever clients go away and tasks  *)
(* of a batch are lost (guard.rs InFlightGuard::drop).                     *)
THEOREM NothingLeaksTheorem == Http!Spec => []NothingLeaks
<1>1. PermitInv => NothingLeaks
  BY DEF PermitInv
<1>2. Http!Init => PermitInv
  BY PermitsStart
<1>3. PermitInv /\ [Http!Next]_(Http!vars) => PermitInv'
  BY PermitsKept
<1>. QED
  BY <1>1, <1>2, <1>3, PTL DEF Http!Spec

-----------------------------------------------------------------------------
(* The items of a batch                                                    *)

(* What a result or an answer says of an item, under which id.             *)
ItemSound(items, i, e) ==
  /\ DOMAIN e = {"id", "says"}
  /\ e.says \in {"running", "lost"} => items[i] = "call"
  /\ e.says \notin {"running", "lost"} => e.id = Http!Id(items, i)

InPlace(items, entries) ==
  /\ entries = [i \in DOMAIN items |-> entries[i]]
  /\ \A i \in DOMAIN items : ItemSound(items, i, entries[i])

(* Tasks may only run, or be lost, for items that are calls, and the one   *)
(* that ends writes its own place: what the answer is joined from.         *)
BatchSound(q) ==
  /\ DOMAIN q = {"at", "body", "results", "answer"}
  /\ q.body \in Http!Bodies
  /\ q.at = "batch" => q.body.kind = "batch" /\ InPlace(q.body.items, q.results)
  /\ q.at \in {"done", "answered"} /\ q.body.kind = "batch" /\ ~q.answer.whole =>
       /\ InPlace(q.body.items, q.answer.items)
       /\ \A i \in DOMAIN q.body.items : q.answer.items[i].says \notin {"running", "lost"}

BatchInv == DOMAIN request = Https /\ \A r \in Https : BatchSound(request[r])

LEMMA BatchItems ==
  ASSUME NEW body \in Http!Bodies, body.kind = "batch"
  PROVE  \E n \in Nat : body.items \in [1..n -> Http!Items]
<1>1. body.items \in Http!Batches
  BY DEF Http!Bodies
<1>2. CASE body.items = [i \in 1..(BatchLimit + 1) |-> "call"]
  <2>1. BatchLimit + 1 \in Nat /\ body.items \in [1..(BatchLimit + 1) -> Http!Items]
    BY <1>2, IngressAssumption DEF Http!Items
  <2>. QED
    BY <2>1
<1>3. CASE \E n \in 0..BatchLimit : body.items \in [1..n -> Http!Items]
  BY <1>3, IngressAssumption
<1>. QED
  BY <1>1, <1>2, <1>3 DEF Http!Batches

LEMMA OneMoves ==
  ASSUME BatchInv, NEW r \in Https, NEW q, BatchSound(q), request' = [request EXCEPT ![r] = q]
  PROVE  BatchInv'
<1>1. DOMAIN request' = Https /\ \A s \in Https : request'[s] = IF s = r THEN q ELSE request[s]
  BY DEF BatchInv
<1>. QED
  BY <1>1 DEF BatchInv, BatchSound, InPlace, ItemSound, Http!Id, Http!NoId, Http!Bodies, Http!Batches

(* A request that is answered: for each item, if for its items at all.     *)
LEMMA AnswerSound ==
  ASSUME BatchInv, NEW r \in Https, NEW at \in {"done", "answered"}, NEW answer,
         Http!Answers(r, at, answer),
         request[r].body.kind = "batch" /\ ~answer.whole =>
           /\ InPlace(request[r].body.items, answer.items)
           /\ \A i \in DOMAIN request[r].body.items : answer.items[i].says \notin {"running", "lost"}
  PROVE  BatchInv'
<1>. DEFINE old == request[r]
            q == [old EXCEPT !.at = at, !.answer = answer]
<1>1. BatchSound(old)
  BY DEF BatchInv
<1>2. DOMAIN q = DOMAIN old /\ q.at = at /\ q.answer = answer /\ q.body = old.body
  BY <1>1 DEF BatchSound
<1>3. BatchSound(q)
  <2>. HIDE DEF q
  <2>. QED
    BY <1>1, <1>2 DEF BatchSound
<1>4. request' = [request EXCEPT ![r] = q]
  BY DEF Http!Answers, BatchInv
<1>. HIDE DEF q
<1>. QED
  BY <1>3, <1>4, OneMoves

LEMMA WholeKeeps ==
  ASSUME BatchInv, NEW r \in Https, NEW at \in {"done", "answered"}, NEW says,
         Http!Answers(r, at, Http!Whole(says))
  PROVE  BatchInv'
<1>1. Http!Whole(says).whole
  BY DEF Http!Whole
<1>. HIDE DEF Http!Whole
<1>. QED
  BY <1>1, AnswerSound

LEMMA ArriveSound ==
  ASSUME BatchInv, NEW r \in Https, Http!Arrive(r)
  PROVE  BatchInv'
<1>1. PICK body \in Http!Bodies, allowed \in BOOLEAN :
        request' = [request EXCEPT ![r] =
          IF allowed THEN [Http!Away EXCEPT !.at = "body", !.body = body]
          ELSE [Http!Away EXCEPT !.at = "answered", !.answer = Http!Whole("rate_limited")]]
  BY DEF Http!Arrive
<1>. DEFINE q == IF allowed THEN [Http!Away EXCEPT !.at = "body", !.body = body]
                 ELSE [Http!Away EXCEPT !.at = "answered", !.answer = Http!Whole("rate_limited")]
<1>2. BatchSound(q)
  BY DEF BatchSound, Http!Away, Http!Bodies
<1>. HIDE DEF q
<1>. QED
  BY <1>1, <1>2, OneMoves DEF q

LEMMA GoneSound ==
  ASSUME BatchInv, NEW r \in Https, Http!ClientGone(r)
  PROVE  BatchInv'
<1>1. BatchSound(Http!Gone)
  BY DEF BatchSound, Http!Gone, Http!Away, Http!Bodies
<1>. QED
  BY <1>1, OneMoves DEF Http!ClientGone

(* A request goes on with what it has, or has its answer sent.             *)
LEMMA AtSound ==
  ASSUME BatchInv, NEW r \in Https, Http!Admit(r) \/ Http!Return(r)
  PROVE  BatchInv'
<1>. DEFINE old == request[r]
            at == IF Http!Admit(r) THEN "handler" ELSE "answered"
            q == [old EXCEPT !.at = at]
<1>1. BatchSound(old)
  BY DEF BatchInv
<1>2. DOMAIN q = DOMAIN old /\ q.at = at /\ q.answer = old.answer /\ q.body = old.body
  BY <1>1 DEF BatchSound
<1>3. request' = [request EXCEPT ![r] = q]
  BY DEF Http!Admit, Http!Return, BatchInv
<1>4. BatchSound(q)
  <2>1. at = "handler" \/ (at = "answered" /\ old.at = "done")
    BY DEF Http!Return
  <2>. HIDE DEF q, at
  <2>. QED
    BY <1>1, <1>2, <2>1 DEF BatchSound
<1>. HIDE DEF q
<1>. QED
  BY <1>3, <1>4, OneMoves

LEMMA RefusedSound ==
  ASSUME BatchInv, NEW r \in Https, NEW reason \in Http!ChainRefusals, Http!ChainRefuses(r, reason)
  PROVE  BatchInv'
<1>. DEFINE items == request[r].body.items
            each == [i \in DOMAIN items |-> [id |-> Http!Id(items, i), says |-> reason]]
<1>1. CASE request[r].body.kind # "batch"
  BY <1>1, WholeKeeps DEF Http!ChainRefuses
<1>2. CASE request[r].body.kind = "batch"
  <2>1. Http!Answers(r, "done", Http!PerItem(each))
    BY <1>2 DEF Http!ChainRefuses
  <2>2. Http!PerItem(each).items = each
    BY DEF Http!PerItem
  <2>3. /\ InPlace(items, each)
        /\ \A i \in DOMAIN items : each[i].says \notin {"running", "lost"}
    BY DEF InPlace, ItemSound, Http!ChainRefusals
  <2>. HIDE DEF each
  <2>. QED
    BY <2>1, <2>2, <2>3, AnswerSound
<1>. QED
  BY <1>1, <1>2

LEMMA SpawnSound ==
  ASSUME BatchInv, NEW r \in Https, Http!SpawnBatch(r)
  PROVE  BatchInv'
<1>. DEFINE old == request[r]
            items == old.body.items
            results == [i \in DOMAIN items |->
              [id |-> Http!NoId,
               says |-> IF items[i] = "junk" THEN "invalid_request" ELSE "running"]]
            q == [old EXCEPT !.at = "batch", !.results = results]
<1>1. BatchSound(old) /\ old.body.kind = "batch"
  BY DEF BatchInv, Http!SpawnBatch
<1>2. \A i \in DOMAIN items : items[i] \in Http!Items
  BY <1>1, BatchItems DEF BatchSound
<1>3. InPlace(items, results)
  BY <1>2 DEF InPlace, ItemSound, Http!Id, Http!Items
<1>4. request' = [request EXCEPT ![r] = q]
  BY DEF Http!SpawnBatch, BatchInv
<1>. HIDE DEF results
<1>5. DOMAIN q = DOMAIN old /\ q.at = "batch" /\ q.results = results /\ q.body = old.body
  BY <1>1 DEF BatchSound
<1>. HIDE DEF q
<1>6. BatchSound(q)
  BY <1>1, <1>3, <1>5 DEF BatchSound
<1>. QED
  BY <1>4, <1>6, OneMoves

(* A task that ends, or is lost, writes its own place.                     *)
LEMMA ItemSounds ==
  ASSUME BatchInv, NEW r \in Https, NEW i \in Http!Running(r),
         Http!ItemLands(r, i) \/ Http!ItemPanics(r, i)
  PROVE  BatchInv'
<1>. DEFINE old == request[r]
            items == old.body.items
            e == IF Http!ItemLands(r, i) THEN [id |-> i, says |-> "forwarded"]
                 ELSE [old.results[i] EXCEPT !.says = "lost"]
            results == [old.results EXCEPT ![i] = e]
            q == [old EXCEPT !.results = results]
<1>1. BatchSound(old) /\ old.at = "batch" /\ DOMAIN old.results = DOMAIN items
      /\ i \in DOMAIN items /\ items[i] = "call" /\ DOMAIN old.results[i] = {"id", "says"}
  <2>1. BatchSound(old) /\ old.at = "batch"
    BY DEF BatchInv, Http!ItemLands, Http!ItemPanics
  <2>2. InPlace(items, old.results)
    BY <2>1 DEF BatchSound
  <2>3. i \in DOMAIN items /\ old.results[i].says = "running"
    BY <2>2 DEF InPlace, Http!Running
  <2>. QED
    BY <2>1, <2>2, <2>3 DEF InPlace, ItemSound
<1>2. ItemSound(items, i, e)
  BY <1>1 DEF ItemSound, Http!Id
<1>3. request' = [request EXCEPT ![r] = q]
  BY DEF Http!ItemLands, Http!ItemPanics, BatchInv
<1>. HIDE DEF e
<1>4. results = [j \in DOMAIN items |-> IF j = i THEN e ELSE old.results[j]]
  BY <1>1
<1>5. InPlace(items, results)
  BY <1>1, <1>2, <1>4 DEF BatchSound, InPlace
<1>. HIDE DEF results
<1>6. DOMAIN q = DOMAIN old /\ q.at = "batch" /\ q.results = results /\ q.body = old.body
  BY <1>1 DEF BatchSound
<1>. HIDE DEF q
<1>7. BatchSound(q)
  BY <1>1, <1>5, <1>6 DEF BatchSound
<1>. QED
  BY <1>3, <1>7, OneMoves

(* Once nothing runs, what is lost is answered under its own id: the rest  *)
(* was under it already.                                                   *)
LEMMA JoinSound ==
  ASSUME BatchInv, NEW r \in Https, Http!JoinBatch(r)
  PROVE  BatchInv'
<1>. DEFINE old == request[r]
            items == old.body.items
            joined == [i \in DOMAIN old.results |->
              IF old.results[i].says = "lost" THEN [id |-> i, says |-> "exhausted"]
              ELSE old.results[i]]
<1>1. InPlace(items, old.results) /\ \A i \in DOMAIN old.results : old.results[i].says # "running"
  BY DEF BatchInv, BatchSound, Http!JoinBatch, Http!Running
<1>2. DOMAIN old.results = DOMAIN items
  BY <1>1 DEF InPlace
<1>3. InPlace(items, joined)
  BY <1>1, <1>2 DEF InPlace, ItemSound, Http!Id
<1>4. \A i \in DOMAIN items : joined[i].says \notin {"running", "lost"}
  BY <1>1, <1>2 DEF InPlace
<1>5. Http!Answers(r, "done", Http!PerItem(joined)) /\ Http!PerItem(joined).items = joined
  BY DEF Http!JoinBatch, Http!PerItem
<1>. HIDE DEF joined
<1>. QED
  BY <1>3, <1>4, <1>5, AnswerSound

LEMMA BatchesStart == Http!Init => BatchInv
BY DEF Http!Init, BatchInv, BatchSound, Http!Away, Http!Bodies

LEMMA BatchesKept ==
  ASSUME BatchInv, [Http!Next]_(Http!vars)
  PROVE  BatchInv'
<1>1. ASSUME NEW r \in Https, Http!Read(r) \/ Http!ClientGone(r) PROVE BatchInv'
  <2>1. CASE Http!TooLarge(r) \/ Http!Overload(r)
    BY <2>1, WholeKeeps DEF Http!TooLarge, Http!Overload
  <2>. QED
    BY <1>1, <2>1, AtSound, GoneSound DEF Http!Read
<1>2. ASSUME NEW r \in Https, Http!Handle(r) PROVE BatchInv'
  <2>1. CASE Http!NotJson(r) \/ Http!InvalidRequest(r) \/ Http!Forward(r)
    BY <2>1, WholeKeeps DEF Http!NotJson, Http!InvalidRequest, Http!Forward
  <2>. QED
    BY <1>2, <2>1, AtSound, RefusedSound, SpawnSound, ItemSounds, JoinSound DEF Http!Handle
<1>3. CASE Http!Signal \/ Http!Drained \/ Http!Deadline \/ UNCHANGED Http!vars
  BY <1>3 DEF Http!Signal, Http!Drained, Http!Deadline, Http!vars, BatchInv, BatchSound,
     InPlace, ItemSound, Http!Id, Http!NoId, Http!Bodies, Http!Batches
<1>. QED
  BY <1>1, <1>2, <1>3, ArriveSound DEF Http!Next

(* server.rs execute_batch: a batch of any length that is answered item by *)
(* item has one answer for each item, in its place and under its id.       *)
THEOREM BatchAnswersTheorem == Http!Spec => []BatchAnsweredInPlace
<1>1. BatchInv => BatchAnsweredInPlace
  <2>. SUFFICES ASSUME BatchInv, NEW r \in Https,
                       request[r].at \in {"done", "answered"},
                       request[r].body.kind = "batch", ~request[r].answer.whole
                PROVE  /\ Len(request[r].answer.items) = Len(request[r].body.items)
                       /\ \A i \in DOMAIN request[r].body.items :
                            /\ request[r].answer.items[i].id = Http!Id(request[r].body.items, i)
                            /\ request[r].answer.items[i].says \notin {"running", "lost"}
    BY DEF BatchAnsweredInPlace, Http!BatchAnsweredInPlace
  <2>. DEFINE items == request[r].body.items
              answers == request[r].answer.items
  <2>1. /\ InPlace(items, answers) /\ request[r].body \in Http!Bodies
        /\ \A i \in DOMAIN items : answers[i].says \notin {"running", "lost"}
    BY DEF BatchInv, BatchSound
  <2>2. PICK n \in Nat : items \in [1..n -> Http!Items]
    BY <2>1, BatchItems
  <2>3. Len(items) = n
    <3>1. items \in Seq(Http!Items)
      BY <2>2, SeqDef
    <3>. QED
      BY <2>2, <3>1, LenProperties
  <2>4. Len(answers) = n
    <3>. DEFINE Said == {answers[i] : i \in 1..n}
    <3>1. answers \in [1..n -> Said]
      BY <2>1, <2>2 DEF InPlace
    <3>. HIDE DEF Said
    <3>2. answers \in Seq(Said)
      BY <3>1, SeqDef
    <3>. QED
      BY <3>1, <3>2, LenProperties
  <2>. QED
    BY <2>1, <2>3, <2>4 DEF InPlace, ItemSound
<1>. QED
  BY <1>1, BatchesStart, BatchesKept, PTL DEF Http!Spec
=============================================================================
