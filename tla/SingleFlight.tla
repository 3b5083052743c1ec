---------------------------- MODULE SingleFlight ----------------------------
(* The response cache and the folding of in-flight requests for one cache  *)
(* key (src/src/cache.rs, and execute_raw in src/src/forward.rs). A caller *)
(* that misses either leads a flight, and asks the upstreams, or follows   *)
(* the flight in the map and sleeps until its leader completes it. The     *)
(* look into the cache and the look into the map are two steps, and so are *)
(* the three things a leader does to complete. Keys do not interact except *)
(* that clear() drops them all, so one key is enough.                      *)
EXTENDS Integers, FiniteSets

CONSTANTS
  Callers,
  MaxClears      \* bound on the administrator's clears, one at a time

VARIABLES
  caller,   \* each caller: where it is, its flight, has it an answer to keep
  entry,    \* is an answer cached for the key
  flight,   \* the flight in the map, or NoFlight
  result,   \* Flight.result of every flight somebody holds
  clearing, \* an administrator is inside clear()
  clears    \* history: how often the cache was cleared

vars == <<caller, entry, flight, result, clearing, clears>>
cleared == <<clearing, clears>>

-----------------------------------------------------------------------------
NoFlight == 0

(* An Arc<Flight> is freed with its last holder; there are never more than *)
(* one per caller and one in the map.                                      *)
Flights == 1..(Cardinality(Callers) + 1)

(* Of an answer only this matters: is it one to keep in the cache. *)
Idle == [pc |-> "idle", flight |-> NoFlight, ok |-> FALSE]

At(c, places) == caller[c].pc \in places

Goes(c, place) == caller' = [caller EXCEPT ![c].pc = place]

Leaves(c) == caller' = [caller EXCEPT ![c] = Idle]

Held == {flight} \cup {caller[c].flight : c \in Callers}

Init ==
  /\ caller = [c \in Callers |-> Idle]
  /\ entry = FALSE
  /\ flight = NoFlight
  /\ result = [f \in Flights |-> "pending"]
  /\ clearing = FALSE
  /\ clears = 0

-----------------------------------------------------------------------------
(* lookup() *)

(* entries.get: a hit is answered at once.                                 *)
Hit(c) ==
  /\ At(c, {"idle"})
  /\ entry
  /\ UNCHANGED vars

Miss(c) ==
  /\ At(c, {"idle"})
  /\ ~entry
  /\ Goes(c, "missed")
  /\ UNCHANGED <<entry, flight, result, cleared>>

NewFlight(c, f) ==
  /\ flight' = f
  /\ result' = [result EXCEPT ![f] = "pending"]
  /\ caller' = [caller EXCEPT ![c] =
       [pc |-> "leads", flight |-> f, ok |-> FALSE]]

FreeFlight == CHOOSE f \in Flights : f \notin Held

(* Mutant: the map is not consulted, every miss leads.                     *)
LeadAlways(c) ==
  /\ At(c, {"missed"})
  /\ NewFlight(c, FreeFlight)
  /\ UNCHANGED <<entry, cleared>>

(* flights.entry is vacant: the caller leads, and asks the upstreams.      *)
Lead(c) ==
  /\ At(c, {"missed"})
  /\ flight = NoFlight
  /\ NewFlight(c, FreeFlight)
  /\ UNCHANGED <<entry, cleared>>

(* flights.entry is occupied.                                              *)
Follow(c) ==
  /\ At(c, {"missed"})
  /\ flight # NoFlight
  /\ caller' = [caller EXCEPT ![c].pc = "follows", ![c].flight = flight]
  /\ UNCHANGED <<entry, flight, result, cleared>>

-----------------------------------------------------------------------------
(* The leader *)

(* execute_uncached returns: an answer worth keeping is inserted next, any *)
(* other completes the flight as failed.                                   *)
LeaderAnswered(c) ==
  /\ At(c, {"leads"})
  /\ caller' = [caller EXCEPT ![c].pc = "inserting", ![c].ok = TRUE]
  /\ UNCHANGED <<entry, flight, result, cleared>>

LeaderInserts(c) ==
  /\ At(c, {"inserting"})
  /\ entry' = TRUE
  /\ Goes(c, "completes")
  /\ UNCHANGED <<flight, result, cleared>>

(* No answer worth keeping; or the client is gone and the future is        *)
(* dropped while it awaits the upstreams or the insertion.                 *)
LeaderFails(c) ==
  /\ At(c, {"leads", "inserting"})
  /\ caller' = [caller EXCEPT ![c].pc = "completes", ![c].ok = FALSE]
  /\ UNCHANGED <<entry, flight, result, cleared>>

(* complete_success, complete_failure and Drop: the result is stored, then *)
(* the sleepers are woken, then the key leaves the map, whoever's flight   *)
(* the map holds by then.                                                  *)
StoreResult(c) ==
  /\ At(c, {"completes"})
  /\ result' = [result EXCEPT ![caller[c].flight] =
                  IF caller[c].ok THEN "success" ELSE "failed"]
  /\ Goes(c, "stored")
  /\ UNCHANGED <<entry, flight, cleared>>

Woken(b) == [caller[b] EXCEPT !.pc = "follows"]

(* Mutant: notified() is only called once the result was looked at, so     *)
(* that nothing reaches a follower between its look and its sleep.         *)
NotifyOnlySleepers(c) ==
  /\ At(c, {"stored"})
  /\ caller' = [b \in Callers |->
       IF b = c THEN [caller[c] EXCEPT !.pc = "notified"]
       ELSE IF At(b, {"asleep"}) /\ caller[b].flight = caller[c].flight
       THEN Woken(b)
       ELSE caller[b]]
  /\ UNCHANGED <<entry, flight, result, cleared>>

(* notify_waiters reaches everyone who called notified() before, whether   *)
(* asleep already or about to be: a follower goes round its loop.          *)
NotifyWaiters(c) ==
  /\ At(c, {"stored"})
  /\ caller' = [b \in Callers |->
       IF b = c THEN [caller[c] EXCEPT !.pc = "notified"]
       ELSE IF At(b, {"seen", "asleep"}) /\ caller[b].flight = caller[c].flight
       THEN Woken(b)
       ELSE caller[b]]
  /\ UNCHANGED <<entry, flight, result, cleared>>

RemoveFlight(c) ==
  /\ At(c, {"notified"})
  /\ flight' = NoFlight
  /\ Leaves(c)
  /\ UNCHANGED <<entry, result, cleared>>

-----------------------------------------------------------------------------
(* The follower *)

(* notified() is called before the result is looked at, so a completion    *)
(* after the look still ends the sleep.                                    *)
Arm(c) ==
  /\ At(c, {"follows"})
  /\ Goes(c, "armed")
  /\ UNCHANGED <<entry, flight, result, cleared>>

LookFinds(c) ==
  /\ At(c, {"armed"})
  /\ \/ /\ result[caller[c].flight] = "success"
        /\ Leaves(c)
     \/ /\ result[caller[c].flight] = "failed"
        /\ caller' = [caller EXCEPT ![c] = [Idle EXCEPT !.pc = "alone"]]
  /\ UNCHANGED <<entry, flight, result, cleared>>

LookFindsNone(c) ==
  /\ At(c, {"armed"})
  /\ result[caller[c].flight] = "pending"
  /\ Goes(c, "seen")
  /\ UNCHANGED <<entry, flight, result, cleared>>

Sleep(c) ==
  /\ At(c, {"seen"})
  /\ Goes(c, "asleep")
  /\ UNCHANGED <<entry, flight, result, cleared>>

(* The flight failed: the follower asks the upstreams itself, without a    *)
(* flight, and keeps the answer if it is worth it.                         *)
AloneAnswered(c) ==
  /\ At(c, {"alone"})
  /\ \/ caller' = [caller EXCEPT ![c].pc = "keeping", ![c].ok = TRUE]
     \/ Leaves(c)
  /\ UNCHANGED <<entry, flight, result, cleared>>

AloneInserts(c) ==
  /\ At(c, {"keeping"})
  /\ entry' = TRUE
  /\ Leaves(c)
  /\ UNCHANGED <<flight, result, cleared>>

(* The client of a follower is gone: its future is dropped at an await.    *)
FollowerGone(c) ==
  /\ At(c, {"asleep", "alone", "keeping"})
  /\ Leaves(c)
  /\ UNCHANGED <<entry, flight, result, cleared>>

-----------------------------------------------------------------------------
(* The cache drops entries that expire or do not fit.                      *)
Evict ==
  /\ entry
  /\ entry' = FALSE
  /\ UNCHANGED <<caller, flight, result, cleared>>

(* clear(): the entries go first, the flights in the map after them.       *)
ClearEntries ==
  /\ ~clearing /\ clears < MaxClears
  /\ clearing' = TRUE
  /\ entry' = FALSE
  /\ UNCHANGED <<caller, flight, result, clears>>

ClearFlights ==
  /\ clearing
  /\ clearing' = FALSE
  /\ clears' = clears + 1
  /\ flight' = NoFlight
  /\ UNCHANGED <<caller, entry, result>>

-----------------------------------------------------------------------------
LookupStep(c) ==
  \/ Hit(c)
  \/ Miss(c)
  \/ Lead(c)
  \/ Follow(c)

LeaderStep(c) ==
  \/ LeaderAnswered(c)
  \/ LeaderInserts(c)
  \/ LeaderFails(c)
  \/ StoreResult(c)
  \/ NotifyWaiters(c)
  \/ RemoveFlight(c)

FollowerStep(c) ==
  \/ Arm(c)
  \/ LookFinds(c)
  \/ LookFindsNone(c)
  \/ Sleep(c)
  \/ AloneAnswered(c)
  \/ AloneInserts(c)

Next ==
  \/ \E c \in Callers :
       \/ LookupStep(c)
       \/ LeaderStep(c)
       \/ FollowerStep(c)
       \/ FollowerGone(c)
  \/ Evict
  \/ ClearEntries
  \/ ClearFlights

Spec == Init /\ [][Next]_vars

(* Every request has a deadline, so a leader is answered or fails; the     *)
(* runtime polls a task that is ready. Callers need not come, and clients  *)
(* need not leave.                                                         *)
FairSpec ==
  /\ Spec
  /\ \A c \in Callers : WF_vars(LeaderStep(c)) /\ WF_vars(FollowerStep(c))

-----------------------------------------------------------------------------
(* Properties. *)

Leading == {"leads", "inserting", "completes", "stored", "notified"}
Following == {"follows", "armed", "seen", "asleep"}

(* Every variable has its type, and a caller that leads or follows holds a *)
(* flight.                                                                 *)
TypeOK ==
  /\ caller \in [Callers ->
       [pc : {"idle", "missed", "alone", "keeping"} \cup Leading \cup Following,
        flight : Flights \cup {NoFlight}, ok : BOOLEAN]]
  /\ \A c \in Callers : At(c, Leading \cup Following) => caller[c].flight # NoFlight
  /\ entry \in BOOLEAN
  /\ flight \in Flights \cup {NoFlight}
  /\ result \in [Flights -> {"pending", "success", "failed"}]
  /\ clearing \in BOOLEAN
  /\ clears \in 0..MaxClears

(* The flight in the map always has a leader that will yet take it out:    *)
(* otherwise every later caller of the key would follow it for ever. This  *)
(* holds across dropped leaders and clears.                                *)
FlightHasLeader ==
  flight # NoFlight =>
    \E c \in Callers : At(c, Leading) /\ caller[c].flight = flight

(* Every follower stops waiting: it is answered, asks on its own, or its   *)
(* client leaves. No completion is missed between its look at the result   *)
(* and its sleep, even when the map dropped the flight meanwhile.          *)
FollowersReturn ==
  \A c \in Callers : At(c, Following) ~> ~At(c, Following)

(* A clear of the cache may cost one more leader at a time, and no more:   *)
(* a leader that outlives a clear takes its successor's flight out of the  *)
(* map, whose leader takes out the next, but each of them leaves as it     *)
(* does. While nobody clears the cache, the misses of a key have one.      *)
LeadersBounded == Cardinality({c \in Callers : At(c, Leading)}) <= clears + 1
=============================================================================
