------------------------ MODULE EndpointHealthProofs ------------------------
(* What EndpointHealth guarantees for every choice of its constants.       *)
EXTENDS EndpointHealth, TLAPS

-----------------------------------------------------------------------------
(* Lemmas about the operators on HealthState.                              *)

LEMMA DivisionIsNatural ==
  ASSUME NEW a \in Nat, NEW b \in Nat \ {0}
  PROVE  a \div b \in Nat
BY SMT

LEMMA CooldownIsPositive ==
  ASSUME NEW n \in Nat
  PROVE  CooldownForStrikes(n) \in Nat \ {0}
<1>1. Len(CooldownTable) \in Nat \ {0}
  BY HealthAssumption
<1>2. \A i \in 1..Len(CooldownTable) : CooldownTable[i] \in Nat \ {0}
  BY HealthAssumption
<1>. QED
  BY <1>1, <1>2 DEF CooldownForStrikes

(* state() and the decay in every record_* leave all but the strikes and   *)
(* the instant they are counted from.                                      *)
LEMMA DecayedFacts ==
  ASSUME NEW h \in Health, NEW t \in Nat
  PROVE  /\ Decayed(h, t) \in Health
         /\ Decayed(h, t).status = h.status
         /\ Decayed(h, t).until = h.until
         /\ Decayed(h, t).passes = h.passes
         /\ Decayed(h, t).strikes <= h.strikes
         /\ h.status # "Active" => Decayed(h, t) = h
<1>. DEFINE steps == Elapsed(t, h.healthySince) \div DecayInterval
<1>1. steps \in Nat
  <2>1. Elapsed(t, h.healthySince) \in Nat
    BY DEF Elapsed, Health
  <2>. QED
    BY <2>1, DivisionIsNatural, HealthAssumption
<1>2. CASE h.status = "Active" /\ h.healthySince # None /\ steps > 0
  <2>. DEFINE strikes == IF h.strikes >= steps THEN h.strikes - steps ELSE 0
  <2>1. Decayed(h, t) = [h EXCEPT !.strikes = strikes, !.healthySince = t]
    BY <1>2 DEF Decayed, Health
  <2>2. strikes \in 0..MaxStrikes /\ strikes <= h.strikes
    <3>. HIDE DEF steps
    <3>. QED
      BY <1>1, HealthAssumption DEF Health
  <2>. HIDE DEF strikes, steps
  <2>. QED
    BY <2>1, <2>2, <1>2 DEF Health
<1>3. CASE ~(h.status = "Active" /\ h.healthySince # None /\ steps > 0)
  <2>1. Decayed(h, t) = h
    BY <1>3 DEF Decayed
  <2>. QED
    BY <2>1, HealthAssumption DEF Health
<1>. QED
  BY <1>2, <1>3

LEMMA NoFaultsFacts ==
  ASSUME NEW h \in Health
  PROVE  /\ NoFaults(h) \in Health
         /\ NoFaults(h).status = h.status
         /\ NoFaults(h).until = h.until
         /\ NoFaults(h).passes = h.passes
         /\ NoFaults(h).strikes = h.strikes
BY DEF NoFaults, Health, None

(* record_success: only the last pass on probation changes the status, and *)
(* nothing it does touches a deadline or adds a strike.                    *)
LEMMA SucceededFacts ==
  ASSUME NEW h \in Health, NEW t \in Nat
  PROVE  /\ Succeeded(h, t) \in Health
         /\ Succeeded(h, t).until = h.until
         /\ Succeeded(h, t).strikes <= h.strikes
         /\ h.status # "Active" => Succeeded(h, t).strikes = h.strikes
         /\ h.status # "Probation" => Succeeded(h, t).status = h.status
         /\ h.status = "Probation" =>
              IF h.passes + 1 >= ProbationPassesRequired
              THEN Succeeded(h, t).status = "Active"
              ELSE /\ Succeeded(h, t).status = "Probation"
                   /\ Succeeded(h, t).passes = h.passes + 1
<1>. DEFINE g == NoFaults(Decayed(h, t))
<1>1. /\ g \in Health
      /\ g.status = h.status /\ g.until = h.until /\ g.passes = h.passes
      /\ g.strikes <= h.strikes
      /\ h.status # "Active" => g.strikes = h.strikes
  BY DecayedFacts, NoFaultsFacts
<1>2. Succeeded(h, t) =
        IF g.status # "Probation" THEN g
        ELSE IF g.passes + 1 >= ProbationPassesRequired
             THEN [g EXCEPT !.status = "Active", !.passes = 0, !.healthySince = t]
             ELSE [g EXCEPT !.passes = @ + 1]
  BY DEF Succeeded
<1>. HIDE DEF g
<1>3. CASE h.status # "Probation"
  <2>1. Succeeded(h, t) = g
    BY <1>1, <1>2, <1>3
  <2>. QED
    BY <1>1, <1>3, <2>1
<1>4. CASE h.status = "Probation" /\ h.passes + 1 >= ProbationPassesRequired
  <2>1. Succeeded(h, t) =
          [g EXCEPT !.status = "Active", !.passes = 0, !.healthySince = t]
    BY <1>1, <1>2, <1>4
  <2>2. Succeeded(h, t) \in Health
    <3>1. [g EXCEPT !.status = "Active"] \in Health
      BY <1>1 DEF Health, Status
    <3>2. [[g EXCEPT !.status = "Active"] EXCEPT !.passes = 0] \in Health
      BY <3>1 DEF Health
    <3>3. [[[g EXCEPT !.status = "Active"] EXCEPT !.passes = 0]
             EXCEPT !.healthySince = t] \in Health
      BY <3>2 DEF Health
    <3>. QED
      BY <2>1, <3>3
  <2>3. /\ Succeeded(h, t).status = "Active"
        /\ Succeeded(h, t).until = g.until
        /\ Succeeded(h, t).strikes = g.strikes
    BY <1>1, <2>1 DEF Health
  <2>. QED
    BY <1>1, <1>4, <2>2, <2>3
<1>5. CASE h.status = "Probation" /\ ~(h.passes + 1 >= ProbationPassesRequired)
  <2>1. Succeeded(h, t) = [g EXCEPT !.passes = @ + 1]
    BY <1>1, <1>2, <1>5
  <2>. QED
    BY <1>1, <1>5, <2>1 DEF Health, Status
<1>. QED
  BY <1>3, <1>4, <1>5

LEMMA OneMoreFacts ==
  ASSUME NEW n \in 0..MaxStrikes
  PROVE  OneMore(n) \in 1..MaxStrikes /\ OneMore(n) >= n
BY HealthAssumption DEF OneMore

LEMMA SignalFacts ==
  ASSUME NEW signal \in Signal
  PROVE  /\ signal.retryAfter \in Nat
         /\ signal.retryAfter # 0 => signal.immediate
<1>1. RetryAfters \cup {0} \subseteq Nat
  BY HealthAssumption
<1>2. CASE signal \in [immediate : {TRUE}, retryAfter : RetryAfters \cup {0}]
  <2>1. signal.retryAfter \in RetryAfters \cup {0} /\ signal.immediate
    BY <1>2
  <2>. QED
    BY <1>1, <2>1
<1>3. CASE signal \in [immediate : {FALSE}, retryAfter : {0}]
  <2>1. signal.retryAfter = 0
    BY <1>3
  <2>. QED
    BY <2>1
<1>. QED
  BY <1>2, <1>3 DEF Signal

(* Entering a cooldown: the deadline covers the Retry-After.               *)
LEMMA CooledFacts ==
  ASSUME NEW h \in Health, NEW t \in Nat, NEW signal \in Signal
  PROVE  /\ Cooled(h, t, signal) \in Health
         /\ Cooled(h, t, signal).status = "Cooling"
         /\ Cooled(h, t, signal).until >= t + signal.retryAfter
         /\ Cooled(h, t, signal).strikes >= h.strikes
<1>. DEFINE strikes == OneMore(h.strikes)
            delay == Larger(signal.retryAfter, CooldownForStrikes(strikes))
<1>1. strikes \in 0..MaxStrikes /\ strikes >= h.strikes /\ strikes \in Nat
  BY OneMoreFacts, HealthAssumption DEF Health
<1>2. delay \in Nat /\ delay >= signal.retryAfter
  BY <1>1, CooldownIsPositive, SignalFacts DEF Larger
<1>3. Cooled(h, t, signal) =
        [status |-> "Cooling", until |-> t + delay, passes |-> 0,
         strikes |-> strikes, healthySince |-> 0,
         faults |-> 0, lastFault |-> 0]
  BY DEF Cooled, None
<1>5. signal.retryAfter \in Nat
  BY SignalFacts
<1>. HIDE DEF strikes, delay
<1>6. Cooled(h, t, signal) \in Health
  <2>1. t + delay \in Nat /\ "Cooling" \in Status
    BY <1>2 DEF Status
  <2>. QED
    BY <1>1, <1>3, <2>1 DEF Health
<1>7. /\ Cooled(h, t, signal).status = "Cooling"
      /\ Cooled(h, t, signal).until = t + delay
      /\ Cooled(h, t, signal).strikes = strikes
  BY <1>3
<1>. QED
  BY <1>1, <1>2, <1>5, <1>6, <1>7

(* record_failure: while Cooling it only ever extends the deadline; on     *)
(* probation, or with a Retry-After, it always ends in a cooldown.         *)
LEMMA FailedFacts ==
  ASSUME NEW h \in Health, NEW t \in Nat, NEW signal \in Signal
  PROVE  /\ Failed(h, t, signal) \in Health
         /\ h.status = "Cooling" =>
              /\ Failed(h, t, signal).status = "Cooling"
              /\ Failed(h, t, signal).until >= h.until
              /\ Failed(h, t, signal).strikes = h.strikes
         /\ signal.retryAfter # 0 =>
              /\ Failed(h, t, signal).status = "Cooling"
              /\ Failed(h, t, signal).until >= t + signal.retryAfter
         /\ h.status # "Active" =>
              /\ Failed(h, t, signal).status = "Cooling"
              /\ Failed(h, t, signal).strikes >= h.strikes
         /\ Failed(h, t, signal).status # "Probation"
<1>. DEFINE g == Decayed(h, t)
<1>1. /\ g \in Health /\ g.status = h.status /\ g.until = h.until
      /\ h.status # "Active" => g.strikes = h.strikes
  BY DecayedFacts
<1>2. signal.retryAfter \in Nat /\ (signal.retryAfter # 0 => signal.immediate)
  BY SignalFacts
<1>3. Failed(h, t, signal) =
        IF g.status = "Cooling"
        THEN IF signal.retryAfter = 0 THEN g
             ELSE [g EXCEPT !.until = Larger(@, t + signal.retryAfter)]
        ELSE IF ShouldCool(g, t, signal) THEN Cooled(g, t, signal)
        ELSE [g EXCEPT !.faults = FaultCount(g, t), !.lastFault = t,
                       !.healthySince = t]
  BY DEF Failed
<1>. HIDE DEF g
<1>4. CASE g.status = "Cooling" /\ signal.retryAfter = 0
  <2>1. Failed(h, t, signal) = g
    BY <1>3, <1>4
  <2>. QED
    BY <1>1, <1>4, <2>1 DEF Health
<1>5. CASE g.status = "Cooling" /\ signal.retryAfter # 0
  <2>. DEFINE deadline == Larger(g.until, t + signal.retryAfter)
  <2>1. Failed(h, t, signal) = [g EXCEPT !.until = deadline]
    BY <1>1, <1>3, <1>5 DEF Health
  <2>2. deadline \in Nat /\ deadline >= g.until
        /\ deadline >= t + signal.retryAfter
    BY <1>1, <1>2 DEF Larger, Health
  <2>. HIDE DEF deadline
  <2>. QED
    BY <1>1, <1>5, <2>1, <2>2 DEF Health
<1>6. CASE g.status # "Cooling" /\ ShouldCool(g, t, signal)
  <2>1. Failed(h, t, signal) = Cooled(g, t, signal)
    BY <1>3, <1>6
  <2>. QED
    BY <1>1, <1>2, <1>6, <2>1, CooledFacts
<1>7. CASE g.status # "Cooling" /\ ~ShouldCool(g, t, signal)
  <2>1. Failed(h, t, signal) =
          [g EXCEPT !.faults = FaultCount(g, t), !.lastFault = t,
                    !.healthySince = t]
    BY <1>3, <1>7
  <2>2. signal.retryAfter = 0 /\ g.status = "Active"
    BY <1>1, <1>2, <1>7 DEF ShouldCool, Health, Status
  <2>3. FaultCount(g, t) \in Nat
    BY <1>1 DEF FaultCount, Health
  <2>4. [[[g EXCEPT !.faults = FaultCount(g, t)] EXCEPT !.lastFault = t]
            EXCEPT !.healthySince = t] \in Health
    <3>1. [g EXCEPT !.faults = FaultCount(g, t)] \in Health
      BY <1>1, <2>3 DEF Health
    <3>2. [[g EXCEPT !.faults = FaultCount(g, t)] EXCEPT !.lastFault = t]
            \in Health
      BY <3>1 DEF Health
    <3>. QED
      BY <3>2 DEF Health
  <2>5. Failed(h, t, signal).status = g.status
    BY <1>1, <2>1 DEF Health
  <2>. QED
    BY <1>1, <2>1, <2>2, <2>4, <2>5
<1>. QED
  BY <1>4, <1>5, <1>6, <1>7

LEMMA OnProbationFacts ==
  ASSUME NEW h \in Health
  PROVE  /\ OnProbation(h) \in Health
         /\ OnProbation(h).status = "Probation"
         /\ OnProbation(h).passes = 0
         /\ OnProbation(h).strikes = h.strikes
<1>. DEFINE g == NoFaults(h)
<1>1. g \in Health /\ g.strikes = h.strikes
  BY NoFaultsFacts
<1>2. OnProbation(h) =
        [[[g EXCEPT !.status = "Probation"] EXCEPT !.passes = 0]
            EXCEPT !.until = 0]
  BY DEF OnProbation, None
<1>. HIDE DEF g
<1>3. [g EXCEPT !.status = "Probation"] \in Health
  BY <1>1 DEF Health, Status
<1>4. [[g EXCEPT !.status = "Probation"] EXCEPT !.passes = 0] \in Health
  BY <1>3 DEF Health
<1>. QED
  BY <1>1, <1>2, <1>3, <1>4 DEF Health

(* restore_health: a cooldown or a probation without passes.               *)
LEMMA RestoredFacts ==
  ASSUME NEW h \in Health, NEW s \in Snapshots, NEW t \in Nat
  PROVE  /\ Restored(h, s, t) \in Health
         /\ Restored(h, s, t).status # "Active"
         /\ Restored(h, s, t).passes = 0
<1>. DEFINE ahead == s.cooling /\ t < s.until
            status == IF ahead THEN "Cooling" ELSE "Probation"
            until == IF ahead THEN s.until ELSE 0
<1>1. s.until \in Nat /\ s.strikes \in 0..MaxStrikes
  BY HealthAssumption
<1>2. status \in Status /\ status # "Active" /\ until \in Nat
  BY <1>1 DEF Status
<1>3. Restored(h, s, t) =
        [[[[h EXCEPT !.status = status] EXCEPT !.until = until]
             EXCEPT !.passes = 0] EXCEPT !.strikes = s.strikes]
  BY DEF Restored, None, Health
<1>. HIDE DEF ahead, status, until
<1>4. [h EXCEPT !.status = status] \in Health
      /\ [h EXCEPT !.status = status].status = status
  BY <1>2 DEF Health
<1>5. [[h EXCEPT !.status = status] EXCEPT !.until = until] \in Health
      /\ [[h EXCEPT !.status = status] EXCEPT !.until = until].status = status
  BY <1>2, <1>4 DEF Health
<1>. DEFINE g == [[h EXCEPT !.status = status] EXCEPT !.until = until]
<1>6. g \in Health /\ g.status # "Active"
  BY <1>2, <1>5
<1>7. Restored(h, s, t) = [[g EXCEPT !.passes = 0] EXCEPT !.strikes = s.strikes]
  BY <1>3
<1>. HIDE DEF g
<1>8. /\ [g EXCEPT !.passes = 0] \in Health
      /\ [g EXCEPT !.passes = 0].status = g.status
      /\ [g EXCEPT !.passes = 0].passes = 0
  BY <1>6 DEF Health
<1>. QED
  BY <1>1, <1>6, <1>7, <1>8 DEF Health

-----------------------------------------------------------------------------
(* Types and clocks.                                                       *)

RequestType == [phase : Phase, at : Nat]
WorkerType == [pc : Place, at : Nat]

LEMMA MoveRequestFacts ==
  ASSUME request \in [Requests -> RequestType],
         NEW r \in Requests, NEW from, NEW to \in Phase, NEW at \in Nat,
         MoveRequest(r, from, to, at)
  PROVE  /\ request' \in [Requests -> RequestType]
         /\ request'[r].at = at
         /\ \A q \in Requests : q # r => request'[q] = request[q]
BY DEF MoveRequest, RequestType

LEMMA MoveWorkerFacts ==
  ASSUME worker \in [Workers -> WorkerType],
         NEW w \in Workers, NEW from, NEW to \in Place, NEW at \in Nat,
         MoveWorker(w, from, to, at)
  PROVE  /\ worker' \in [Workers -> WorkerType]
         /\ worker[w].pc = from
         /\ worker'[w].pc = to
         /\ worker'[w].at = at
         /\ \A v \in Workers : v # w => worker'[v] = worker[v]
BY DEF MoveWorker, WorkerType

(* The two recordings keep the types of what they write.                   *)
LEMMA RecordSuccessType ==
  ASSUME TypeOK, NEW t \in Nat, RecordSuccess(t)
  PROVE  /\ health' \in Health
         /\ streak' \in Nat
         /\ pause' \in Nat
<1>1. health' \in Health
  BY SucceededFacts DEF RecordSuccess, TypeOK
<1>2. CountUp(streak) \in Nat
  BY HealthAssumption DEF CountUp, TypeOK
<1>3. streak' \in Nat
  BY <1>2 DEF RecordSuccess, TypeOK
<1>. QED
  BY <1>1, <1>3 DEF RecordSuccess, TypeOK

LEMMA RecordFailureType ==
  ASSUME TypeOK, NEW t \in Nat, NEW signal \in Signal, RecordFailure(t, signal)
  PROVE  /\ health' \in Health
         /\ streak' \in Nat
         /\ pause' \in Nat
<1>1. health' \in Health
  BY FailedFacts DEF RecordFailure, TypeOK
<1>2. pause' \in Nat
  BY SignalFacts DEF RecordFailure, TypeOK, Larger
<1>. QED
  BY <1>1, <1>2 DEF RecordFailure

LEMMA OrdinaryIsSignal == Ordinary \in Signal
BY DEF Ordinary, Signal

LEMMA AdminCoolType ==
  ASSUME TypeOK, NEW duration \in AdminCooldowns, AdminCool(duration)
  PROVE  /\ health' \in Health
         /\ health'.status = "Cooling"
<1>. DEFINE strikes == OneMore(health.strikes)
            deadline == now + duration
            h1 == [health EXCEPT !.status = "Cooling"]
            h2 == [h1 EXCEPT !.passes = 0]
            h3 == [h2 EXCEPT !.until = deadline]
            h4 == [h3 EXCEPT !.strikes = strikes]
<1>1. strikes \in 0..MaxStrikes
  BY OneMoreFacts, HealthAssumption DEF TypeOK, Health
<1>2. deadline \in Nat
  BY HealthAssumption DEF TypeOK
<1>3. health' = [h4 EXCEPT !.healthySince = 0]
  BY DEF AdminCool, None, TypeOK, Health
<1>4. h1 \in Health /\ h1.status = "Cooling"
  BY DEF TypeOK, Health, Status
<1>. HIDE DEF h1, deadline, strikes
<1>5. h2 \in Health /\ h2.status = "Cooling"
  BY <1>4 DEF Health
<1>. HIDE DEF h2
<1>6. h3 \in Health /\ h3.status = "Cooling"
  BY <1>2, <1>5 DEF Health
<1>. HIDE DEF h3
<1>7. h4 \in Health /\ h4.status = "Cooling"
  BY <1>1, <1>6 DEF Health
<1>. HIDE DEF h4
<1>. QED
  BY <1>3, <1>7 DEF Health

LEMMA ProbationIsHealth == Probation \in Health
BY HealthAssumption DEF Probation, Health, Status, None

(* The administrator and the refresh write a health of the right type, and *)
(* never one that is Active or has passes on probation.                    *)
LEMMA OverridesFacts ==
  ASSUME TypeOK, Overrides
  PROVE  /\ health' \in Health
         /\ health'.status # "Active"
         /\ health'.status = "Probation" => health'.passes = 0
         /\ stored' \in SUBSET Snapshots
         /\ streak' = 0 /\ pause' = 0
         /\ UNCHANGED <<now, probing, request, worker>>
<1>. DEFINE Goal == /\ health' \in Health
                    /\ health'.status # "Active"
                    /\ health'.status = "Probation" => health'.passes = 0
                    /\ stored' \in SUBSET Snapshots
                    /\ streak' = 0 /\ pause' = 0
                    /\ UNCHANGED <<now, probing, request, worker>>
<1>1. health \in Health /\ now \in Nat /\ stored \in SUBSET Snapshots
  BY DEF TypeOK
<1>2. ASSUME NEW duration \in AdminCooldowns, AdminCool(duration) PROVE Goal
  <2>1. health' \in Health /\ health'.status = "Cooling"
    BY <1>2, AdminCoolType
  <2>. QED
    BY <1>1, <1>2, <2>1 DEF AdminCool, None
<1>3. CASE AdminReset
  <2>1. health'.status = "Probation" /\ health'.passes = 0
    BY <1>3 DEF AdminReset, Probation
  <2>. QED
    BY <1>1, <1>3, <2>1, ProbationIsHealth DEF AdminReset, None
<1>4. ASSUME NEW s \in Snapshots, Restore(s), stored' \in SUBSET Snapshots
      PROVE  Goal
  BY <1>1, <1>4, RestoredFacts DEF Restore, None
<1>5. ASSUME NEW s \in Snapshots, Import(s) PROVE Goal
  BY <1>4, <1>5 DEF Import
<1>6. CASE Refresh
  BY <1>1, <1>4, <1>6 DEF Refresh
<1>. QED
  BY <1>2, <1>3, <1>5, <1>6 DEF Overrides, AdminStep

(* An instant that is read before the mutex is taken lies in the past.     *)
ClocksBehind ==
  /\ \A r \in Requests : request[r].at <= now
  /\ \A w \in Workers : worker[w].at <= now

TypeAndClocks == TypeOK /\ ClocksBehind

LEMMA InitHealth ==
  ASSUME Init
  PROVE  /\ health \in Health /\ stored \in SUBSET Snapshots
         /\ health.passes = 0
<1>1. CASE stored = {} /\ health = Probation
  BY <1>1, ProbationIsHealth DEF Probation
<1>2. ASSUME NEW s \in Snapshots,
             stored = {s} /\ health = Restored(Probation, s, 1)
      PROVE  /\ health \in Health /\ stored \in SUBSET Snapshots
             /\ health.passes = 0
  <2>1. 1 \in Nat
    OBVIOUS
  <2>. QED
    BY <1>2, <2>1, ProbationIsHealth, RestoredFacts
<1>. QED
  BY <1>1, <1>2 DEF Init

LEMMA InitTypeAndClocks == Init => TypeAndClocks
<1>. SUFFICES ASSUME Init PROVE TypeAndClocks
  OBVIOUS
<1>1. now \in 1..MaxTime /\ probing \in BOOLEAN /\ pause \in Nat
  <2>1. now = 1 /\ pause = 0
    BY DEF Init, None
  <2>2. probing \in BOOLEAN
    BY DEF Init
  <2>. QED
    BY <2>1, <2>2, HealthAssumption
<1>2. health \in Health /\ stored \in SUBSET Snapshots /\ streak \in Nat
  BY InitHealth DEF Init
<1>3. /\ request \in [Requests -> RequestType]
      /\ \A r \in Requests : request[r].at <= now
  BY DEF Init, None, RequestType, Phase
<1>4. /\ worker \in [Workers -> WorkerType]
      /\ \A w \in Workers : worker[w].at <= now
  BY DEF Init, None, WorkerType, Place
<1>. QED
  BY <1>1, <1>2, <1>3, <1>4
     DEF TypeAndClocks, TypeOK, ClocksBehind, RequestType, WorkerType

-----------------------------------------------------------------------------
(* What a step of a request or of a worker does to the health and to its   *)
(* history is one of five things, each with a clock that is not ahead.     *)

Begun ==
  /\ health.status = "Cooling" /\ ~StillCooling(health, now)
  /\ health' = OnProbation(health)
  /\ streak' = 0
  /\ UNCHANGED pause

Forgiven(t) ==
  /\ health' = Decayed(health, t)
  /\ UNCHANGED <<streak, pause>>

Effect ==
  \/ UNCHANGED <<health, streak, pause>>
  \/ \E t \in 0..now : RecordSuccess(t)
  \/ \E t \in 0..now, signal \in Signal : RecordFailure(t, signal)
  \/ Begun
  \/ \E t \in 0..now : Forgiven(t)

LEMMA EffectType ==
  ASSUME TypeOK, Effect
  PROVE  /\ health' \in Health
         /\ streak' \in Nat
         /\ pause' \in Nat
<1>. DEFINE Goal == /\ health' \in Health
                    /\ streak' \in Nat
                    /\ pause' \in Nat
<1>1. /\ now \in Nat /\ health \in Health
      /\ streak \in Nat /\ pause \in Nat
  BY DEF TypeOK
<1>2. CASE UNCHANGED <<health, streak, pause>>
  BY <1>1, <1>2
<1>3. ASSUME NEW t \in 0..now, RecordSuccess(t)
      PROVE  Goal
  <2>1. t \in Nat
    BY <1>1
  <2>. QED
    BY <1>3, <2>1, RecordSuccessType
<1>4. ASSUME NEW t \in 0..now, NEW signal \in Signal, RecordFailure(t, signal)
      PROVE  Goal
  <2>1. t \in Nat
    BY <1>1
  <2>. QED
    BY <1>4, <2>1, RecordFailureType
<1>5. CASE Begun
  BY <1>1, <1>5, OnProbationFacts DEF Begun
<1>6. ASSUME NEW t \in 0..now, Forgiven(t) PROVE Goal
  <2>1. t \in Nat
    BY <1>1
  <2>. QED
    BY <1>1, <1>6, <2>1, DecayedFacts DEF Forgiven
<1>. QED
  BY <1>2, <1>3, <1>4, <1>5, <1>6 DEF Effect

LEMMA RequestStepEffect ==
  ASSUME TypeAndClocks, NEW r \in Requests, RequestStep(r)
  PROVE  /\ Effect
         /\ request' \in [Requests -> RequestType]
         /\ \A q \in Requests : request'[q].at <= now
         /\ UNCHANGED <<now, probing, worker, stored>>
<1>1. /\ now \in Nat /\ request \in [Requests -> RequestType]
      /\ \A q \in Requests : request[q].at \in 0..now
  BY DEF TypeAndClocks, TypeOK, ClocksBehind, RequestType
<1>2. "idle" \in Phase /\ "sent" \in Phase /\ "done" \in Phase
  BY DEF Phase
<1>3. 0 \in 0..now /\ now \in 0..now /\ request[r].at \in 0..now
  BY <1>1
<1>4. ASSUME NEW from, NEW to \in Phase, NEW at \in 0..now,
             MoveRequest(r, from, to, at)
      PROVE  /\ request' \in [Requests -> RequestType]
             /\ \A q \in Requests : request'[q].at <= now
  <2>1. at \in Nat /\ at <= now
    BY <1>1
  <2>2. /\ request' \in [Requests -> RequestType]
        /\ request'[r].at = at
        /\ \A q \in Requests : q # r => request'[q] = request[q]
    BY <1>1, <1>4, <2>1, MoveRequestFacts
  <2>. QED
    BY <1>1, <2>1, <2>2
<1>5. CASE Acquire(r)
  BY <1>2, <1>3, <1>4, <1>5 DEF Acquire, Effect, history, None
<1>6. CASE Abandon(r)
  BY <1>2, <1>3, <1>4, <1>6 DEF Abandon, Effect, history, None
<1>7. CASE Finish(r)
  BY <1>2, <1>3, <1>4, <1>7 DEF Finish, Effect, history
<1>8. CASE ApplyValid(r)
  BY <1>2, <1>3, <1>4, <1>8 DEF ApplyValid, Effect, None
<1>9. ASSUME NEW signal \in Signal, ApplyFailure(r, signal)
      PROVE  /\ Effect
             /\ request' \in [Requests -> RequestType]
             /\ \A q \in Requests : request'[q].at <= now
             /\ UNCHANGED <<now, probing, worker, stored>>
  BY <1>2, <1>3, <1>4, <1>9 DEF ApplyFailure, Effect, None
<1>. QED
  BY <1>5, <1>6, <1>7, <1>8, <1>9 DEF RequestStep

LEMMA WorkerStepEffect ==
  ASSUME TypeAndClocks, NEW w \in Workers, WorkerStep(w)
  PROVE  /\ Effect
         /\ worker' \in [Workers -> WorkerType]
         /\ \A v \in Workers : worker'[v].at <= now
         /\ probing' \in BOOLEAN
         /\ UNCHANGED <<now, request, stored>>
<1>. DEFINE Goal == /\ Effect
                    /\ worker' \in [Workers -> WorkerType]
                    /\ \A v \in Workers : worker'[v].at <= now
                    /\ probing' \in BOOLEAN
                    /\ UNCHANGED <<now, request, stored>>
<1>1. /\ now \in Nat /\ probing \in BOOLEAN
      /\ worker \in [Workers -> WorkerType]
      /\ \A v \in Workers : worker[v].at \in 0..now
  BY DEF TypeAndClocks, TypeOK, ClocksBehind, WorkerType
<1>2. /\ "idle" \in Place /\ "claimed" \in Place /\ "chainId" \in Place
      /\ "blockNumber" \in Place /\ "passed" \in Place /\ "ending" \in Place
  BY DEF Place
<1>3. 0 \in 0..now /\ now \in 0..now /\ worker[w].at \in 0..now
  BY <1>1
<1>4. ASSUME NEW from, NEW to \in Place, NEW at \in 0..now,
             MoveWorker(w, from, to, at)
      PROVE  /\ worker' \in [Workers -> WorkerType]
             /\ \A v \in Workers : worker'[v].at <= now
  <2>1. at \in Nat /\ at <= now
    BY <1>1
  <2>2. /\ worker' \in [Workers -> WorkerType]
        /\ worker'[w].at = at
        /\ \A v \in Workers : v # w => worker'[v] = worker[v]
    BY <1>1, <1>4, <2>1, MoveWorkerFacts
  <2>. QED
    BY <1>1, <2>1, <2>2
<1>5. CASE ProbeClaim(w)
  BY <1>2, <1>3, <1>4, <1>5 DEF ProbeClaim, Effect, history
<1>6. CASE ProbeRefused(w)
  BY <1>2, <1>3, <1>4, <1>6 DEF ProbeRefused, Effect, history, None
<1>7. CASE ProbeBegins(w)
  <2>1. /\ worker' \in [Workers -> WorkerType]
        /\ \A v \in Workers : worker'[v].at <= now
    BY <1>2, <1>3, <1>4, <1>7 DEF ProbeBegins, None
  <2>2. Effect
    <3>1. CASE health.status = "Cooling"
      <4>1. health.until \in Nat
        BY DEF TypeAndClocks, TypeOK, Health
      <4>2. ~StillCooling(health, now)
        BY <1>1, <1>3, <1>7, <3>1, <4>1 DEF ProbeBegins, StillCooling
      <4>. QED
        BY <1>7, <3>1, <4>2 DEF ProbeBegins, Effect, Begun
    <3>2. CASE health.status # "Cooling"
      <4>1. Forgiven(worker[w].at)
        BY <1>7, <3>2 DEF ProbeBegins, Forgiven
      <4>. QED
        BY <1>3, <4>1 DEF Effect
    <3>. QED
      BY <3>1, <3>2
  <2>. QED
    BY <1>1, <1>7, <2>1, <2>2 DEF ProbeBegins
<1>8. CASE ProbeAsksHeight(w)
  BY <1>1, <1>2, <1>3, <1>4, <1>8 DEF ProbeAsksHeight, Effect, history, None
<1>9. CASE ProbeSkips(w)
  BY <1>1, <1>2, <1>3, <1>4, <1>9 DEF ProbeSkips, Effect, history, None
<1>10. ASSUME NEW signal \in Signal, ProbeFails(w, signal) PROVE Goal
  BY <1>1, <1>2, <1>3, <1>4, <1>10 DEF ProbeFails, Effect, None
<1>11. CASE ProbePasses(w)
  BY <1>1, <1>2, <1>3, <1>4, <1>11 DEF ProbePasses, Effect
<1>12. CASE ProbeLags(w)
  BY <1>1, <1>2, <1>3, <1>4, <1>12, OrdinaryIsSignal
     DEF ProbeLags, Effect, None
<1>13. CASE ProbeKeepsUp(w)
  BY <1>1, <1>2, <1>3, <1>4, <1>13 DEF ProbeKeepsUp, Effect, history, None
<1>14. CASE ProbeEnds(w)
  BY <1>2, <1>3, <1>4, <1>14 DEF ProbeEnds, Effect, history, None
<1>. QED
  BY <1>5, <1>6, <1>7, <1>8, <1>9, <1>10, <1>11, <1>12, <1>13, <1>14
     DEF WorkerStep, OwnStep, CallReturns

LEMMA ObserveEffect ==
  ASSUME TypeAndClocks, Observe
  PROVE  Effect /\ UNCHANGED <<now, probing, request, worker, stored>>
<1>1. now \in 0..now
  BY DEF TypeAndClocks, TypeOK
<1>2. Forgiven(now)
  BY DEF Observe, Forgiven, history
<1>. QED
  BY <1>1, <1>2 DEF Effect, Observe

(* So every step is such an effect, an override or a tick.                 *)
LEMMA StepEffect ==
  ASSUME TypeAndClocks, [Next]_vars
  PROVE  \/ Effect /\ now' = now
         \/ Overrides
         \/ Tick
<1>1. ASSUME NEW r \in Requests, RequestStep(r) PROVE Effect /\ now' = now
  BY <1>1, RequestStepEffect
<1>2. ASSUME NEW w \in Workers, WorkerStep(w) PROVE Effect /\ now' = now
  BY <1>2, WorkerStepEffect
<1>3. CASE Observe
  BY <1>3, ObserveEffect
<1>4. CASE UNCHANGED vars
  BY <1>4 DEF vars, Effect
<1>. QED
  BY <1>1, <1>2, <1>3, <1>4 DEF Next

LEMMA NextTypeAndClocks == TypeAndClocks /\ [Next]_vars => TypeAndClocks'
<1>. SUFFICES ASSUME TypeAndClocks, [Next]_vars PROVE TypeAndClocks'
  OBVIOUS
<1>1. /\ now \in 1..MaxTime /\ now \in Nat /\ probing \in BOOLEAN
      /\ request \in [Requests -> RequestType]
      /\ worker \in [Workers -> WorkerType]
      /\ \A r \in Requests : request[r].at <= now
      /\ \A w \in Workers : worker[w].at <= now
      /\ \A r \in Requests : request[r].at \in Nat
      /\ \A w \in Workers : worker[w].at \in Nat
      /\ stored \in SUBSET Snapshots
  BY DEF TypeAndClocks, TypeOK, ClocksBehind, RequestType, WorkerType
<1>2. TypeOK
  BY DEF TypeAndClocks
<1>. DEFINE Bodies == /\ now' \in 1..MaxTime /\ probing' \in BOOLEAN
                      /\ request' \in [Requests -> RequestType]
                      /\ worker' \in [Workers -> WorkerType]
                      /\ \A r \in Requests : request'[r].at <= now'
                      /\ \A w \in Workers : worker'[w].at <= now'
                      /\ stored' \in SUBSET Snapshots
            Record == /\ health' \in Health
                      /\ streak' \in Nat
                      /\ pause' \in Nat
<1>3. Bodies /\ Record => TypeAndClocks'
  BY DEF TypeAndClocks, TypeOK, ClocksBehind, RequestType, WorkerType
<1>4. ASSUME NEW r \in Requests, RequestStep(r) PROVE Bodies /\ Record
  BY <1>1, <1>2, <1>4, RequestStepEffect, EffectType
<1>5. ASSUME NEW w \in Workers, WorkerStep(w) PROVE Bodies /\ Record
  BY <1>1, <1>2, <1>5, WorkerStepEffect, EffectType
<1>6. CASE Overrides
  <2>1. Record
    BY <1>2, <1>6, OverridesFacts
  <2>2. /\ UNCHANGED <<now, probing, request, worker>>
        /\ stored' \in SUBSET Snapshots
    BY <1>2, <1>6, OverridesFacts
  <2>. QED
    BY <1>1, <1>3, <2>1, <2>2
<1>7. CASE Observe
  BY <1>1, <1>2, <1>3, <1>7, ObserveEffect, EffectType
<1>8. CASE Tick
  <2>1. now' \in 1..MaxTime /\ now' > now
    BY <1>1, <1>8, HealthAssumption DEF Tick
  <2>2. UNCHANGED <<health, probing, request, worker, stored, streak, pause>>
    BY <1>8 DEF Tick, history
  <2>3. Bodies
    BY <1>1, <2>1, <2>2
  <2>4. Record
    BY <1>2, <2>2 DEF TypeOK
  <2>. QED
    BY <1>3, <2>3, <2>4
<1>9. CASE UNCHANGED vars
  BY <1>1, <1>2, <1>3, <1>9 DEF vars, TypeOK
<1>. QED
  BY <1>3, <1>4, <1>5, <1>6, <1>7, <1>8, <1>9 DEF Next

(* Every reachable state has the declared types, whatever the delays, the  *)
(* number of requests and workers and the order of their steps.            *)
THEOREM TypeCorrect == Spec => []TypeOK
<1>1. TypeAndClocks => TypeOK
  BY DEF TypeAndClocks
<1>. QED
  BY <1>1, InitTypeAndClocks, NextTypeAndClocks, PTL DEF Spec

-----------------------------------------------------------------------------
(* A Retry-After is kept.                                                  *)

RetryInvariant == TypeAndClocks /\ RetryAfterHonoured

LEMMA RetryAfterStep == RetryInvariant /\ [Next]_vars => RetryAfterHonoured'
<1>. SUFFICES ASSUME RetryInvariant, [Next]_vars, now' < pause'
              PROVE  health'.status = "Cooling" /\ health'.until >= pause'
  BY DEF RetryAfterHonoured
<1>1. /\ now \in Nat /\ health \in Health /\ health.until \in Nat
      /\ pause \in Nat
      /\ now < pause => health.status = "Cooling" /\ health.until >= pause
  BY DEF RetryInvariant, TypeAndClocks, TypeOK, RetryAfterHonoured, Health
<1>. DEFINE Goal == health'.status = "Cooling" /\ health'.until >= pause'
<1>2. CASE Effect /\ now' = now
  <2>1. CASE UNCHANGED <<health, streak, pause>>
    BY <1>1, <1>2, <2>1
  <2>2. ASSUME NEW t \in 0..now, RecordSuccess(t)
        PROVE  Goal
    <3>1. health' = Succeeded(health, t) /\ pause' = pause
      BY <2>2 DEF RecordSuccess
    <3>2. t \in Nat
      BY <1>1
    <3>. QED
      BY <1>1, <1>2, <3>1, <3>2, SucceededFacts
  <2>3. ASSUME NEW t \in 0..now, NEW signal \in Signal, RecordFailure(t, signal)
        PROVE  Goal
    <3>1. t \in Nat /\ signal.retryAfter \in Nat
      BY <1>1, SignalFacts
    <3>2. /\ health.status = "Cooling" =>
               health'.status = "Cooling" /\ health'.until >= health.until
          /\ signal.retryAfter # 0 =>
               /\ health'.status = "Cooling"
               /\ health'.until >= t + signal.retryAfter
          /\ health'.until \in Nat
      <4>1. health' = Failed(health, t, signal)
        BY <2>3 DEF RecordFailure
      <4>2. health' \in Health
        BY <1>1, <3>1, <4>1, FailedFacts
      <4>3. health'.until \in Nat
        BY <4>2 DEF Health
      <4>. QED
        BY <1>1, <3>1, <4>1, <4>3, FailedFacts
    <3>3. CASE signal.retryAfter = 0
      <4>1. pause' = pause
        BY <2>3, <3>3 DEF RecordFailure
      <4>. QED
        BY <1>1, <1>2, <3>2, <4>1
    <3>4. CASE signal.retryAfter # 0 /\ pause >= t + signal.retryAfter
      <4>1. pause' = pause
        BY <2>3, <3>4 DEF RecordFailure, Larger
      <4>. QED
        BY <1>1, <1>2, <3>2, <4>1
    <3>5. CASE signal.retryAfter # 0 /\ ~(pause >= t + signal.retryAfter)
      <4>1. pause' = t + signal.retryAfter
        BY <2>3, <3>5 DEF RecordFailure, Larger
      <4>. QED
        BY <3>2, <3>5, <4>1
    <3>. QED
      BY <3>3, <3>4, <3>5
  <2>4. CASE Begun
    <3>1. ~(now < pause)
      BY <1>1, <2>4 DEF Begun, StillCooling
    <3>. QED
      BY <1>2, <2>4, <3>1 DEF Begun
  <2>5. ASSUME NEW t \in 0..now, Forgiven(t) PROVE Goal
    <3>1. t \in Nat
      BY <1>1
    <3>2. health' = Decayed(health, t) /\ pause' = pause
      BY <2>5 DEF Forgiven
    <3>. QED
      BY <1>1, <1>2, <3>1, <3>2, DecayedFacts
  <2>. QED
    BY <1>2, <2>1, <2>2, <2>3, <2>4, <2>5 DEF Effect
<1>3. CASE Overrides
  <2>1. pause' = 0 /\ now' = now
    BY <1>3, OverridesFacts DEF RetryInvariant, TypeAndClocks
  <2>. QED
    BY <1>1, <2>1
<1>4. CASE Tick
  <2>1. UNCHANGED <<health, pause>> /\ now' = now + 1
    BY <1>4 DEF Tick, history
  <2>. QED
    BY <1>1, <2>1
<1>. QED
  BY <1>2, <1>3, <1>4, StepEffect DEF RetryInvariant

(* However many requests and probes report, in whatever order and however  *)
(* late, an endpoint stays Cooling at least until the latest instant any   *)
(* answer asked us to wait for, unless an override came since: a command   *)
(* of the administrator, or a stored snapshot restored by a refresh.       *)
THEOREM RetryAfterKept == Spec => []RetryAfterHonoured
<1>1. Init => RetryInvariant
  <2>1. Init => RetryAfterHonoured
    BY DEF Init, RetryAfterHonoured, None
  <2>. QED
    BY <2>1, InitTypeAndClocks DEF RetryInvariant
<1>2. RetryInvariant /\ [Next]_vars => RetryInvariant'
  BY NextTypeAndClocks, RetryAfterStep DEF RetryInvariant
<1>3. RetryInvariant => RetryAfterHonoured
  BY DEF RetryInvariant
<1>. QED
  BY <1>1, <1>2, <1>3, PTL DEF Spec

-----------------------------------------------------------------------------
(* Cooldowns: they end by a probe after the deadline, and cost one strike. *)

(* While the deadline is ahead no step but an override (a command of the   *)
(* administrator, a refresh that restores a stored snapshot) ends a        *)
(* cooldown or brings its deadline forward.                                *)
THEOREM CooldownKept == Spec => CooldownNeverCutShort
<1>1. TypeAndClocks /\ [Next]_vars
        => [StillCooling(health, now) /\ ~Overrides
              => health'.status = "Cooling" /\ health'.until >= health.until]_vars
  <2>. SUFFICES ASSUME TypeAndClocks, [Next]_vars,
                       StillCooling(health, now), ~Overrides
                PROVE  health'.status = "Cooling" /\ health'.until >= health.until
    OBVIOUS
  <2>1. /\ now \in Nat /\ health \in Health /\ health.until \in Nat
        /\ health.status = "Cooling" /\ now < health.until
    BY DEF TypeAndClocks, TypeOK, Health, StillCooling
  <2>. DEFINE Goal == health'.status = "Cooling" /\ health'.until >= health.until
  <2>2. CASE Effect
    <3>1. CASE UNCHANGED <<health, streak, pause>>
      BY <2>1, <3>1
    <3>2. ASSUME NEW t \in 0..now,
                 RecordSuccess(t)
          PROVE  Goal
      <4>1. t \in Nat /\ health' = Succeeded(health, t)
        BY <2>1, <3>2 DEF RecordSuccess
      <4>2. health'.status = "Cooling" /\ health'.until = health.until
        BY <2>1, <4>1, SucceededFacts
      <4>. QED
        BY <2>1, <4>2
    <3>3. ASSUME NEW t \in 0..now, NEW signal \in Signal,
                 RecordFailure(t, signal)
          PROVE  Goal
      <4>1. t \in Nat /\ health' = Failed(health, t, signal)
        BY <2>1, <3>3 DEF RecordFailure
      <4>. QED
        BY <2>1, <4>1, FailedFacts
    <3>4. CASE Begun
      BY <2>1, <3>4 DEF Begun, StillCooling
    <3>5. ASSUME NEW t \in 0..now, Forgiven(t) PROVE Goal
      <4>1. t \in Nat /\ health' = Decayed(health, t)
        BY <2>1, <3>5 DEF Forgiven
      <4>2. health'.status = "Cooling" /\ health'.until = health.until
        BY <2>1, <4>1, DecayedFacts
      <4>. QED
        BY <2>1, <4>2
    <3>. QED
      BY <2>2, <3>1, <3>2, <3>3, <3>4, <3>5 DEF Effect
  <2>3. CASE Tick
    BY <2>1, <2>3 DEF Tick
  <2>. QED
    BY <2>2, <2>3, StepEffect
<1>. QED
  BY <1>1, InitTypeAndClocks, NextTypeAndClocks, PTL
     DEF Spec, CooldownNeverCutShort

(* The failures that report during one cooldown add no strike to it, and   *)
(* strikes are forgiven only while Active; overrides write their own.      *)
THEOREM OneStrike == Spec => OneStrikePerCooling
<1>. DEFINE Kept == health.status = "Cooling" /\ health'.status = "Cooling"
                      => health'.strikes = health.strikes
            Earned == health'.strikes < health.strikes
                      => health.status = "Active"
<1>1. ASSUME TypeAndClocks, [Next]_vars, ~Overrides PROVE Kept /\ Earned
  <2>1. /\ now \in Nat /\ health \in Health /\ health.strikes \in Int
        /\ ~(health.strikes < health.strikes)
    BY <1>1 DEF TypeAndClocks, TypeOK, Health
  <2>2. CASE Effect
    <3>1. CASE UNCHANGED <<health, streak, pause>>
      BY <2>1, <3>1
    <3>2. ASSUME NEW t \in 0..now,
                 RecordSuccess(t)
          PROVE  Kept /\ Earned
      <4>1. t \in Nat
        BY <2>1
      <4>. QED
        BY <2>1, <3>2, <4>1, SucceededFacts DEF RecordSuccess
    <3>3. ASSUME NEW t \in 0..now, NEW signal \in Signal,
                 RecordFailure(t, signal)
          PROVE  Kept /\ Earned
      <4>1. t \in Nat /\ health' = Failed(health, t, signal)
        BY <2>1, <3>3 DEF RecordFailure
      <4>2. /\ health' \in Health
            /\ health.status = "Cooling" => health'.strikes = health.strikes
            /\ health.status # "Active" => health'.strikes >= health.strikes
        BY <2>1, <4>1, FailedFacts
      <4>3. health'.strikes \in Int
        BY <4>2 DEF Health
      <4>. QED
        BY <2>1, <4>2, <4>3
    <3>4. CASE Begun
      BY <2>1, <3>4, OnProbationFacts DEF Begun
    <3>5. ASSUME NEW t \in 0..now, Forgiven(t) PROVE Kept /\ Earned
      <4>1. t \in Nat
        BY <2>1
      <4>. QED
        BY <2>1, <3>5, <4>1, DecayedFacts DEF Forgiven
    <3>. QED
      BY <2>2, <3>1, <3>2, <3>3, <3>4, <3>5 DEF Effect
  <2>3. CASE Tick
    BY <2>1, <2>3 DEF Tick
  <2>. QED
    BY <1>1, <2>2, <2>3, StepEffect
<1>2. TypeAndClocks /\ [Next]_vars
        => [ /\ (health.status = "Cooling" /\ health'.status = "Cooling"
                   /\ ~Overrides => health'.strikes = health.strikes)
             /\ (health'.strikes < health.strikes /\ ~Overrides
                   => health.status = "Active")]_vars
  BY <1>1
<1>. QED
  BY <1>2, InitTypeAndClocks, NextTypeAndClocks, PTL
     DEF Spec, OneStrikePerCooling

-----------------------------------------------------------------------------
(* An endpoint returns to the pool on successes alone.                     *)

PassesInvariant == TypeAndClocks /\ PassesCounted

LEMMA CountUpFacts ==
  ASSUME NEW n \in Nat
  PROVE  /\ CountUp(n) \in Nat
         /\ \A m \in Nat : m <= n /\ m < ProbationPassesRequired
                              => m + 1 <= CountUp(n)
BY HealthAssumption DEF CountUp

(* On probation the passes counted are below the threshold and covered by  *)
(* the successes since the probation began.                                *)
LEMMA PassesStep == PassesInvariant /\ [Next]_vars => PassesCounted'
<1>. SUFFICES ASSUME PassesInvariant, [Next]_vars, health'.status = "Probation"
              PROVE  /\ health'.passes < ProbationPassesRequired
                     /\ health'.passes <= streak'
  BY DEF PassesCounted
<1>1. /\ now \in Nat /\ health \in Health
      /\ health.passes \in Nat /\ streak \in Nat
      /\ ProbationPassesRequired \in Nat /\ 0 < ProbationPassesRequired
      /\ health.status = "Probation" =>
           /\ health.passes < ProbationPassesRequired
           /\ health.passes <= streak
  BY HealthAssumption DEF PassesInvariant, TypeAndClocks, TypeOK,
     PassesCounted, Health
<1>. DEFINE Goal == /\ health'.passes < ProbationPassesRequired
                    /\ health'.passes <= streak'
<1>2. CASE Effect
  <2>1. CASE UNCHANGED <<health, streak, pause>>
    BY <1>1, <2>1
  <2>2. ASSUME NEW t \in 0..now, RecordSuccess(t)
        PROVE  Goal
    <3>1. /\ t \in Nat /\ health' = Succeeded(health, t)
          /\ streak' = CountUp(streak)
      BY <1>1, <2>2 DEF RecordSuccess
    <3>2. health.status = "Probation"
      BY <1>1, <3>1, SucceededFacts
    <3>3. /\ ~(health.passes + 1 >= ProbationPassesRequired)
          /\ health'.passes = health.passes + 1
      BY <1>1, <3>1, <3>2, SucceededFacts
    <3>4. health.passes + 1 <= CountUp(streak)
      BY <1>1, <3>2, CountUpFacts
    <3>. QED
      BY <1>1, <3>1, <3>3, <3>4
  <2>3. ASSUME NEW t \in 0..now, NEW signal \in Signal, RecordFailure(t, signal)
        PROVE  FALSE
    <3>1. t \in Nat /\ health' = Failed(health, t, signal)
      BY <1>1, <2>3 DEF RecordFailure
    <3>. QED
      BY <1>1, <3>1, FailedFacts
  <2>4. CASE Begun
    <3>1. health'.passes = 0 /\ streak' = 0
      BY <1>1, <2>4, OnProbationFacts DEF Begun
    <3>. QED
      BY <1>1, <3>1
  <2>5. ASSUME NEW t \in 0..now, Forgiven(t) PROVE Goal
    <3>1. t \in Nat /\ health' = Decayed(health, t) /\ streak' = streak
      BY <1>1, <2>5 DEF Forgiven
    <3>2. health'.status = health.status /\ health'.passes = health.passes
      BY <1>1, <3>1, DecayedFacts
    <3>. QED
      BY <1>1, <3>1, <3>2
  <2>. QED
    BY <1>2, <2>1, <2>2, <2>3, <2>4, <2>5 DEF Effect
<1>3. CASE Overrides
  <2>1. health'.passes = 0 /\ streak' = 0
    BY <1>3, OverridesFacts DEF PassesInvariant, TypeAndClocks
  <2>. QED
    BY <1>1, <2>1
<1>4. CASE Tick
  BY <1>1, <1>4 DEF Tick, history
<1>. QED
  BY <1>2, <1>3, <1>4, StepEffect DEF PassesInvariant

LEMMA InitPasses == Init => PassesInvariant
<1>1. Init => PassesCounted
  <2>1. ASSUME Init PROVE health.passes = 0 /\ streak = 0
    BY <2>1, InitHealth DEF Init
  <2>. QED
    BY <2>1, HealthAssumption DEF PassesCounted
<1>. QED
  BY <1>1, InitTypeAndClocks DEF PassesInvariant

(* The passes an endpoint on probation is credited with are all successes  *)
(* since the probation began, whatever is recorded between them.           *)
THEOREM PassesAreSuccesses == Spec => []PassesCounted
<1>1. PassesInvariant /\ [Next]_vars => PassesInvariant'
  BY NextTypeAndClocks, PassesStep DEF PassesInvariant
<1>2. PassesInvariant => PassesCounted
  BY DEF PassesInvariant
<1>. QED
  BY <1>1, <1>2, InitPasses, PTL DEF Spec

(* No endpoint becomes Active before the required number of successes was  *)
(* recorded, with no failure, cooldown or reset among them.                *)
THEOREM ReturnEarned == Spec => ReturnIsEarned
<1>2. PassesInvariant /\ [Next]_vars => PassesInvariant'
  BY NextTypeAndClocks, PassesStep DEF PassesInvariant
<1>3. PassesInvariant /\ [Next]_vars
        => [health.status # "Active" /\ health'.status = "Active"
              => streak' >= ProbationPassesRequired]_vars
  <2>. SUFFICES ASSUME PassesInvariant, [Next]_vars,
                       health.status # "Active", health'.status = "Active"
                PROVE  streak' >= ProbationPassesRequired
    OBVIOUS
  <2>1. /\ now \in Nat /\ health \in Health
        /\ health.passes \in Nat /\ streak \in Nat
        /\ ProbationPassesRequired \in Nat
        /\ health.status = "Probation" =>
             /\ health.passes < ProbationPassesRequired
             /\ health.passes <= streak
    BY HealthAssumption DEF PassesInvariant, TypeAndClocks, TypeOK,
       PassesCounted, Health
  <2>2. CASE Effect
    <3>1. ASSUME NEW t \in 0..now,
                 RecordSuccess(t)
          PROVE  streak' >= ProbationPassesRequired
      <4>1. /\ t \in Nat /\ health' = Succeeded(health, t)
            /\ streak' = CountUp(streak)
        BY <2>1, <3>1 DEF RecordSuccess
      <4>2. health.status = "Probation"
        BY <2>1, <4>1, SucceededFacts
      <4>3. health.passes + 1 >= ProbationPassesRequired
        BY <2>1, <4>1, <4>2, SucceededFacts
      <4>4. /\ CountUp(streak) \in Nat
            /\ health.passes + 1 <= CountUp(streak)
        BY <2>1, <4>2, CountUpFacts
      <4>. QED
        BY <2>1, <4>1, <4>3, <4>4
    <3>2. ASSUME NEW t \in 0..now, NEW signal \in Signal,
                 RecordFailure(t, signal)
          PROVE  FALSE
      <4>1. t \in Nat /\ health' = Failed(health, t, signal)
        BY <2>1, <3>2 DEF RecordFailure
      <4>. QED
        BY <2>1, <4>1, FailedFacts
    <3>3. CASE Begun
      BY <2>1, <3>3, OnProbationFacts DEF Begun
    <3>4. ASSUME NEW t \in 0..now, Forgiven(t) PROVE FALSE
      <4>1. t \in Nat /\ health' = Decayed(health, t)
        BY <2>1, <3>4 DEF Forgiven
      <4>. QED
        BY <2>1, <4>1, DecayedFacts
    <3>. QED
      BY <2>2, <3>1, <3>2, <3>3, <3>4 DEF Effect
  <2>3. CASE Overrides
    BY <2>3, OverridesFacts DEF PassesInvariant, TypeAndClocks
  <2>4. CASE Tick
    BY <2>4 DEF Tick
  <2>. QED
    BY <2>2, <2>3, <2>4, StepEffect DEF PassesInvariant
<1>. QED
  BY <1>2, <1>3, InitPasses, PTL DEF Spec, ReturnIsEarned

-----------------------------------------------------------------------------
(* One probe at a time.                                                    *)

SlotInvariant == TypeAndClocks /\ ProbeSlot

Claims(w) == /\ ~probing /\ probing' = TRUE
             /\ worker[w].pc = "idle" /\ worker'[w].pc # "idle"
Keeps(w) == /\ probing' = probing
            /\ worker[w].pc # "idle" /\ worker'[w].pc # "idle"
GivesBack(w) == /\ probing' = FALSE
                /\ worker[w].pc # "idle" /\ worker'[w].pc = "idle"

(* Every step of a worker claims the slot, keeps it or gives it back.      *)
LEMMA WorkerStepSlot ==
  ASSUME TypeAndClocks, NEW w \in Workers, WorkerStep(w)
  PROVE  /\ Claims(w) \/ Keeps(w) \/ GivesBack(w)
         /\ \A v \in Workers : v # w => worker'[v] = worker[v]
<1>. DEFINE Goal == /\ Claims(w) \/ Keeps(w) \/ GivesBack(w)
                    /\ \A v \in Workers : v # w => worker'[v] = worker[v]
<1>1. /\ now \in Nat /\ 0 \in Nat
      /\ worker \in [Workers -> WorkerType] /\ worker[w].at \in Nat
  BY DEF TypeAndClocks, TypeOK, WorkerType
<1>2. /\ "idle" \in Place /\ "claimed" \in Place /\ "chainId" \in Place
      /\ "blockNumber" \in Place /\ "passed" \in Place /\ "ending" \in Place
  BY DEF Place
<1>3. CASE ProbeClaim(w)
  <2>1. MoveWorker(w, "idle", "claimed", now) /\ ~probing /\ probing' = TRUE
    BY <1>3 DEF ProbeClaim
  <2>2. /\ worker[w].pc = "idle" /\ worker'[w].pc = "claimed"
        /\ \A v \in Workers : v # w => worker'[v] = worker[v]
    BY <1>1, <1>2, <2>1, MoveWorkerFacts
  <2>. QED
    BY <2>1, <2>2 DEF Claims
<1>4. CASE ProbeRefused(w)
  BY <1>1, <1>2, <1>4, MoveWorkerFacts DEF ProbeRefused, GivesBack, None
<1>5. CASE ProbeBegins(w)
  BY <1>1, <1>2, <1>5, MoveWorkerFacts DEF ProbeBegins, Keeps, None
<1>6. CASE ProbeAsksHeight(w)
  BY <1>1, <1>2, <1>6, MoveWorkerFacts DEF ProbeAsksHeight, Keeps, None
<1>7. CASE ProbeSkips(w)
  BY <1>1, <1>2, <1>7, MoveWorkerFacts DEF ProbeSkips, Keeps, None
<1>8. ASSUME NEW signal \in Signal, ProbeFails(w, signal) PROVE Goal
  BY <1>1, <1>2, <1>8, MoveWorkerFacts DEF ProbeFails, Keeps, None
<1>9. CASE ProbePasses(w)
  <2>1. MoveWorker(w, "blockNumber", "passed", now) /\ probing' = probing
    BY <1>9 DEF ProbePasses
  <2>2. /\ worker[w].pc = "blockNumber" /\ worker'[w].pc = "passed"
        /\ \A v \in Workers : v # w => worker'[v] = worker[v]
    BY <1>1, <1>2, <2>1, MoveWorkerFacts
  <2>. QED
    BY <2>1, <2>2 DEF Keeps
<1>10. CASE ProbeLags(w)
  <2>1. MoveWorker(w, "passed", "ending", 0) /\ probing' = probing
    BY <1>10 DEF ProbeLags, None
  <2>2. /\ worker[w].pc = "passed" /\ worker'[w].pc = "ending"
        /\ \A v \in Workers : v # w => worker'[v] = worker[v]
    BY <1>1, <1>2, <2>1, MoveWorkerFacts
  <2>. QED
    BY <2>1, <2>2 DEF Keeps
<1>11. CASE ProbeKeepsUp(w)
  <2>1. MoveWorker(w, "passed", "ending", 0) /\ probing' = probing
    BY <1>11 DEF ProbeKeepsUp, None
  <2>2. /\ worker[w].pc = "passed" /\ worker'[w].pc = "ending"
        /\ \A v \in Workers : v # w => worker'[v] = worker[v]
    BY <1>1, <1>2, <2>1, MoveWorkerFacts
  <2>. QED
    BY <2>1, <2>2 DEF Keeps
<1>12. CASE ProbeEnds(w)
  <2>1. MoveWorker(w, "ending", "idle", 0) /\ probing' = FALSE
    BY <1>12 DEF ProbeEnds, None
  <2>2. /\ worker[w].pc = "ending" /\ worker'[w].pc = "idle"
        /\ \A v \in Workers : v # w => worker'[v] = worker[v]
    BY <1>1, <1>2, <2>1, MoveWorkerFacts
  <2>. QED
    BY <2>1, <2>2 DEF GivesBack
<1>. QED
  BY <1>3, <1>4, <1>5, <1>6, <1>7, <1>8, <1>9, <1>10, <1>11, <1>12
     DEF WorkerStep, OwnStep, CallReturns

LEMMA SlotStep == SlotInvariant /\ [Next]_vars => ProbeSlot'
<1>. SUFFICES ASSUME SlotInvariant, [Next]_vars PROVE ProbeSlot'
  OBVIOUS
<1>1. /\ TypeAndClocks
      /\ probing <=> \E w \in Workers : worker[w].pc # "idle"
      /\ \A v, w \in Workers :
           worker[v].pc # "idle" /\ worker[w].pc # "idle" => v = w
  BY DEF SlotInvariant, ProbeSlot
<1>2. CASE UNCHANGED <<probing, worker>>
  BY <1>1, <1>2 DEF ProbeSlot
<1>3. ASSUME NEW r \in Requests, RequestStep(r) PROVE ProbeSlot'
  BY <1>1, <1>2, <1>3, RequestStepEffect
<1>4. ASSUME NEW w \in Workers, WorkerStep(w) PROVE ProbeSlot'
  <2>1. /\ Claims(w) \/ Keeps(w) \/ GivesBack(w)
        /\ \A v \in Workers : v # w => worker'[v] = worker[v]
    BY <1>1, <1>4, WorkerStepSlot
  <2>2. CASE Claims(w)
    BY <1>1, <2>1, <2>2 DEF Claims, ProbeSlot
  <2>3. CASE Keeps(w)
    BY <1>1, <2>1, <2>3 DEF Keeps, ProbeSlot
  <2>4. CASE GivesBack(w)
    BY <1>1, <2>1, <2>4 DEF GivesBack, ProbeSlot
  <2>. QED
    BY <2>1, <2>2, <2>3, <2>4
<1>5. CASE Overrides \/ Observe \/ Tick \/ UNCHANGED vars
  <2>1. UNCHANGED <<probing, worker>>
    BY <1>1, <1>5, OverridesFacts DEF TypeAndClocks, Observe, Tick, vars
  <2>. QED
    BY <1>2, <2>1
<1>. QED
  BY <1>3, <1>4, <1>5 DEF Next

(* The flag admits one probe at a time, whatever the number of workers,    *)
(* and is never left set by a probe that ended or was refused.             *)
THEOREM OneProbeAtATime == Spec => []ProbeSlot
<1>1. Init => SlotInvariant
  <2>1. Init => ProbeSlot
    BY DEF Init, ProbeSlot
  <2>. QED
    BY <2>1, InitTypeAndClocks DEF SlotInvariant
<1>2. SlotInvariant /\ [Next]_vars => SlotInvariant'
  BY NextTypeAndClocks, SlotStep DEF SlotInvariant
<1>3. SlotInvariant => ProbeSlot
  BY DEF SlotInvariant
<1>. QED
  BY <1>1, <1>2, <1>3, PTL DEF Spec

=============================================================================
