----------------------- MODULE DecisionPipelineProofs -----------------------
(***************************************************************************)
(* The gates of the decision pipeline hold for every strategy evaluator,   *)
(* every risk evaluator, every resolver and every set of reason codes.     *)
(***************************************************************************)
EXTENDS DecisionPipeline, TLAPS

\* None is no conflict block.
LEMMA NullNotBlocked == NULL # Blocked(Conflict)
  <1>1. Blocked(Conflict) \in Finals
    BY DEF Blocked, Finals
  <1> QED
    BY <1>1, NullAssumption

\* What the three properties of the final decision say.
FinalInv == SignalPassedEveryGate /\ ConflictBlocks /\ ConflictReal

LEMMA NoFinal == ASSUME final' = NULL PROVE FinalInv'
  BY NullNotBlocked
     DEF FinalInv, SignalPassedEveryGate, ConflictBlocks, ConflictReal, Blocked

\* While a call runs there is no final decision.
LEMMA Running == ASSUME PipelineInv, pc # "ready" PROVE final = NULL
  BY DEF PipelineInv

LEMMA CallInv == ASSUME PipelineInv, Call PROVE PipelineInv'
  <1> USE DEF Call, Directions
  <1>1. TypeOK'
    BY DEF PipelineInv, TypeOK, Steps
  <1>2. SidesInv' /\ ConflictInv'
    BY DEF SidesInv, ConflictInv
  <1>3. FinalInv' /\ (final # NULL => pc = "ready")'
    BY NoFinal
  <1> QED
    BY <1>1, <1>2, <1>3 DEF PipelineInv, FinalInv

LEMMA RaiseInv == ASSUME PipelineInv, pc # "ready", Raise PROVE PipelineInv'
  <1>1. TypeOK'
    BY DEF PipelineInv, Raise, TypeOK, Steps
  <1>2. SidesInv' /\ ConflictInv'
    BY DEF PipelineInv, Raise, SidesInv, ConflictInv, Directions, IsSignal
  <1>3. FinalInv' /\ (final # NULL => pc = "ready")'
    BY Running, NoFinal DEF Raise
  <1> QED
    BY <1>1, <1>2, <1>3 DEF PipelineInv, FinalInv

LEMMA EvaluateInv ==
    ASSUME PipelineInv, NEW d \in Directions, EvaluateSide(d) PROVE PipelineInv'
  <1> DEFINE Answers == [direction : Directions, eligible : BOOLEAN,
                         reason_code : StrategyCodes]
             Side(a) == [direction   |-> d,
                         status      |-> IF a.eligible THEN "SIGNAL" ELSE "BLOCKED",
                         reason_code |-> a.reason_code]
  <1>0. pc = d /\ pc # "ready" /\ final = NULL
    BY Running DEF EvaluateSide, Directions
  <1>1. PICK a \in Answers :
           \/ Raise
           \/ /\ decision' = [decision EXCEPT ![d] = Side(a)]
              /\ eligible' = [eligible EXCEPT ![d] = a.eligible]
              /\ pc' = IF d = "LONG" THEN "SHORT" ELSE "conflict"
              /\ UNCHANGED <<context, blocking, final, allowed>>
    BY DEF EvaluateSide
  <1>2. CASE Raise
    BY <1>0, <1>2, RaiseInv
  <1>3. CASE /\ decision' = [decision EXCEPT ![d] = Side(a)]
             /\ eligible' = [eligible EXCEPT ![d] = a.eligible]
             /\ pc' = IF d = "LONG" THEN "SHORT" ELSE "conflict"
             /\ UNCHANGED <<context, blocking, final, allowed>>
    <2>1. /\ Side(a) \in SideDecision
          /\ Side(a).direction = d
          /\ Side(a).status = "SIGNAL" <=> a.eligible
          /\ Side(a).reason_code # Conflict
      BY PipelineAssumption DEF SideDecision, AllCodes
    <2>2. Side(a) # NULL
      BY <2>1, NullAssumption
    <2> HIDE DEF Side
    <2>3. TypeOK'
      BY <1>3, <2>1 DEF PipelineInv, TypeOK, Steps, Directions
    <2>4. SidesInv'
      BY <1>0, <1>3, <2>1, <2>2 DEF PipelineInv, TypeOK, SidesInv, IsSignal, Directions
    <2>5. ConflictInv'
      BY <1>0, <1>3, <2>1, <2>2 DEF PipelineInv, TypeOK, ConflictInv, IsSignal, Directions
    <2>6. FinalInv' /\ (final # NULL => pc = "ready")'
      BY <1>0, <1>3, NoFinal
    <2> QED
      BY <2>3, <2>4, <2>5, <2>6 DEF PipelineInv, FinalInv
  <1> QED
    BY <1>1, <1>2, <1>3

LEMMA ConflictGateInv == ASSUME PipelineInv, ConflictGate PROVE PipelineInv'
  <1>0. pc = "conflict" /\ final = NULL
    BY Running DEF ConflictGate
  <1>1. CASE IsSignal("LONG") /\ IsSignal("SHORT")
    <2>1. PICK a \in Resolutions :
             \/ Raise
             \/ /\ \A d \in Directions : a[d].direction = d
                /\ decision' = a
                /\ pc' = "risk LONG"
                /\ UNCHANGED <<context, blocking, final, eligible, allowed>>
      BY <1>1 DEF ConflictGate
    <2>2. CASE Raise
      BY <1>0, <2>2, RaiseInv
    <2>3. CASE /\ \A d \in Directions : a[d].direction = d
               /\ decision' = a
               /\ pc' = "risk LONG"
               /\ UNCHANGED <<context, blocking, final, eligible, allowed>>
      <3>1. eligible["LONG"] /\ eligible["SHORT"]
        BY <1>0, <1>1 DEF PipelineInv, SidesInv, Directions
      <3>2. a \in [Directions -> SideDecision]
        BY DEF Resolutions, SideDecision, AllCodes, Directions
      <3>3. blocking => \A d \in Directions :
               a[d] = [direction   |-> d, status |-> "BLOCKED", reason_code |-> Conflict]
        BY DEF Resolutions
      <3>4. \A d \in Directions : a[d] # NULL
        BY <3>2, NullAssumption
      <3>5. TypeOK'
        BY <2>3, <3>2 DEF PipelineInv, TypeOK, Steps
      <3>6. SidesInv'
        BY <2>3, <3>1, <3>4 DEF SidesInv, IsSignal, Directions
      <3>7. ConflictInv'
        <4>1. blocking => ~(a["LONG"].status = "SIGNAL")
          BY <3>3 DEF Directions
        <4>2. blocking \in BOOLEAN
          BY DEF PipelineInv, TypeOK
        <4> QED
          BY <2>3, <3>1, <3>3, <4>1, <4>2 DEF ConflictInv, IsSignal, Directions
      <3>8. FinalInv' /\ (final # NULL => pc = "ready")'
        BY <1>0, <2>3, NoFinal
      <3> QED
        BY <3>5, <3>6, <3>7, <3>8 DEF PipelineInv, FinalInv
    <2> QED
      BY <2>1, <2>2, <2>3
  <1>2. CASE ~(IsSignal("LONG") /\ IsSignal("SHORT"))
    <2>1. pc' = "risk LONG" /\ UNCHANGED <<context, blocking, decision, final, eligible, allowed>>
      BY <1>2 DEF ConflictGate
    <2>2. TypeOK'
      BY <2>1 DEF PipelineInv, TypeOK, Steps
    <2>3. SidesInv'
      BY <1>0, <2>1 DEF PipelineInv, SidesInv, IsSignal
    <2>4. ConflictInv'
      BY <1>0, <1>2, <2>1 DEF PipelineInv, SidesInv, ConflictInv, IsSignal, Directions
    <2>5. FinalInv' /\ (final # NULL => pc = "ready")'
      BY <1>0, <2>1, NoFinal
    <2> QED
      BY <2>2, <2>3, <2>4, <2>5 DEF PipelineInv, FinalInv
  <1> QED
    BY <1>1, <1>2

LEMMA RiskGateInv ==
    ASSUME PipelineInv, NEW d \in Directions, RiskGate(d) PROVE PipelineInv'
  <1> DEFINE Side(a) == [direction   |-> d,
                         status      |-> IF a.allowed THEN "SIGNAL" ELSE "BLOCKED",
                         reason_code |-> a.reason_code]
  <1>0. /\ pc = RiskStep(d) /\ pc # "ready" /\ final = NULL
        /\ \A e \in Directions : decision[e] # NULL
    <2>1. pc = RiskStep(d)
      BY DEF RiskGate
    <2>2. pc \in {"risk LONG", "risk SHORT"}
      BY <2>1 DEF RiskStep
    <2> QED
      BY <2>1, <2>2, Running DEF PipelineInv, SidesInv
  <1>1. CASE ~IsSignal(d)
    <2>1. pc' = AfterRisk(d) /\ UNCHANGED <<context, blocking, decision, final, eligible, allowed>>
      BY <1>1 DEF RiskGate
    <2>2. TypeOK'
      BY <2>1 DEF PipelineInv, TypeOK, Steps, AfterRisk
    <2>3. SidesInv'
      BY <1>0, <1>1, <2>1
         DEF PipelineInv, SidesInv, IsSignal, Directions, RiskStep, AfterRisk
    <2>4. ConflictInv'
      BY <1>0, <2>1 DEF PipelineInv, ConflictInv, IsSignal, Directions, RiskStep, AfterRisk
    <2>5. FinalInv' /\ (final # NULL => pc = "ready")'
      BY <1>0, <2>1, NoFinal
    <2> QED
      BY <2>2, <2>3, <2>4, <2>5 DEF PipelineInv, FinalInv
  <1>2. CASE IsSignal(d)
    <2>1. PICK a \in RiskEvaluations(d) :
             \/ Raise
             \/ /\ decision' = [decision EXCEPT ![d] = Side(a)]
                /\ allowed' = [allowed EXCEPT ![d] = a.allowed]
                /\ pc' = AfterRisk(d)
                /\ UNCHANGED <<context, blocking, final, eligible>>
      BY <1>2 DEF RiskGate
    <2>2. CASE Raise
      BY <1>0, <2>2, RaiseInv
    <2>3. CASE /\ decision' = [decision EXCEPT ![d] = Side(a)]
               /\ allowed' = [allowed EXCEPT ![d] = a.allowed]
               /\ pc' = AfterRisk(d)
               /\ UNCHANGED <<context, blocking, final, eligible>>
      <3>1. a.allowed \in BOOLEAN /\ a.reason_code \in AllCodes
        <4>1. CASE a = PolicyV1(context, d)
          <5>1. CASE context.reference_time > context.decision_time
            BY <4>1, <5>1 DEF PolicyV1, AllCodes
          <5>2. CASE ~(context.reference_time > context.decision_time)
            BY <4>1, <5>2 DEF PolicyV1, AllCodes
          <5> QED
            BY <5>1, <5>2
        <4>2. CASE a \in [direction : Directions, allowed : BOOLEAN, reason_code : Codes]
          BY <4>2 DEF AllCodes
        <4> QED
          BY <4>1, <4>2 DEF RiskEvaluations
      <3>2. /\ Side(a) \in SideDecision
            /\ Side(a).direction = d
            /\ Side(a).status = "SIGNAL" <=> a.allowed
        BY <3>1 DEF SideDecision
      <3>3. Side(a) # NULL
        BY <3>2, NullAssumption
      <3>4. eligible[d]
        BY <1>0, <1>2 DEF PipelineInv, SidesInv
      <3> HIDE DEF Side
      <3>5. TypeOK'
        BY <2>3, <3>1, <3>2 DEF PipelineInv, TypeOK, Steps, AfterRisk
      <3>6. SidesInv'
        BY <1>0, <2>3, <3>2, <3>3, <3>4
           DEF PipelineInv, TypeOK, SidesInv, IsSignal, Directions, RiskStep, AfterRisk
      <3>7. ConflictInv'
        <4>1. decision \in [Directions -> SideDecision \cup {NULL}]
          BY DEF PipelineInv, TypeOK
        <4>2. ~(blocking /\ eligible["LONG"] /\ eligible["SHORT"])
          <5>1. SUFFICES ASSUME blocking, eligible["LONG"], eligible["SHORT"]
                         PROVE  FALSE
            BY <5>1
          <5>2. pc \in {"risk LONG", "risk SHORT"}
            BY <1>0 DEF RiskStep
          <5>3. decision[d] = [direction |-> d, status |-> "BLOCKED", reason_code |-> Conflict]
            BY <5>1, <5>2 DEF PipelineInv, ConflictInv
          <5> QED
            BY <1>2, <5>3 DEF IsSignal
        <4>3. \A e \in Directions : e # d => decision'[e] = decision[e]
          BY <2>3, <4>1
        <4>4. decision'[d] = Side(a)
          BY <2>3, <4>1
        <4>5. (IsSignal("LONG") /\ IsSignal("SHORT"))' =>
                  IsSignal("LONG") /\ IsSignal("SHORT")
          BY <1>2, <4>3 DEF IsSignal, Directions
        <4> QED
          BY <1>0, <2>3, <3>4, <4>2, <4>3, <4>4, <4>5
             DEF PipelineInv, ConflictInv, Directions, RiskStep, AfterRisk
      <3>8. FinalInv' /\ (final # NULL => pc = "ready")'
        BY <1>0, <2>3, NoFinal
      <3> QED
        BY <3>5, <3>6, <3>7, <3>8 DEF PipelineInv, FinalInv
    <2> QED
      BY <2>1, <2>2, <2>3
  <1> QED
    BY <1>1, <1>2

LEMMA ResolveInv == ASSUME PipelineInv, ResolveFinal PROVE PipelineInv'
  <1> DEFINE l == decision["LONG"]
             s == decision["SHORT"]
  <1>1. /\ pc = "resolve" /\ pc' = "ready"
        /\ final' = FinalDecision(l, s)
        /\ UNCHANGED <<context, blocking, decision, eligible, allowed>>
    BY DEF ResolveFinal
  <1>2. l \in SideDecision /\ s \in SideDecision
    BY <1>1 DEF PipelineInv, TypeOK, SidesInv, Directions
  <1>3. /\ l.direction = "LONG" /\ s.direction = "SHORT"
        /\ l.status = "SIGNAL" => eligible["LONG"] /\ allowed["LONG"]
        /\ s.status = "SIGNAL" => eligible["SHORT"] /\ allowed["SHORT"]
    BY <1>1 DEF PipelineInv, SidesInv, IsSignal, Directions
  <1>4. /\ l.reason_code = Conflict => eligible["LONG"]
        /\ s.reason_code = Conflict => eligible["SHORT"]
    BY <1>1 DEF PipelineInv, SidesInv, ConflictInv, Directions
  <1>5. FinalDecision(l, s) \in Finals
    BY <1>2 DEF FinalDecision, Signal, Blocked, Finals, SideDecision
  <1>6. TypeOK'
    BY <1>1, <1>5 DEF PipelineInv, TypeOK, Steps
  <1>7. SidesInv' /\ ConflictInv'
    BY <1>1 DEF PipelineInv, SidesInv, ConflictInv, IsSignal, Directions
  <1>8. SignalPassedEveryGate'
    BY <1>1, <1>3
       DEF SignalPassedEveryGate, FinalDecision, Signal, Blocked, IsSignal, Other
  <1>9. ConflictReal'
    <2>1. CASE l.status = "SIGNAL" /\ s.status = "SIGNAL"
      BY <1>1, <1>3, <2>1 DEF ConflictReal
    <2>2. CASE l.status # "SIGNAL" /\ s.status # "SIGNAL"
      BY <1>1, <1>4, <2>2 DEF ConflictReal, FinalDecision, Blocked, Conflict
    <2>3. CASE (l.status = "SIGNAL") # (s.status = "SIGNAL")
      <3>1. FinalDecision(l, s).status = "SIGNAL"
        BY <2>3 DEF FinalDecision, Signal
      <3>2. Blocked(Conflict).status = "BLOCKED"
        BY DEF Blocked
      <3> QED
        BY <1>1, <3>1, <3>2 DEF ConflictReal, Blocked
    <2> QED
      BY <2>1, <2>2, <2>3
  <1>10. ConflictBlocks'
    <2>1. ASSUME blocking, eligible["LONG"], eligible["SHORT"]
          PROVE  FinalDecision(l, s) = Blocked(Conflict)
      <3>1. /\ l.status = "BLOCKED" /\ l.reason_code = Conflict
            /\ s.status = "BLOCKED" /\ s.reason_code = Conflict
        BY <1>1, <2>1 DEF PipelineInv, ConflictInv, Directions
      <3> QED
        BY <3>1 DEF FinalDecision
    <2> QED
      BY <1>1, <2>1 DEF ConflictBlocks, Blocked
  <1> QED
    BY <1>1, <1>6, <1>7, <1>8, <1>9, <1>10 DEF PipelineInv

LEMMA PipelineStep == PipelineInv /\ [Next]_vars => PipelineInv'
  <1> SUFFICES ASSUME PipelineInv, [Next]_vars PROVE PipelineInv'
    OBVIOUS
  <1>1. CASE UNCHANGED vars
    BY <1>1 DEF vars, PipelineInv, TypeOK, SidesInv, ConflictInv, IsSignal,
                SignalPassedEveryGate, ConflictBlocks, ConflictReal, Blocked
  <1> QED
    BY <1>1, CallInv, EvaluateInv, ConflictGateInv, RiskGateInv, ResolveInv DEF Next

\* The invariant of the pipeline holds throughout every call.
THEOREM PipelineInvHolds == Spec => []PipelineInv
  <1>1. Init => PipelineInv
    <2>1. Init => TypeOK
      BY DEF Init, TypeOK, Steps
    <2>2. Init => SidesInv /\ ConflictInv
      BY DEF Init, SidesInv, ConflictInv, Directions
    <2>3. Init => SignalPassedEveryGate /\ ConflictBlocks /\ ConflictReal
      BY NullNotBlocked DEF Init, SignalPassedEveryGate, ConflictBlocks, ConflictReal
    <2> QED
      BY <2>1, <2>2, <2>3 DEF Init, PipelineInv
  <1> QED
    BY <1>1, PipelineStep, PTL DEF Spec

\* A SIGNAL leaves evaluate_final_decision only if its own strategy was
\* eligible and its own risk evaluator allowed it, whatever is injected.
THEOREM SignalsPassEveryGate == Spec => []SignalPassedEveryGate
  BY PipelineInvHolds, PTL DEF PipelineInv

\* BlockOnConflictResolver blocks both sides to the end.
THEOREM ConflictsBlock == Spec => []ConflictBlocks
  BY PipelineInvHolds, PTL DEF PipelineInv

\* A reported conflict was one.
THEOREM ConflictsReal == Spec => []ConflictReal
  BY PipelineInvHolds, PTL DEF PipelineInv

\* resolve_final_decision looks at long first, and yet prefers no direction.
THEOREM NeitherDirectionPreferred == Spec => []NoDirectionPriority
  <1>1. PipelineInv => NoDirectionPriority
    <2> SUFFICES ASSUME PipelineInv, pc = "resolve"
                 PROVE  LET l == decision["LONG"]
                            s == decision["SHORT"]
                            f == FinalDecision(l, s)
                        IN  FinalDecision(Mirror(s), Mirror(l)) =
                               IF f.status = "SIGNAL" THEN Mirror(f) ELSE f
      BY DEF NoDirectionPriority
    <2> DEFINE l == decision["LONG"]
               s == decision["SHORT"]
    <2>1. /\ l \in SideDecision /\ s \in SideDecision
          /\ l.direction = "LONG" /\ s.direction = "SHORT"
      BY NullAssumption DEF PipelineInv, TypeOK, SidesInv, Directions
    <2>2. /\ Mirror(l).status = l.status /\ Mirror(l).reason_code = l.reason_code
          /\ Mirror(s).status = s.status /\ Mirror(s).reason_code = s.reason_code
          /\ Mirror(l).direction = "SHORT" /\ Mirror(s).direction = "LONG"
      BY <2>1 DEF Mirror, SideDecision, Other
    <2>3. CASE l.status = "SIGNAL" /\ s.status # "SIGNAL"
      BY <2>1, <2>2, <2>3 DEF FinalDecision, Signal, Mirror, Other
    <2>4. CASE l.status # "SIGNAL" /\ s.status = "SIGNAL"
      BY <2>1, <2>2, <2>4 DEF FinalDecision, Signal, Mirror, Other
    <2>5. CASE (l.status = "SIGNAL") = (s.status = "SIGNAL")
      BY <2>1, <2>2, <2>5 DEF FinalDecision, Blocked
    <2> QED
      BY <2>3, <2>4, <2>5
  <1> QED
    BY <1>1, PipelineInvHolds, PTL
=============================================================================
