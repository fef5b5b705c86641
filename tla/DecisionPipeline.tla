-------------------------- MODULE DecisionPipeline --------------------------
(***************************************************************************)
(* evaluate_final_decision (src/src/tabdeal_signal/decision/pipeline.py):  *)
(* the LONG and the SHORT strategy result go through the conflict gate     *)
(* (strategy/conflict.py), each through the risk gate (risk/gate.py), and  *)
(* are resolved into one final decision (decision/final.py).               *)
(*                                                                         *)
(* The strategy evaluators, the conflict resolver and the risk evaluators  *)
(* are injected: they may answer anything their types allow, also for the  *)
(* wrong direction, and differently in every call.                         *)
(***************************************************************************)
EXTENDS Integers

CONSTANTS
    StrategyCodes,       \* reason codes of the strategy evaluators
    Codes,               \* reason codes of resolvers and risk evaluators
    Times,
    NULL                 \* None

Conflict == "CONFLICT_BOTH_DIRECTIONS"

ASSUME PipelineAssumption == Conflict \notin StrategyCodes

VARIABLES
    pc,          \* the call's next step
    context,     \* its DecisionContext
    blocking,    \* its resolver is BlockOnConflictResolver
    decision,    \* direction -> the side decision as it is now, or NULL
    final,       \* the FinalDecision of a call that returned
    eligible,    \* history: direction -> what the strategy evaluator said
    allowed      \* history: direction -> what the risk evaluator said

vars == <<pc, context, blocking, decision, final, eligible, allowed>>

Directions == {"LONG", "SHORT"}

Other(d) == IF d = "LONG" THEN "SHORT" ELSE "LONG"

AllCodes == StrategyCodes \cup Codes \cup
    {Conflict, "RISK_POLICY_ACCEPTED", "RISK_POLICY_INVALID_CONTEXT"}

SideDecision == [direction : Directions, status : {"SIGNAL", "BLOCKED"},
                 reason_code : AllCodes]

\* FinalDecision; a SIGNAL's direction and reason are those of its
\* SignalDecision.
Finals == [status : {"SIGNAL"}, direction : Directions, reason_code : AllCodes]
    \cup  [status : {"BLOCKED"}, reason_code : {Conflict, "NO_SIGNAL"}]

\* DecisionContext refuses a reference time after the decision time.
DecisionContext == {c \in [reference_time : Times, decision_time : Times] :
                       c.reference_time <= c.decision_time}

Steps == {"ready", "LONG", "SHORT", "conflict", "risk LONG", "risk SHORT", "resolve"}

ASSUME NullAssumption == NULL \notin SideDecision /\ NULL \notin Finals

TypeOK ==
    /\ pc \in Steps
    /\ context \in DecisionContext
    /\ blocking \in BOOLEAN
    /\ decision \in [Directions -> SideDecision \cup {NULL}]
    /\ final \in Finals \cup {NULL}
    /\ eligible \in [Directions -> BOOLEAN]
    /\ allowed \in [Directions -> BOOLEAN]

IsSignal(d) == decision[d].status = "SIGNAL"

----------------------------------------------------------------------------
Init ==
    /\ pc = "ready"
    /\ context \in DecisionContext
    /\ blocking \in BOOLEAN
    /\ decision = [d \in Directions |-> NULL]
    /\ final = NULL
    /\ eligible = [d \in Directions |-> FALSE]
    /\ allowed = [d \in Directions |-> FALSE]

\* A new call.  One whose snapshot is not the context's raises at once and
\* is not a step.
Call ==
    /\ pc = "ready"
    /\ pc' = "LONG"
    /\ context' \in DecisionContext
    /\ blocking' \in BOOLEAN
    /\ decision' = [d \in Directions |-> NULL]
    /\ final' = NULL
    /\ eligible' = [d \in Directions |-> FALSE]
    /\ allowed' = [d \in Directions |-> FALSE]

\* An exception leaves evaluate_final_decision: no decision.
Raise ==
    /\ pc' = "ready"
    /\ UNCHANGED <<context, blocking, decision, final, eligible, allowed>>

\* evaluate_long and evaluate_short, with to_side_decision.
EvaluateSide(d) ==
    /\ pc = d
    /\ \E answer \in [direction : Directions, eligible : BOOLEAN,
                      reason_code : StrategyCodes] :
          IF answer.direction # d THEN Raise
          ELSE /\ decision' = [decision EXCEPT ![d] =
                     [direction   |-> d,
                      status      |-> IF answer.eligible THEN "SIGNAL" ELSE "BLOCKED",
                      reason_code |-> answer.reason_code]]
               /\ eligible' = [eligible EXCEPT ![d] = answer.eligible]
               /\ pc' = IF d = "LONG" THEN "SHORT" ELSE "conflict"
               /\ UNCHANGED <<context, blocking, final, allowed>>

\* What the resolver may return for the two sides.
Resolutions ==
    IF blocking
    THEN {[d \in Directions |-> [direction   |-> d,
                                 status      |-> "BLOCKED",
                                 reason_code |-> Conflict]]}
    ELSE [Directions -> SideDecision]

\* Mutant of ConflictGate: the resolver is asked in every case.
ConflictGateAlways ==
    /\ pc = "conflict"
    /\ \E answer \in Resolutions :
          IF \E d \in Directions : answer[d].direction # d THEN Raise
          ELSE /\ decision' = answer
               /\ pc' = "risk LONG"
               /\ UNCHANGED <<context, blocking, final, eligible, allowed>>

\* apply_conflict_gate
ConflictGate ==
    /\ pc = "conflict"
    /\ IF IsSignal("LONG") /\ IsSignal("SHORT")
       THEN \E answer \in Resolutions :
               IF \E d \in Directions : answer[d].direction # d THEN Raise
               ELSE /\ decision' = answer
                    /\ pc' = "risk LONG"
                    /\ UNCHANGED <<context, blocking, final, eligible, allowed>>
       ELSE /\ pc' = "risk LONG"
            /\ UNCHANGED <<context, blocking, decision, final, eligible, allowed>>

\* SignalSafetyRiskPolicyV1.evaluate on a SIGNAL.
PolicyV1(c, d) ==
    IF c.reference_time > c.decision_time
    THEN [direction |-> d, allowed |-> FALSE,
          reason_code |-> "RISK_POLICY_INVALID_CONTEXT"]
    ELSE [direction |-> d, allowed |-> TRUE, reason_code |-> "RISK_POLICY_ACCEPTED"]

\* The answer of this or any other risk evaluator.
RiskEvaluations(d) ==
    {PolicyV1(context, d)}
      \cup [direction : Directions, allowed : BOOLEAN, reason_code : Codes]

RiskStep(d) == IF d = "LONG" THEN "risk LONG" ELSE "risk SHORT"

AfterRisk(d) == IF d = "LONG" THEN "risk SHORT" ELSE "resolve"

\* Mutant of RiskGate: a side that is blocked is evaluated too.
RiskGateUnguarded(d) ==
    /\ pc = RiskStep(d)
    /\ \E answer \in RiskEvaluations(d) :
          IF answer.direction # d THEN Raise
          ELSE /\ decision' = [decision EXCEPT ![d] =
                     [direction   |-> d,
                      status      |-> IF answer.allowed THEN "SIGNAL" ELSE "BLOCKED",
                      reason_code |-> answer.reason_code]]
               /\ allowed' = [allowed EXCEPT ![d] = answer.allowed]
               /\ pc' = AfterRisk(d)
               /\ UNCHANGED <<context, blocking, final, eligible>>

\* apply_risk_gate, with RiskEvaluation.to_side_decision.
RiskGate(d) ==
    /\ pc = RiskStep(d)
    /\ IF ~IsSignal(d)
       THEN /\ pc' = AfterRisk(d)
            /\ UNCHANGED <<context, blocking, decision, final, eligible, allowed>>
       ELSE \E answer \in RiskEvaluations(d) :
               IF answer.direction # d THEN Raise
               ELSE /\ decision' = [decision EXCEPT ![d] =
                          [direction   |-> d,
                           status      |-> IF answer.allowed THEN "SIGNAL" ELSE "BLOCKED",
                           reason_code |-> answer.reason_code]]
                    /\ allowed' = [allowed EXCEPT ![d] = answer.allowed]
                    /\ pc' = AfterRisk(d)
                    /\ UNCHANGED <<context, blocking, final, eligible>>

Signal(side) == [status |-> "SIGNAL", direction |-> side.direction,
                 reason_code |-> side.reason_code]

Blocked(code) == [status |-> "BLOCKED", reason_code |-> code]

\* Mutant of FinalDecision: the first side that signals is selected.
FinalDecisionFirst(long, short) ==
    IF long.status = "SIGNAL" THEN Signal(long)
    ELSE IF short.status = "SIGNAL" THEN Signal(short)
    ELSE IF long.reason_code = Conflict /\ short.reason_code = Conflict
    THEN Blocked(Conflict)
    ELSE Blocked("NO_SIGNAL")

\* Mutant of FinalDecision: one side's conflict code is enough.
FinalDecisionEither(long, short) ==
    IF long.status = "SIGNAL" /\ short.status = "SIGNAL" THEN Blocked(Conflict)
    ELSE IF long.status = "SIGNAL" THEN Signal(long)
    ELSE IF short.status = "SIGNAL" THEN Signal(short)
    ELSE IF long.reason_code = Conflict THEN Blocked(Conflict)
    ELSE Blocked("NO_SIGNAL")

\* resolve_final_decision
FinalDecision(long, short) ==
    IF long.status = "SIGNAL" /\ short.status = "SIGNAL" THEN Blocked(Conflict)
    ELSE IF long.status = "SIGNAL" THEN Signal(long)
    ELSE IF short.status = "SIGNAL" THEN Signal(short)
    ELSE IF long.reason_code = Conflict /\ short.reason_code = Conflict
    THEN Blocked(Conflict)
    ELSE Blocked("NO_SIGNAL")

ResolveFinal ==
    /\ pc = "resolve"
    /\ final' = FinalDecision(decision["LONG"], decision["SHORT"])
    /\ pc' = "ready"
    /\ UNCHANGED <<context, blocking, decision, eligible, allowed>>

Next ==
    \/ Call
    \/ \E d \in Directions : EvaluateSide(d)
    \/ ConflictGate
    \/ \E d \in Directions : RiskGate(d)
    \/ ResolveFinal

Spec == Init /\ [][Next]_vars

----------------------------------------------------------------------------
(***************************************************************************)
(* Properties.                                                             *)
(***************************************************************************)
\* Fail closed: a SIGNAL was eligible for its own strategy and was allowed
\* by its own risk evaluator, in this call, and the other side does not
\* signal.  No resolver and no risk evaluator can make a signal out of a side
\* that was blocked before it.
SignalPassedEveryGate ==
    final # NULL /\ final.status = "SIGNAL" =>
        /\ eligible[final.direction]
        /\ allowed[final.direction]
        /\ ~IsSignal(Other(final.direction))

\* With the repository's resolver, two eligible sides give the conflict
\* block and nothing else, whatever the risk evaluators say.
ConflictBlocks ==
    blocking /\ final # NULL /\ eligible["LONG"] /\ eligible["SHORT"] =>
        final = Blocked(Conflict)

\* The final reason tells the truth: a conflict is reported only if both
\* strategies were eligible in this call.
ConflictReal ==
    final = Blocked(Conflict) => eligible["LONG"] /\ eligible["SHORT"]

Mirror(x) == [x EXCEPT !.direction = Other(@)]

\* "without inventing direction priority": with the sides exchanged, the
\* final decision is the same with the direction exchanged.
NoDirectionPriority ==
    pc = "resolve" =>
        LET l == decision["LONG"]
            s == decision["SHORT"]
            f == FinalDecision(l, s)
        IN  FinalDecision(Mirror(s), Mirror(l)) =
               IF f.status = "SIGNAL" THEN Mirror(f) ELSE f

----------------------------------------------------------------------------
(***************************************************************************)
(* The inductive invariant behind the first three.                         *)
(***************************************************************************)
\* The sides decided so far, and what a side that signals has behind it.
SidesInv ==
    /\ pc = "SHORT" => decision["LONG"] # NULL
    /\ pc \in {"conflict", "risk LONG", "risk SHORT", "resolve"} =>
          \A d \in Directions : decision[d] # NULL
    /\ \A d \in Directions : decision[d] # NULL =>
          /\ decision[d].direction = d
          /\ IsSignal(d) => eligible[d]
          /\ pc \in {"LONG", "SHORT", "conflict"} => (eligible[d] => IsSignal(d))
    /\ pc \in {"risk SHORT", "resolve"} /\ IsSignal("LONG") => allowed["LONG"]
    /\ pc = "resolve" /\ IsSignal("SHORT") => allowed["SHORT"]

\* What is known of conflicts on the way to the final decision.
ConflictInv ==
    /\ pc \in {"risk LONG", "risk SHORT", "resolve"} =>
          /\ IsSignal("LONG") /\ IsSignal("SHORT") => ~blocking
          /\ blocking /\ eligible["LONG"] /\ eligible["SHORT"] =>
                \A d \in Directions : decision[d] = [direction   |-> d,
                                                     status      |-> "BLOCKED",
                                                     reason_code |-> Conflict]
    /\ \A d \in Directions : decision[d] # NULL /\ decision[d].reason_code = Conflict =>
          eligible[d]

PipelineInv ==
    /\ TypeOK
    /\ final # NULL => pc = "ready"
    /\ SidesInv
    /\ ConflictInv
    /\ SignalPassedEveryGate
    /\ ConflictBlocks
    /\ ConflictReal
=============================================================================
