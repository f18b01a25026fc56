--------------------------- MODULE ScenarioState ---------------------------
(***************************************************************************)
(* The scenario engine of convsim-core (scenario_state.py): how one model  *)
(* reply moves the simulation variables, which scenario events it fires    *)
(* and whether it ends the conversation.  The operators are pure; the      *)
(* session engine applies them inside the turn pipeline.                   *)
(*                                                                         *)
(* A scenario is fixed by the constants: the merged variable definitions   *)
(* (build_variable_defs), its events and its ending conditions.            *)
(***************************************************************************)
EXTENDS Integers

CONSTANTS
    Vars,       \* names of the variables the scenario defines
    Lo, Hi,     \* min and max of each variable
    Default,    \* its starting value
    MaxDelta,   \* max_delta_per_turn
    Events,     \* ids of the scenario's events (unique within a scenario)
    When,       \* the trigger condition of each event
    Repeats,    \* the events declared with repeat: true
    Success,    \* ending conditions; NoCondition when the scenario has none
    Failure,
    Timeout,
    MaxTurns    \* turns after which a scenario times out

ASSUME ScenarioAssumption ==
    /\ Vars # {}
    /\ Lo \in [Vars -> Int]
    /\ Hi \in [Vars -> Int]
    /\ Default \in [Vars -> Int]
    /\ MaxDelta \in [Vars -> Nat]
    /\ \A v \in Vars : Lo[v] <= Hi[v]
    /\ MaxTurns \in Nat \ {0}

NoCondition == [type |-> "none"]

(***************************************************************************)
(* Variables.                                                              *)
(***************************************************************************)
\* The `{}` a new session row holds until its first turn initialises it.
Uninitialised == [v \in {} |-> 0]

VarState == [Vars -> Int]

Clamp(lo, hi, x) ==
    LET capped == IF hi < x THEN hi ELSE x
    IN  IF capped < lo THEN lo ELSE capped

InitialState == [v \in Vars |-> Clamp(Lo[v], Hi[v], Default[v])]

\* `if not state_vars: state_vars = initialize_state(var_defs)`
Base(state) == IF state = Uninitialised THEN InitialState ELSE state

OldValue(state, v) == IF v \in DOMAIN state THEN state[v] ELSE Default[v]

\* Mutant: the proposal is applied without the per-turn limit.
ApplyDeltaUnlimited(state, delta) ==
    LET known == DOMAIN delta \cap Vars
    IN  [v \in DOMAIN state \cup known |->
            IF v \in known THEN Clamp(Lo[v], Hi[v], OldValue(state, v) + delta[v])
                           ELSE state[v]]

\* The proposal for a known variable is cut to +-MaxDelta, then the result is
\* cut to [Lo, Hi].  Unknown keys are rejected.
ApplyDelta(state, delta) ==
    LET known == DOMAIN delta \cap Vars
    IN  [v \in DOMAIN state \cup known |->
            IF v \in known
            THEN Clamp(Lo[v], Hi[v],
                       OldValue(state, v) + Clamp(-MaxDelta[v], MaxDelta[v], delta[v]))
            ELSE state[v]]

(***************************************************************************)
(* Conditions, event triggers and endings.                                 *)
(***************************************************************************)
ValueOf(state, v) == IF v \in DOMAIN state THEN state[v] ELSE 0

Holds(cond, state, turn, flags) ==
    \/ cond.type = "variable_above" /\ ValueOf(state, cond.variable) > cond.threshold
    \/ cond.type = "variable_below" /\ ValueOf(state, cond.variable) < cond.threshold
    \/ cond.type = "max_turns" /\ turn >= cond.value
    \/ cond.type = "flag" /\ cond.flag_id \in flags

\* Mutant: a non-repeating event is not checked against the fired ones.
TriggeredAgain(state, turn, fired, flags) ==
    {e \in Events : Holds(When[e], state, turn, flags)}

Triggered(state, turn, fired, flags) ==
    {e \in Events : /\ e \in Repeats \/ e \notin fired
                    /\ Holds(When[e], state, turn, flags)}

\* Mutant: the turn limit is compared with > instead of >=.
EndingOfLate(state, turn, safetyStopped) ==
    IF safetyStopped THEN "safety_stop"
    ELSE IF Holds(Success, state, turn, {}) THEN "success"
    ELSE IF Holds(Failure, state, turn, {}) THEN "failure"
    ELSE IF turn > MaxTurns \/ Holds(Timeout, state, turn, {}) THEN "timeout"
    ELSE "none"

\* First match wins: safety stop, success, failure, timeout.  Endings are
\* evaluated with no active flags.
EndingOf(state, turn, safetyStopped) ==
    IF safetyStopped THEN "safety_stop"
    ELSE IF Holds(Success, state, turn, {}) THEN "success"
    ELSE IF Holds(Failure, state, turn, {}) THEN "failure"
    ELSE IF turn >= MaxTurns \/ Holds(Timeout, state, turn, {}) THEN "timeout"
    ELSE "none"

=============================================================================
