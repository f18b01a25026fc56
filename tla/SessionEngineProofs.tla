------------------------ MODULE SessionEngineProofs ------------------------
(***************************************************************************)
(* Theorems about the session engine, for every set of sessions, request   *)
(* slots, replies and every scenario that satisfies the assumptions.       *)
(***************************************************************************)
EXTENDS SessionRefinement, FiniteSetTheorems, SequenceTheorems, TLAPS

-----------------------------------------------------------------------------
(***************************************************************************)
(* The scenario engine's operators.                                        *)
(***************************************************************************)
\* Clamping returns an integer of the interval, and a value of the interval
\* unchanged.
LEMMA ClampBounds ==
    ASSUME NEW lo \in Int, NEW hi \in Int, lo <= hi, NEW x \in Int
    PROVE  /\ Clamp(lo, hi, x) \in lo .. hi
           /\ Clamp(lo, hi, x) \in Int
           /\ x \in lo .. hi => Clamp(lo, hi, x) = x
BY DEF Clamp

\* A new session's variables have their types and lie in their ranges.
LEMMA InitialStateType ==
    /\ InitialState \in VarState
    /\ \A v \in Vars : InitialState[v] \in Lo[v] .. Hi[v]
<1>1. ASSUME NEW v \in Vars
      PROVE  Clamp(Lo[v], Hi[v], Default[v]) \in Int /\ Clamp(Lo[v], Hi[v], Default[v]) \in Lo[v] .. Hi[v]
    BY <1>1, ScenarioAssumption, ClampBounds
<1> QED BY <1>1 DEF InitialState, VarState

\* The uninitialised `{}` is not a variable assignment.
LEMMA UninitialisedDistinct == Uninitialised \notin VarState
<1> SUFFICES ASSUME Uninitialised \in VarState PROVE FALSE
    OBVIOUS
<1>1. DOMAIN Uninitialised = {}
    BY DEF Uninitialised
<1>2. DOMAIN Uninitialised = Vars
    BY DEF VarState
<1> QED BY <1>1, <1>2, ScenarioAssumption

LEMMA BaseType ==
    ASSUME NEW state \in VarState \cup {Uninitialised}
    PROVE  Base(state) \in VarState
BY InitialStateType DEF Base

\* Whatever the model proposes, a variable stays an integer in its range and
\* moves by at most its per-turn limit.
THEOREM DeltaBounded ==
    ASSUME NEW state \in VarState, NEW delta,
           \A v \in DOMAIN delta : delta[v] \in Int
    PROVE  /\ ApplyDelta(state, delta) \in VarState
           /\ (\A v \in Vars : state[v] \in Lo[v] .. Hi[v]) =>
                \A v \in Vars :
                   /\ ApplyDelta(state, delta)[v] \in Lo[v] .. Hi[v]
                   /\ ApplyDelta(state, delta)[v] - state[v] \in -MaxDelta[v] .. MaxDelta[v]
<1> DEFINE known == DOMAIN delta \cap Vars
           Step(v) == Clamp(-MaxDelta[v], MaxDelta[v], delta[v])
           New(v) == Clamp(Lo[v], Hi[v], state[v] + Step(v))
<1>1. DOMAIN state = Vars
    BY DEF VarState
<1>2. ApplyDelta(state, delta) = [v \in Vars |-> IF v \in known THEN New(v) ELSE state[v]]
    BY <1>1 DEF ApplyDelta, OldValue
<1>3. ASSUME NEW v \in known
      PROVE  /\ Step(v) \in -MaxDelta[v] .. MaxDelta[v]
             /\ Step(v) \in Int
             /\ New(v) \in Int
             /\ New(v) \in Lo[v] .. Hi[v]
    <2>1. /\ MaxDelta[v] \in Nat /\ Lo[v] \in Int /\ Hi[v] \in Int /\ Lo[v] <= Hi[v]
          /\ delta[v] \in Int /\ state[v] \in Int
        BY <1>3, ScenarioAssumption DEF VarState
    <2>2. -MaxDelta[v] \in Int /\ -MaxDelta[v] <= MaxDelta[v]
        BY <2>1
    <2>3. Step(v) \in -MaxDelta[v] .. MaxDelta[v] /\ Step(v) \in Int
      <3> DEFINE m == -MaxDelta[v]
      <3>1. m \in Int /\ m <= MaxDelta[v] /\ MaxDelta[v] \in Int
          BY <2>1, <2>2
      <3> HIDE DEF m
      <3>2. /\ Clamp(m, MaxDelta[v], delta[v]) \in m .. MaxDelta[v]
            /\ Clamp(m, MaxDelta[v], delta[v]) \in Int
          BY <2>1, <3>1, ClampBounds
      <3> QED BY <3>2 DEF m
    <2>4. state[v] + Step(v) \in Int
        BY <2>1, <2>3
    <2>5. New(v) \in Int /\ New(v) \in Lo[v] .. Hi[v]
        BY <2>1, <2>4, ClampBounds
    <2> QED BY <2>3, <2>5
<1>4. ASSUME NEW v \in known, state[v] \in Lo[v] .. Hi[v]
      PROVE  New(v) - state[v] \in -MaxDelta[v] .. MaxDelta[v]
    <2>1. /\ MaxDelta[v] \in Nat /\ Lo[v] \in Int /\ Hi[v] \in Int /\ state[v] \in Int
        BY <1>4, ScenarioAssumption DEF VarState
    <2> HIDE DEF Step
    <2> QED BY <2>1, <1>3, <1>4 DEF Clamp
<1>5. \A v \in Vars : state[v] \in Int /\ MaxDelta[v] \in Nat
    BY ScenarioAssumption DEF VarState
<1> HIDE DEF New, Step, known
<1>6. ApplyDelta(state, delta) \in VarState
    BY <1>2, <1>3, <1>5 DEF VarState
<1> QED BY <1>2, <1>3, <1>4, <1>5, <1>6

LEMMA TriggeredType ==
    ASSUME NEW state, NEW turn, NEW fired, NEW flags
    PROVE  Triggered(state, turn, fired, flags) \in SUBSET Events
BY DEF Triggered

LEMMA EndingType ==
    ASSUME NEW state, NEW turn, NEW stopped
    PROVE  EndingOf(state, turn, stopped) \in Endings \cup {"none"}
BY DEF EndingOf, Endings

-----------------------------------------------------------------------------
(***************************************************************************)
(* Types.                                                                  *)
(***************************************************************************)
LEMMA NewRowType ==
    ASSUME NEW flow \in FlowStates, NEW snap \in Snapshot, NEW count \in Nat,
           NEW setup \in [save : BOOLEAN, tts : BOOLEAN]
    PROVE  NewRow(flow, snap, count, setup) \in SessionRow
BY DEF NewRow, SessionRow

LEMMA FreshType == FreshSnapshot \in Snapshot /\ NoSession \in SessionRow
<1>1. FreshSnapshot \in Snapshot
    BY DEF FreshSnapshot, Snapshot
<1>2. "NotStarted" \in FlowStates /\ [save |-> FALSE, tts |-> FALSE] \in [save : BOOLEAN, tts : BOOLEAN]
    BY DEF FlowStates
<1> QED BY <1>1, <1>2, NewRowType DEF NoSession

\* What a reply makes of a well-typed row is well-typed.
LEMMA TurnResultType ==
    ASSUME NEW row \in SessionRow, NEW out \in TurnOutputs
    PROVE  /\ TurnResult(row, out).turn = row.count + 1
           /\ TurnResult(row, out).snap \in Snapshot
           /\ TurnResult(row, out).triggered \in SUBSET Events
           /\ TurnResult(row, out).ending \in Endings \cup {"none"}
           /\ TurnResult(row, out).ending = "none" => row.count + 1 < MaxTurns
<1> DEFINE n == NextTurn(row)
           state == ApplyDelta(Base(row.snap.vars), out.delta)
           ids == Triggered(state, n, row.snap.fired, out.flags)
           verdict == EndingOf(state, n, out.stop)
<1>1. row.snap.vars \in VarState \cup {Uninitialised} /\ row.snap.fired \subseteq Events /\ row.count \in Nat
    BY DEF SessionRow, Snapshot
<1>2. state \in VarState
  <2>1. \A v \in DOMAIN out.delta : out.delta[v] \in Int
      BY EngineAssumption
  <2>2. Base(row.snap.vars) \in VarState
      BY <1>1, BaseType
  <2> QED BY <2>1, <2>2, DeltaBounded
<1>3. ids \in SUBSET Events
    BY TriggeredType
<1>4. verdict \in Endings \cup {"none"}
    BY EndingType
<1>5. out.ending \in Endings \cup {"none"}
    BY EngineAssumption
<1>6. verdict = "none" => row.count + 1 < MaxTurns
    BY <1>1, ScenarioAssumption DEF EndingOf, NextTurn
<1>7. TurnResult(row, out) =
         [turn |-> n, snap |-> [vars |-> state, fired |-> FiredNow(row.snap.fired, ids)],
          triggered |-> ids,
          ending |-> IF verdict = "none" /\ ~out.continue THEN out.ending ELSE verdict]
    BY DEF TurnResult
<1>8. [vars |-> state, fired |-> FiredNow(row.snap.fired, ids)] \in Snapshot
    BY <1>1, <1>2, <1>3 DEF Snapshot, FiredNow
<1>9. n = row.count + 1
    BY DEF NextTurn
<1> HIDE DEF n, state, ids, verdict
<1>10. /\ TurnResult(row, out).turn = n
       /\ TurnResult(row, out).snap = [vars |-> state, fired |-> FiredNow(row.snap.fired, ids)]
       /\ TurnResult(row, out).triggered = ids
       /\ TurnResult(row, out).ending =
             IF verdict = "none" /\ ~out.continue THEN out.ending ELSE verdict
    BY <1>7
<1>11. TurnResult(row, out).ending = "none" => verdict = "none"
    BY <1>10
<1> QED BY <1>3, <1>4, <1>5, <1>6, <1>8, <1>9, <1>10, <1>11

LEMMA RowsType ==
    /\ OpeningRow \in TurnRow
    /\ \A n \in Nat \ {0} : PlayerRow(n) \in TurnRow
    /\ \A n \in Nat, snap \in Snapshot : NpcRow(n, snap) \in TurnRow
BY DEF OpeningRow, PlayerRow, NpcRow, TurnRow

\* The initial state is well-typed.
LEMMA InitType == Init => TypeOK
<1> SUFFICES ASSUME Init PROVE TypeOK
    OBVIOUS
<1>1. Idle \in Request
    BY DEF Request
<1> QED BY <1>1, FreshType DEF Init, TypeOK

\* Requests keep the types of what they carry.
LEMMA AfterLineType ==
    ASSUME NEW s \in Sess, NEW n \in Nat, NEW speak
    PROVE  AfterLine(s, n, speak) \in Request
BY DEF AfterLine, AwaitTts, Idle, Request

\* Recording a game turn keeps transcript, log and index well-typed.
LEMMA RecordTurnType ==
    ASSUME TypeOK, NEW s \in Sess, NEW n \in Nat \ {0}, NEW snap \in Snapshot,
           NEW log \in SUBSET EventRow, NEW save, RecordTurn(s, n, snap, log, save)
    PROVE  /\ s \in rows
           /\ turns' \in [Sess -> SUBSET TurnRow]
           /\ events' \in [Sess -> SUBSET EventRow]
           /\ fts' \subseteq Sess \X Nat
<1>1. PlayerRow(n) \in TurnRow /\ NpcRow(n, snap) \in TurnRow
    BY RowsType
<1>2. IndexEntries(s, {2 * n - 1, 2 * n}, save) \subseteq Sess \X Nat
    BY DEF IndexEntries
<1> QED BY <1>1, <1>2 DEF RecordTurn, Insertable, TypeOK

\* Inserting a session keeps the sessions table well-typed.
LEMMA InsertSessionType ==
    ASSUME TypeOK, NEW s \in Sess, NEW row \in SessionRow, InsertSession(s, row)
    PROVE  /\ used' \subseteq Sess
           /\ rows' \subseteq used'
           /\ session' \in [Sess -> SessionRow]
BY DEF InsertSession, TypeOK

\* Writing columns of one session keeps the table well-typed.
LEMMA ColumnsType ==
    ASSUME TypeOK, NEW s \in Sess
    PROVE  /\ \A flow \in FlowStates :
                 [session EXCEPT ![s].flow = flow] \in [Sess -> SessionRow]
           /\ \A flow \in FlowStates :
                 [session EXCEPT ![s].flow = flow, ![s].endedAt = TRUE] \in [Sess -> SessionRow]
           /\ \A flow \in FlowStates, ending \in Endings \cup {"none"} :
                 [session EXCEPT ![s].flow = flow, ![s].ending = ending, ![s].endedAt = TRUE]
                    \in [Sess -> SessionRow]
<1>1. session \in [Sess -> SessionRow]
    BY DEF TypeOK
<1>2. \A flow \in FlowStates : [session EXCEPT ![s].flow = flow] \in [Sess -> SessionRow]
    BY <1>1 DEF SessionRow
<1>3. \A flow \in FlowStates :
         [session EXCEPT ![s].flow = flow, ![s].endedAt = TRUE] \in [Sess -> SessionRow]
    BY <1>1 DEF SessionRow
<1>4. ASSUME NEW flow \in FlowStates, NEW ending \in Endings \cup {"none"}
      PROVE  [session EXCEPT ![s].flow = flow, ![s].ending = ending, ![s].endedAt = TRUE]
                \in [Sess -> SessionRow]
  <2>1. [session[s] EXCEPT !.flow = flow, !.ending = ending, !.endedAt = TRUE] \in SessionRow
      BY <1>1 DEF SessionRow
  <2>2. [session EXCEPT ![s].flow = flow, ![s].ending = ending, ![s].endedAt = TRUE] =
           [session EXCEPT ![s] = [session[s] EXCEPT !.flow = flow, !.ending = ending, !.endedAt = TRUE]]
      BY <1>1
  <2> QED BY <1>1, <2>1, <2>2
<1> QED BY <1>2, <1>3, <1>4

\* Writing a recorded turn back keeps the table well-typed.
LEMMA TurnColumnsType ==
    ASSUME TypeOK, NEW s \in Sess, NEW snap \in Snapshot, NEW count \in Nat,
           NEW flow \in FlowStates, NEW ending \in Endings \cup {"none"}
    PROVE  [session EXCEPT ![s].snap = snap, ![s].count = count,
                           ![s].flow = flow, ![s].ending = ending] \in [Sess -> SessionRow]
<1>1. session \in [Sess -> SessionRow]
    BY DEF TypeOK
<1>2. [session[s] EXCEPT !.snap = snap, !.count = count, !.flow = flow, !.ending = ending] \in SessionRow
    BY <1>1 DEF SessionRow
<1>3. [session EXCEPT ![s].snap = snap, ![s].count = count, ![s].flow = flow, ![s].ending = ending] =
         [session EXCEPT ![s] = [session[s] EXCEPT !.snap = snap, !.count = count,
                                                   !.flow = flow, !.ending = ending]]
    BY <1>1
<1> QED BY <1>1, <1>2, <1>3

\* Every step keeps every table and request well-typed.
LEMMA NextType == TypeOK /\ [Next]_vars => TypeOK'
<1> SUFFICES ASSUME TypeOK, [Next]_vars PROVE TypeOK'
    OBVIOUS
<1>0. Idle \in Request /\ \A c \in {"turn", "runtime", "tts", "debrief"} : Failed(c) \in Request
    BY DEF Request, Failed
<1>1. ASSUME NEW s \in Sess, NEW setup \in Setups, CreateSession(s, setup) PROVE TypeOK'
  <2>1. NewRow("NotStarted", FreshSnapshot, 0, setup) \in SessionRow
      BY FreshType, NewRowType, EngineAssumption DEF FlowStates
  <2> QED BY <1>1, <2>1, InsertSessionType DEF CreateSession, TypeOK
<1>2. ASSUME NEW s \in Sess, CreateTestSession(s) PROVE TypeOK'
  <2> DEFINE row == NewRow("PlayerTurnListening", [vars |-> InitialState, fired |-> {}], 0,
                           [save |-> FALSE, tts |-> FALSE])
  <2>1. [vars |-> InitialState, fired |-> {}] \in Snapshot
      BY InitialStateType DEF Snapshot
  <2>2. row \in SessionRow
      BY <2>1, NewRowType DEF FlowStates
  <2>3. InsertSession(s, row)
      BY <1>2 DEF CreateTestSession
  <2> QED BY <1>2, <2>2, <2>3, RowsType, InsertSessionType DEF CreateTestSession, TypeOK
<1>3. ASSUME NEW r \in Reqs, NEW s \in Sess, StartSession(r, s) PROVE TypeOK'
  <2>1. session' \in [Sess -> SessionRow]
      BY <1>3, ColumnsType DEF StartSession, FlowStates
  <2>2. AfterLine(s, 0, session[s].setup.tts) \in Request
      BY AfterLineType
  <2>3. req' \in [Reqs -> Request]
      BY <1>3, <2>2 DEF StartSession, TypeOK
  <2>4. turns' \in [Sess -> SUBSET TurnRow]
      BY <1>3, RowsType DEF StartSession, TypeOK
  <2>5. fts' \subseteq Sess \X Nat
      BY <1>3 DEF StartSession, TypeOK, IndexEntries
  <2> QED BY <1>3, <2>1, <2>3, <2>4, <2>5 DEF StartSession, TypeOK
<1>4. ASSUME NEW r \in Reqs, NEW s \in Sess, StopAtInput(r, s) PROVE TypeOK'
  <2> DEFINE n == NextTurn(session[s])
             log == {Event(n, "input_safety_stop", "none"), Event(n, "session_ending", "safety_stop")}
  <2>1. session[s] \in SessionRow /\ n \in Nat \ {0} /\ session[s].snap \in Snapshot
      BY DEF TypeOK, SessionRow, NextTurn
  <2>2. log \in SUBSET EventRow
      BY <2>1 DEF Event, EventRow, Endings
  <2>3. RecordTurn(s, n, session[s].snap, log, session[s].setup.save)
      BY <1>4 DEF StopAtInput
  <2>4. /\ session' = [session EXCEPT ![s].count = n, ![s].flow = "Ended", ![s].ending = "safety_stop"]
        /\ req' = [req EXCEPT ![r] = AfterLine(s, n, session[s].setup.tts)]
        /\ UNCHANGED <<rows, used, debrief, branch, recap>>
      BY <1>4 DEF StopAtInput
  <2> HIDE DEF n, log
  <2>5. turns' \in [Sess -> SUBSET TurnRow] /\ events' \in [Sess -> SUBSET EventRow] /\ fts' \subseteq Sess \X Nat
      BY <2>1, <2>2, <2>3, RecordTurnType
  <2>6. session' \in [Sess -> SessionRow]
      BY <2>1, <2>4 DEF TypeOK, SessionRow, FlowStates, Endings
  <2>7. req' \in [Reqs -> Request]
      BY <2>1, <2>4, AfterLineType DEF TypeOK
  <2> QED BY <2>4, <2>5, <2>6, <2>7 DEF TypeOK
<1>5. ASSUME NEW r \in Reqs, NEW s \in Sess, SubmitTurn(r, s) PROVE TypeOK'
  <2>1. AwaitTurn(s) \in Request
      BY DEF AwaitTurn, Request, TypeOK
  <2> QED BY <1>5, <2>1 DEF SubmitTurn, tables, TypeOK
<1>6. ASSUME NEW r \in Reqs, NEW out \in TurnOutputs, PersistTurn(r, out) PROVE TypeOK'
  <2> DEFINE s == req[r].sid
             row == req[r].row
             res == TurnResult(row, out)
             log == {Event(res.turn, "scenario_event", e) : e \in res.triggered}
                        \cup EndingEvents(res.turn, res.ending)
  <2>1. s \in Sess /\ row \in SessionRow
      BY <1>6 DEF PersistTurn, TypeOK, Request, Idle
  <2>2. /\ res.turn = row.count + 1
        /\ res.snap \in Snapshot
        /\ res.triggered \in SUBSET Events
        /\ res.ending \in Endings \cup {"none"}
      BY <2>1, TurnResultType
  <2>3. res.turn \in Nat \ {0}
      BY <2>1, <2>2 DEF SessionRow
  <2>4. /\ RecordTurn(s, res.turn, res.snap, log, row.setup.save)
        /\ session' = [session EXCEPT
                ![s].snap = res.snap, ![s].count = res.turn,
                ![s].flow = IF res.ending = "none" THEN "PlayerTurnListening" ELSE "Ended",
                ![s].ending = res.ending]
        /\ req' = [req EXCEPT ![r] = AfterLine(s, res.turn, row.setup.tts /\ ~out.fallback)]
        /\ UNCHANGED <<rows, used, debrief, branch, recap>>
      BY <1>6 DEF PersistTurn
  <2> HIDE DEF s, row, res
  <2>5. log \in SUBSET EventRow
      BY <2>2, <2>3 DEF Event, EndingEvents, EventRow
  <2> HIDE DEF log
  <2>6. turns' \in [Sess -> SUBSET TurnRow] /\ events' \in [Sess -> SUBSET EventRow] /\ fts' \subseteq Sess \X Nat
      BY <2>1, <2>2, <2>3, <2>4, <2>5, RecordTurnType
  <2>7. session' \in [Sess -> SessionRow]
    <3> DEFINE flow == IF res.ending = "none" THEN "PlayerTurnListening" ELSE "Ended"
    <3>1. flow \in FlowStates /\ res.turn \in Nat
        BY <2>3 DEF FlowStates
    <3>2. session' = [session EXCEPT ![s].snap = res.snap, ![s].count = res.turn,
                                     ![s].flow = flow, ![s].ending = res.ending]
        BY <2>4
    <3> HIDE DEF flow
    <3> QED BY <2>1, <2>2, <3>1, <3>2, TurnColumnsType
  <2>8. req' \in [Reqs -> Request]
      BY <2>1, <2>3, <2>4, AfterLineType DEF TypeOK
  <2> QED BY <2>4, <2>6, <2>7, <2>8 DEF TypeOK
<1>7. ASSUME NEW r \in Reqs,
             RejectTurn(r) \/ TurnRuntimeError(r) \/ SpeechUnavailable(r) \/ TakeFailure(r)
      PROVE  TypeOK'
    BY <1>0, <1>7 DEF RejectTurn, TurnRuntimeError, SpeechUnavailable, TakeFailure, tables, TypeOK
<1>8. ASSUME NEW r \in Reqs, SpeakLine(r) PROVE TypeOK'
  <2>1. req[r].sid \in Sess /\ req[r].turn \in Nat
      BY <1>8 DEF SpeakLine, TypeOK, Request, Idle
  <2>2. Event(req[r].turn, "tts_audio_chunk", "none") \in EventRow
      BY <2>1 DEF Event, EventRow
  <2>3. events' \in [Sess -> SUBSET EventRow]
      BY <1>8, <2>2 DEF SpeakLine, TypeOK
  <2>4. req' \in [Reqs -> Request]
      BY <1>0, <1>8 DEF SpeakLine, TypeOK
  <2> QED BY <1>8, <2>3, <2>4 DEF SpeakLine, TypeOK
<1>9. ASSUME NEW s \in Sess, EndSession(s) PROVE TypeOK'
  <2>1. session[s].ending \in Endings \cup {"none"}
      BY DEF TypeOK, SessionRow
  <2>2. (IF session[s].ending = "none" THEN "player_exit" ELSE session[s].ending)
           \in Endings \cup {"none"}
      BY <2>1 DEF Endings
  <2>3. session' \in [Sess -> SessionRow]
      BY <1>9, <2>2, ColumnsType DEF EndSession, FlowStates
  <2> QED BY <1>9, <2>3 DEF EndSession, TypeOK
<1>10. ASSUME NEW s \in Sess, ReuseDebrief(s) PROVE TypeOK'
  <2>1. session' \in [Sess -> SessionRow]
      BY <1>10, ColumnsType DEF ReuseDebrief, FlowStates
  <2> QED BY <1>10, <2>1 DEF ReuseDebrief, RememberSession, TypeOK
<1>11. ASSUME NEW r \in Reqs, NEW s \in Sess, BeginDebrief(r, s) PROVE TypeOK'
  <2>1. session' \in [Sess -> SessionRow]
      BY <1>11, ColumnsType DEF BeginDebrief, Generating, FlowStates
  <2>2. AwaitDebrief(s) \in Request
      BY DEF AwaitDebrief, Request, TypeOK
  <2> QED BY <1>11, <2>1, <2>2 DEF BeginDebrief, TypeOK
<1>12. ASSUME NEW r \in Reqs, StoreDebrief(r) PROVE TypeOK'
  <2>1. req[r].sid \in Sess /\ req[r].row \in SessionRow
      BY <1>12 DEF StoreDebrief, TypeOK, Request, Idle
  <2>2. DebriefOf(req[r].row) \in [total : Nat, outcome : Endings]
      BY <2>1 DEF DebriefOf, SessionRow, Endings
  <2>3. debrief' \in [Sess -> {NoDebrief} \cup [total : Nat, outcome : Endings]]
      BY <1>12, <2>1, <2>2 DEF StoreDebrief, InsertDebrief, TypeOK
  <2>4. session' \in [Sess -> SessionRow]
      BY <1>12, <2>1, ColumnsType DEF StoreDebrief, FlowStates
  <2>5. req' \in [Reqs -> Request]
      BY <1>0, <1>12 DEF StoreDebrief, TypeOK
  <2> QED BY <1>12, <2>3, <2>4, <2>5 DEF StoreDebrief, RememberSession, TypeOK
<1>13. ASSUME NEW r \in Reqs, FailDebrief(r) PROVE TypeOK'
  <2>0. req[r].sid \in Sess /\ session \in [Sess -> SessionRow]
      BY <1>13 DEF FailDebrief, TypeOK, Request, Idle
  <2>1. session' \in [Sess -> SessionRow]
      BY <1>13, <2>0, ColumnsType DEF FailDebrief, FlowStates
  <2>2. req' \in [Reqs -> Request]
      BY <1>0, <1>13 DEF FailDebrief, TypeOK
  <2> QED BY <1>13, <2>1, <2>2 DEF FailDebrief, TypeOK
<1>14. ASSUME NEW p \in Sess, NEW b \in Sess, NEW f \in 1 .. MaxTurns, ForkSession(p, f, b) PROVE TypeOK'
  <2>1. f \in Nat \ {0} /\ f - 1 \in Nat
      BY ScenarioAssumption
  <2>2. PICK snap \in Snapshot : InsertBranch(p, f, b, snap)
    <3>1. CASE f = 1 /\ InsertBranch(p, f, b, FreshSnapshot)
        BY <3>1, FreshType
    <3>2. CASE \E row \in ForkPrefix(p, f) : row.snap # NoSnapshot /\ InsertBranch(p, f, b, row.snap)
      <4>1. PICK row \in ForkPrefix(p, f) : row.snap # NoSnapshot /\ InsertBranch(p, f, b, row.snap)
          BY <3>2
      <4>2. row.snap \in Snapshot
          BY <4>1 DEF ForkPrefix, TypeOK, TurnRow
      <4> QED BY <4>1, <4>2
    <3> QED BY <1>14, <3>1, <3>2 DEF ForkSession
  <2>3. session[p].setup \in [save : BOOLEAN, tts : BOOLEAN]
      BY DEF TypeOK, SessionRow
  <2>4. NewRow("PlayerTurnListening", snap, f - 1, session[p].setup) \in SessionRow
      BY <2>1, <2>3, NewRowType DEF FlowStates
  <2>5. used' \subseteq Sess /\ rows' \subseteq used' /\ session' \in [Sess -> SessionRow]
      BY <2>2, <2>4, InsertSessionType DEF InsertBranch
  <2>6. turns' \in [Sess -> SUBSET TurnRow]
      BY <1>14 DEF ForkSession, ForkPrefix, TypeOK
  <2>7. branch' \in [Sess -> {NoBranch} \cup [fork : Nat \ {0}, parent : Sess]]
      BY <1>14, <2>1 DEF ForkSession, TypeOK
  <2>8. fts' \subseteq Sess \X Nat
    <3>1. {row.n : row \in ForkPrefix(p, f)} \subseteq Nat
        BY DEF ForkPrefix, TypeOK, TurnRow
    <3>2. IndexEntries(b, {row.n : row \in ForkPrefix(p, f)}, session[p].setup.save) \subseteq Sess \X Nat
        BY <3>1 DEF IndexEntries
    <3> QED BY <1>14, <3>2 DEF ForkSession, TypeOK
  <2> QED BY <1>14, <2>5, <2>6, <2>7, <2>8 DEF ForkSession, TypeOK
<1>15. ASSUME NEW gone, Erase(gone)
       PROVE  /\ rows' \subseteq rows
              /\ session' \in [Sess -> SessionRow]
              /\ turns' \in [Sess -> SUBSET TurnRow]
              /\ events' \in [Sess -> SUBSET EventRow]
              /\ debrief' \in [Sess -> {NoDebrief} \cup [total : Nat, outcome : Endings]]
              /\ branch' \in [Sess -> {NoBranch} \cup [fork : Nat \ {0}, parent : Sess]]
    BY <1>15, FreshType DEF Erase, TypeOK
<1>16. ASSUME NEW s \in Sess, DeleteSession(s) PROVE TypeOK'
    BY <1>15, <1>16 DEF DeleteSession, TypeOK
<1>17. CASE ClearLocalData
    BY <1>15, <1>17 DEF ClearLocalData, TypeOK
<1>18. CASE DeleteRecap
    BY <1>18 DEF DeleteRecap, TypeOK
<1>19. CASE Restart
    BY <1>0, <1>19 DEF Restart, tables, TypeOK
<1>20. CASE UNCHANGED vars
    BY <1>20 DEF vars, TypeOK
<1> QED
    BY <1>1, <1>2, <1>3, <1>4, <1>5, <1>6, <1>7, <1>8, <1>9, <1>10, <1>11, <1>12, <1>13,
       <1>14, <1>16, <1>17, <1>18, <1>19, <1>20
    DEF Next, Complete

\* The tables always hold rows of their schema, whatever the interleaving.
THEOREM TypeCorrect == Spec => []TypeOK
BY InitType, NextType, PTL DEF Spec

-----------------------------------------------------------------------------
(***************************************************************************)
(* Deletion: nothing of an erased session comes back.  The foreign keys are *)
(* checked when a turn, speech or a debrief that was in flight is stored.  *)
(***************************************************************************)
\* Every table keeps its rows to live sessions.
LEMMA NextNoOrphans == TypeOK /\ NoOrphans /\ [Next]_vars => NoOrphans'
<1> SUFFICES ASSUME TypeOK, NoOrphans, [Next]_vars PROVE NoOrphans'
    OBVIOUS
<1>a. /\ turns \in [Sess -> SUBSET TurnRow] /\ events \in [Sess -> SUBSET EventRow]
      /\ DOMAIN debrief = Sess /\ DOMAIN branch = Sess
    BY DEF TypeOK
<1>1. ASSUME NEW s \in Sess, NEW setup \in Setups, CreateSession(s, setup) PROVE NoOrphans'
    BY <1>1 DEF CreateSession, InsertSession, NoOrphans
<1>2. ASSUME NEW s \in Sess, CreateTestSession(s) PROVE NoOrphans'
    BY <1>2, <1>a DEF CreateTestSession, InsertSession, NoOrphans
<1>3. ASSUME NEW r \in Reqs, NEW s \in Sess, StartSession(r, s) PROVE NoOrphans'
    BY <1>3, <1>a DEF StartSession, NoOrphans
<1>4. ASSUME NEW r \in Reqs, NEW s \in Sess, StopAtInput(r, s) PROVE NoOrphans'
    BY <1>4, <1>a DEF StopAtInput, RecordTurn, Insertable, NoOrphans
<1>5. ASSUME NEW r \in Reqs, NEW out \in TurnOutputs, PersistTurn(r, out) PROVE NoOrphans'
    BY <1>5, <1>a DEF PersistTurn, RecordTurn, Insertable, NoOrphans
<1>6. ASSUME NEW r \in Reqs, SpeakLine(r) PROVE NoOrphans'
    BY <1>6, <1>a DEF SpeakLine, NoOrphans
<1>7. ASSUME NEW r \in Reqs, StoreDebrief(r) PROVE NoOrphans'
    BY <1>7, <1>a DEF StoreDebrief, DebriefInsertable, NoOrphans
<1>8. ASSUME NEW p \in Sess, NEW b \in Sess, NEW f \in 1 .. MaxTurns, ForkSession(p, f, b) PROVE NoOrphans'
  <2>1. rows' = rows \cup {b}
      BY <1>8 DEF ForkSession, InsertBranch, InsertSession
  <2> QED BY <1>8, <1>a, <2>1 DEF ForkSession, NoOrphans
<1>9. ASSUME NEW gone, Erase(gone) PROVE NoOrphans'
    BY <1>9 DEF Erase, NoOrphans
<1>10. ASSUME NEW s \in Sess,
              (\E r \in Reqs : SubmitTurn(r, s) \/ BeginDebrief(r, s)) \/ EndSession(s) \/ ReuseDebrief(s)
       PROVE  NoOrphans'
  <2>1. UNCHANGED <<rows, turns, events, debrief, branch>>
      BY <1>10 DEF SubmitTurn, BeginDebrief, EndSession, ReuseDebrief, tables
  <2> QED BY <2>1 DEF NoOrphans
<1>11. ASSUME DeleteRecap \/ Restart \/ UNCHANGED vars PROVE NoOrphans'
  <2>1. UNCHANGED <<rows, turns, events, debrief, branch>>
      BY <1>11 DEF DeleteRecap, Restart, tables, vars
  <2> QED BY <2>1 DEF NoOrphans
<1>12. ASSUME NEW r \in Reqs,
              RejectTurn(r) \/ TurnRuntimeError(r) \/ SpeechUnavailable(r) \/ TakeFailure(r)
                \/ FailDebrief(r)
       PROVE  NoOrphans'
  <2>1. UNCHANGED <<rows, turns, events, debrief, branch>>
      BY <1>12 DEF RejectTurn, TurnRuntimeError, SpeechUnavailable, TakeFailure, FailDebrief, tables
  <2> QED BY <2>1 DEF NoOrphans
<1> QED
    BY <1>1, <1>2, <1>3, <1>4, <1>5, <1>6, <1>7, <1>8, <1>9, <1>10, <1>11, <1>12
    DEF Next, Complete, DeleteSession, ClearLocalData

\* A deleted session leaves nothing behind in the tables that refer to it,
\* whatever was in flight when it was deleted.
THEOREM NothingOrphaned == Spec => []NoOrphans
<1>1. Init => NoOrphans
    BY DEF Init, NoOrphans
<1> QED BY <1>1, InitType, NextType, NextNoOrphans, PTL DEF Spec

-----------------------------------------------------------------------------
(***************************************************************************)
(* Transcripts.  A turn numbers its lines from the row it read before the  *)
(* model was called.  The argument: that row is at most old, because a     *)
(* session only moves forward and its id is not reused (CapturedTurns); if *)
(* it is older, its numbers are taken and the insert is refused; if it is  *)
(* not, the turn is the next one and below the limit.                      *)
(***************************************************************************)
TranscriptInv == TranscriptContiguous /\ TurnLimit /\ CapturedTurns

\* The part of the invariant about one session.
Sound(s) ==
    /\ Numbers(s) = 0 .. 2 * session[s].count \/ (Numbers(s) = {} /\ session[s].count = 0)
    /\ session[s].flow = "NotStarted" => Numbers(s) = {}
    /\ session[s].flow = "PlayerTurnListening" => 0 \in Numbers(s)
    /\ \A a, b \in turns[s] : a.n = b.n => a = b
    /\ session[s].count <= MaxTurns
    /\ session[s].flow \in {"NotStarted", "PlayerTurnListening"} =>
          session[s].count < MaxTurns /\ session[s].ending = "none"

\* The part about one request.
Captured(r) ==
    req[r].kind = "turn" =>
        /\ req[r].sid \in used
        /\ req[r].row.count < MaxTurns
        /\ req[r].sid \in rows => /\ 0 \in Numbers(req[r].sid)
                                 /\ req[r].row.count <= session[req[r].sid].count

LEMMA TranscriptInvParts ==
    TranscriptInv <=> (\A s \in rows : Sound(s)) /\ (\A r \in Reqs : Captured(r))
BY DEF TranscriptInv, TranscriptContiguous, TurnLimit, CapturedTurns, Sound, Captured

\* A session whose transcript and counter stay, and whose flow state stays or
\* leaves the states that take turns, stays sound.
LEMMA SoundKept ==
    ASSUME NEW s, Sound(s), turns'[s] = turns[s], session'[s].count = session[s].count,
           \/ session'[s].flow = session[s].flow /\ session'[s].ending = session[s].ending
           \/ session'[s].flow \notin {"NotStarted", "PlayerTurnListening"}
    PROVE  Sound(s)'
<1>1. Numbers(s)' = Numbers(s)
    BY DEF Numbers
<1> QED BY <1>1 DEF Sound

\* A request that stays, or is no turn, stays in order when no session it may
\* name is new and none goes back.
LEMMA CapturedKept ==
    ASSUME NEW r, Captured(r),
           req'[r] = req[r] \/ req'[r].kind # "turn",
           used \subseteq used', rows' \subseteq rows \cup (used' \ used),
           \A s \in rows \cap rows' : /\ session'[s].count = session[s].count
                                      /\ 0 \in Numbers(s) => 0 \in Numbers(s)'
    PROVE  Captured(r)'
<1>1. CASE req'[r].kind # "turn"
    BY <1>1 DEF Captured
<1>2. CASE req'[r] = req[r]
    BY <1>2 DEF Captured
<1> QED BY <1>1, <1>2

\* A recorded turn can only be the session's next one, and extends it.
LEMMA RecordedIsNext ==
    ASSUME TypeOK, NEW s \in rows, Sound(s), 0 \in Numbers(s), NEW k \in Nat,
           k <= session[s].count, NEW snap, NEW log, NEW save,
           RecordTurn(s, k + 1, snap, log, save)
    PROVE  /\ k = session[s].count
           /\ Numbers(s)' = 0 .. 2 * (k + 1)
           /\ \A a, b \in turns'[s] : a.n = b.n => a = b
<1> DEFINE c == session[s].count
<1>1. c \in Nat /\ s \in Sess /\ turns \in [Sess -> SUBSET TurnRow]
    BY DEF TypeOK, SessionRow
<1>2. Numbers(s) = 0 .. 2 * c
    BY DEF Sound
<1>3. 2 * (k + 1) - 1 \notin 0 .. 2 * c
    BY <1>2 DEF RecordTurn, Insertable
<1>4. k = c
    BY <1>1, <1>3
<1>5. turns'[s] = turns[s] \cup {PlayerRow(k + 1), NpcRow(k + 1, snap)}
    BY <1>1 DEF RecordTurn
<1>6. PlayerRow(k + 1).n = 2 * (k + 1) - 1 /\ NpcRow(k + 1, snap).n = 2 * (k + 1)
    BY DEF PlayerRow, NpcRow
<1>7. Numbers(s)' = Numbers(s) \cup {2 * (k + 1) - 1, 2 * (k + 1)}
    BY <1>5, <1>6 DEF Numbers
<1>8. Numbers(s)' = 0 .. 2 * (k + 1)
  <2>1. 0 .. 2 * (k + 1) = (0 .. 2 * k) \cup {2 * (k + 1) - 1, 2 * (k + 1)}
      OBVIOUS
  <2> QED BY <2>1, <1>2, <1>4, <1>7
<1>9. \A a \in turns[s] : a.n \in 0 .. 2 * c
    BY <1>2 DEF Numbers
<1>10. \A a, b \in turns[s] : a.n = b.n => a = b
    BY DEF Sound
<1>11. 2 * (k + 1) - 1 \notin 0 .. 2 * c /\ 2 * (k + 1) \notin 0 .. 2 * c
       /\ 2 * (k + 1) - 1 # 2 * (k + 1)
    BY <1>1, <1>4
<1>12. \A a, b \in turns'[s] : a.n = b.n => a = b
    BY <1>5, <1>6, <1>9, <1>10, <1>11
<1> QED BY <1>4, <1>8, <1>12

\* Every step keeps transcripts contiguous, turns below the limit and captured
\* rows in order.
LEMMA NextTranscriptInv ==
    TypeOK /\ NoOrphans /\ TranscriptInv /\ [Next]_vars => TranscriptInv'
<1> SUFFICES ASSUME TypeOK, NoOrphans, TranscriptInv, [Next]_vars PROVE TranscriptInv'
    OBVIOUS
<1>s. \A s \in rows : Sound(s)
    BY TranscriptInvParts
<1>c. \A r \in Reqs : Captured(r)
    BY TranscriptInvParts
<1>t. /\ session \in [Sess -> SessionRow] /\ turns \in [Sess -> SUBSET TurnRow]
      /\ req \in [Reqs -> Request] /\ rows \subseteq used /\ used \subseteq Sess
    BY DEF TypeOK
<1>p. (\A s \in rows' : Sound(s)') /\ (\A r \in Reqs : Captured(r)') => TranscriptInv'
    BY TranscriptInvParts DEF TranscriptInv, TranscriptContiguous, TurnLimit, CapturedTurns, Sound, Captured
\* Steps that leave every transcript and counter alone.
<1>q. ASSUME rows' = rows, used' = used, turns' = turns,
             \A s \in rows : /\ session'[s].count = session[s].count
                             /\ \/ session'[s].flow = session[s].flow /\ session'[s].ending = session[s].ending
                                \/ session'[s].flow \notin {"NotStarted", "PlayerTurnListening"},
             \A r \in Reqs : req'[r] = req[r] \/ req'[r].kind # "turn"
      PROVE  TranscriptInv'
  <2>1. \A s \in rows : Sound(s)'
      BY <1>q, <1>s, SoundKept
  <2>2. \A s \in rows : Numbers(s)' = Numbers(s)
      BY <1>q DEF Numbers
  <2>3. \A r \in Reqs : Captured(r)'
      BY <1>q, <1>c, <2>2, CapturedKept
  <2> QED BY <1>q, <1>p, <2>1, <2>3
\* Steps that create session b.
<1>n. ASSUME NEW b \in Sess, NEW row, InsertSession(b, row), UNCHANGED req,
             \A s \in Sess \ {b} : turns'[s] = turns[s], Sound(b)'
      PROVE  TranscriptInv'
  <2>1. /\ b \notin used /\ rows' = rows \cup {b} /\ used' = used \cup {b}
        /\ \A s \in Sess \ {b} : session'[s] = session[s]
      BY <1>n, <1>t DEF InsertSession
  <2>2. \A s \in rows : s # b /\ s \in Sess
      BY <2>1, <1>t
  <2>3. \A s \in rows : Sound(s)'
      BY <1>n, <1>s, <2>1, <2>2, SoundKept
  <2>4. \A s \in rows : Numbers(s)' = Numbers(s) /\ session'[s].count = session[s].count
      BY <1>n, <2>1, <2>2 DEF Numbers
  <2>5. rows \cap rows' = rows
      BY <2>1
  <2>6. \A r \in Reqs : Captured(r)'
      BY <1>n, <1>c, <2>1, <2>4, <2>5, CapturedKept
  <2> QED BY <1>n, <1>p, <2>1, <2>3, <2>6
<1>1. ASSUME NEW s \in Sess, NEW setup \in Setups, CreateSession(s, setup) PROVE TranscriptInv'
  <2> DEFINE row == NewRow("NotStarted", FreshSnapshot, 0, setup)
  <2>1. InsertSession(s, row) /\ turns' = turns /\ req' = req
      BY <1>1 DEF CreateSession
  <2>2. s \notin rows /\ turns'[s] = {}
      BY <2>1, <1>t DEF InsertSession, NoOrphans
  <2>3. session'[s] = row
      BY <2>1, <1>t DEF InsertSession
  <2>4. row.flow = "NotStarted" /\ row.count = 0 /\ row.ending = "none"
      BY DEF NewRow
  <2>5. Sound(s)'
      BY <2>2, <2>3, <2>4, ScenarioAssumption DEF Sound, Numbers
  <2> HIDE DEF row
  <2> QED BY <1>n, <2>1, <2>5
<1>2. ASSUME NEW s \in Sess, CreateTestSession(s) PROVE TranscriptInv'
  <2> DEFINE row == NewRow("PlayerTurnListening", [vars |-> InitialState, fired |-> {}], 0,
                           [save |-> FALSE, tts |-> FALSE])
  <2>1. InsertSession(s, row) /\ turns' = [turns EXCEPT ![s] = {OpeningRow}] /\ req' = req
      BY <1>2 DEF CreateTestSession
  <2>2. session'[s] = row /\ turns'[s] = {OpeningRow}
      BY <2>1, <1>t DEF InsertSession
  <2>3. row.flow = "PlayerTurnListening" /\ row.count = 0 /\ row.ending = "none"
      BY DEF NewRow
  <2>4. Numbers(s)' = {0}
      BY <2>2 DEF Numbers, OpeningRow
  <2>5. Sound(s)'
      BY <2>2, <2>3, <2>4, ScenarioAssumption DEF Sound
  <2>6. \A x \in Sess \ {s} : turns'[x] = turns[x]
      BY <2>1, <1>t
  <2> HIDE DEF row
  <2> QED BY <1>n, <2>1, <2>5, <2>6
<1>3. ASSUME NEW r \in Reqs, NEW s \in Sess, StartSession(r, s) PROVE TranscriptInv'
  <2>1. /\ s \in rows /\ session[s].flow = "NotStarted" /\ rows' = rows /\ used' = used
        /\ session' = [session EXCEPT ![s].flow = "PlayerTurnListening"]
        /\ turns' = [turns EXCEPT ![s] = @ \cup {OpeningRow}]
        /\ req' = [req EXCEPT ![r] = AfterLine(s, 0, session[s].setup.tts)]
      BY <1>3 DEF StartSession
  <2>2. Numbers(s) = {} /\ session[s].count = 0 /\ session[s].ending = "none"
    <3>1. Numbers(s) = {} /\ session[s].ending = "none" /\ session[s].count \in Nat
        BY <2>1, <1>s, <1>t DEF Sound, SessionRow
    <3>2. 0 \in 0 .. 2 * session[s].count
        BY <3>1
    <3>3. Numbers(s) # 0 .. 2 * session[s].count
        BY <3>1, <3>2
    <3>4. Numbers(s) = 0 .. 2 * session[s].count \/ (Numbers(s) = {} /\ session[s].count = 0)
        BY <2>1, <1>s DEF Sound
    <3> QED BY <3>1, <3>3, <3>4
  <2>3. turns'[s] = {OpeningRow}
      BY <2>1, <2>2, <1>t DEF Numbers
  <2>4. Numbers(s)' = {0}
      BY <2>3 DEF Numbers, OpeningRow
  <2>5. /\ session'[s].flow = "PlayerTurnListening"
        /\ session'[s].count = 0 /\ session'[s].ending = "none"
      BY <2>1, <2>2, <1>t DEF SessionRow
  <2>6. Sound(s)'
      BY <2>3, <2>4, <2>5, ScenarioAssumption DEF Sound
  <2>7. \A x \in Sess \ {s} : turns'[x] = turns[x] /\ session'[x] = session[x]
      BY <2>1, <1>t
  <2>8. \A x \in rows \ {s} : Sound(x)'
      BY <2>7, <1>s, <1>t, SoundKept
  <2>9. \A x \in rows : /\ session'[x].count = session[x].count
                        /\ 0 \in Numbers(x) => 0 \in Numbers(x)'
      BY <2>2, <2>4, <2>5, <2>7, <1>t DEF Numbers
  <2>10. \A q \in Reqs : req'[q] = req[q] \/ req'[q].kind # "turn"
      BY <2>1, <1>t DEF AfterLine, AwaitTts, Idle
  <2>11. \A q \in Reqs : Captured(q)'
      BY <2>1, <2>9, <2>10, <1>c, CapturedKept
  <2> QED BY <1>p, <2>1, <2>6, <2>8, <2>11
\* Steps that record a game turn of s and write it to the session row.
<1>r. ASSUME NEW s \in rows, NEW k \in Nat, k <= session[s].count, k < MaxTurns, 0 \in Numbers(s),
             NEW snap, NEW log, NEW save, RecordTurn(s, k + 1, snap, log, save),
             \A x \in Sess \ {s} : session'[x] = session[x],
             session'[s].count = k + 1,
             \/ session'[s].flow = "Ended"
             \/ session'[s].flow = "PlayerTurnListening" /\ session'[s].ending = "none"
                  /\ k + 1 < MaxTurns,
             rows' = rows, used' = used,
             \A q \in Reqs : req'[q] = req[q] \/ req'[q].kind # "turn"
      PROVE  TranscriptInv'
  <2>1. /\ k = session[s].count
        /\ Numbers(s)' = 0 .. 2 * (k + 1)
        /\ \A a, b \in turns'[s] : a.n = b.n => a = b
      BY <1>r, <1>s, RecordedIsNext
  <2>2. 0 \in Numbers(s)' /\ k + 1 <= MaxTurns
      BY <1>r, <2>1, ScenarioAssumption
  <2>3. Sound(s)'
      BY <1>r, <2>1, <2>2 DEF Sound
  <2>4. \A x \in Sess \ {s} : turns'[x] = turns[x]
      BY <1>r, <1>t DEF RecordTurn
  <2>5. \A x \in rows \ {s} : Sound(x)'
      BY <1>r, <2>4, <1>s, <1>t, SoundKept
  <2>6. ASSUME NEW q \in Reqs PROVE Captured(q)'
    <3>1. CASE req'[q].kind # "turn"
        BY <3>1 DEF Captured
    <3>2. CASE req'[q] = req[q] /\ req[q].kind = "turn"
      <4> DEFINE x == req[q].sid
      <4>1. x \in used /\ req[q].row.count < MaxTurns
          BY <3>2, <1>c DEF Captured
      <4>2. CASE x \notin rows
          BY <3>2, <4>1, <4>2, <1>r DEF Captured
      <4>3. CASE x = s
        <5>1. req[q].row.count <= session[s].count
            BY <3>2, <4>3, <1>c DEF Captured
        <5>2. req[q].row \in SessionRow
            BY <3>2, <1>t DEF Request, Idle
        <5>3. req[q].row.count <= k + 1
            BY <5>1, <5>2, <2>1 DEF SessionRow
        <5> QED BY <3>2, <4>1, <4>3, <5>3, <2>2, <1>r DEF Captured
      <4>4. CASE x \in rows /\ x # s
        <5>1. PICK y \in Sess \ {s} : y = req[q].sid
            BY <4>4, <1>t
        <5>2. session'[y] = session[y] /\ Numbers(y)' = Numbers(y)
            BY <2>4, <1>r DEF Numbers
        <5>3. 0 \in Numbers(y) /\ req[q].row.count <= session[y].count
            BY <3>2, <4>4, <5>1, <1>c DEF Captured
        <5>4. req'[q].sid = y /\ req'[q].row = req[q].row
            BY <3>2, <5>1
        <5>5. y \in used /\ req[q].row.count < MaxTurns
            BY <4>1, <5>1
        <5> HIDE DEF x
        <5>6. y \in used' /\ 0 \in Numbers(y)' /\ req[q].row.count <= session'[y].count
            BY <5>2, <5>3, <5>5, <1>r
        <5>7. 0 \in Numbers(req[q].sid)'
            BY <5>4, <5>6 DEF Numbers
        <5> QED BY <5>4, <5>5, <5>6, <5>7 DEF Captured
      <4> QED BY <4>2, <4>3, <4>4
    <3> QED BY <3>1, <3>2, <1>r
  <2> QED BY <1>p, <1>r, <2>3, <2>5, <2>6
<1>4. ASSUME NEW r \in Reqs, NEW s \in Sess, StopAtInput(r, s) PROVE TranscriptInv'
  <2> DEFINE k == session[s].count
             log == {Event(k + 1, "input_safety_stop", "none"), Event(k + 1, "session_ending", "safety_stop")}
  <2>1. /\ s \in rows /\ session[s].flow = "PlayerTurnListening"
        /\ RecordTurn(s, k + 1, session[s].snap, log, session[s].setup.save)
        /\ session' = [session EXCEPT ![s].count = k + 1, ![s].flow = "Ended", ![s].ending = "safety_stop"]
        /\ req' = [req EXCEPT ![r] = AfterLine(s, k + 1, session[s].setup.tts)]
        /\ rows' = rows /\ used' = used
      BY <1>4 DEF StopAtInput, CanSubmit, NextTurn
  <2>2. k \in Nat /\ k < MaxTurns /\ 0 \in Numbers(s)
      BY <2>1, <1>s, <1>t DEF Sound, SessionRow
  <2>3. session'[s].count = k + 1 /\ session'[s].flow = "Ended"
      BY <2>1, <1>t DEF SessionRow
  <2>4. \A x \in Sess \ {s} : session'[x] = session[x]
      BY <2>1, <1>t
  <2>5. \A q \in Reqs : req'[q] = req[q] \/ req'[q].kind # "turn"
      BY <2>1, <1>t DEF AfterLine, AwaitTts, Idle
  <2> HIDE DEF log
  <2>6. k <= session[s].count
      BY <2>2
  <2> HIDE DEF k
  <2> QED BY <1>r, <2>1, <2>2, <2>3, <2>4, <2>5, <2>6
<1>5. ASSUME NEW r \in Reqs, NEW s \in Sess, SubmitTurn(r, s) PROVE TranscriptInv'
  <2>1. /\ s \in rows /\ session[s].flow = "PlayerTurnListening"
        /\ req' = [req EXCEPT ![r] = AwaitTurn(s)]
        /\ UNCHANGED <<rows, used, session, turns>>
      BY <1>5 DEF SubmitTurn, CanSubmit, tables
  <2>2. \A x \in rows : Sound(x)'
      BY <2>1, <1>s, SoundKept
  <2>3. \A x \in rows : Numbers(x)' = Numbers(x)
      BY <2>1 DEF Numbers
  <2>4. session[s].count < MaxTurns /\ 0 \in Numbers(s) /\ session[s].count \in Nat
      BY <2>1, <1>s, <1>t DEF Sound, SessionRow
  <2>5. Captured(r)'
    <3>1. req'[r].sid = s /\ req'[r].row = session[s]
        BY <2>1, <1>t DEF AwaitTurn
    <3> QED BY <2>1, <2>3, <2>4, <3>1, <1>t DEF Captured
  <2>6. \A q \in Reqs \ {r} : Captured(q)'
    <3>1. \A q \in Reqs \ {r} : req'[q] = req[q]
        BY <2>1, <1>t
    <3> QED BY <2>1, <2>3, <3>1, <1>c, CapturedKept
  <2> QED BY <1>p, <2>1, <2>2, <2>5, <2>6
<1>6. ASSUME NEW r \in Reqs, NEW out \in TurnOutputs, PersistTurn(r, out) PROVE TranscriptInv'
  <2> DEFINE s == req[r].sid
             row == req[r].row
             k == row.count
             res == TurnResult(row, out)
             log == {Event(res.turn, "scenario_event", e) : e \in res.triggered}
                        \cup EndingEvents(res.turn, res.ending)
  <2>1. /\ req[r].kind = "turn"
        /\ RecordTurn(s, res.turn, res.snap, log, row.setup.save)
        /\ session' = [session EXCEPT
                ![s].snap = res.snap, ![s].count = res.turn,
                ![s].flow = IF res.ending = "none" THEN "PlayerTurnListening" ELSE "Ended",
                ![s].ending = res.ending]
        /\ req' = [req EXCEPT ![r] = AfterLine(s, res.turn, row.setup.tts /\ ~out.fallback)]
        /\ rows' = rows /\ used' = used
      BY <1>6 DEF PersistTurn
  <2>2. row \in SessionRow
      BY <2>1, <1>t DEF Request, Idle
  <2>3. res.turn = k + 1 /\ (res.ending = "none" => k + 1 < MaxTurns)
      BY <2>2, TurnResultType
  <2>4. s \in rows
      BY <2>1 DEF RecordTurn, Insertable
  <2>5. k \in Nat /\ k <= session[s].count /\ k < MaxTurns /\ 0 \in Numbers(s)
      BY <2>1, <2>2, <2>4, <1>c DEF Captured, SessionRow
  <2>6. \A q \in Reqs : req'[q] = req[q] \/ req'[q].kind # "turn"
      BY <2>1, <1>t DEF AfterLine, AwaitTts, Idle
  <2> HIDE DEF s, k, res, log
  <2>7. \A x \in Sess \ {s} : session'[x] = session[x]
      BY <2>1, <1>t
  <2>8. /\ session'[s].count = res.turn
        /\ session'[s].flow = IF res.ending = "none" THEN "PlayerTurnListening" ELSE "Ended"
        /\ session'[s].ending = res.ending
      BY <2>1, <2>4, <1>t DEF SessionRow
  <2>9. RecordTurn(s, k + 1, res.snap, log, row.setup.save)
      BY <2>1, <2>3
  <2>10. session'[s].count = k + 1
      BY <2>3, <2>8
  <2>11. \/ session'[s].flow = "Ended"
         \/ session'[s].flow = "PlayerTurnListening" /\ session'[s].ending = "none" /\ k + 1 < MaxTurns
      BY <2>3, <2>8
  <2> QED BY <1>r, <2>1, <2>4, <2>5, <2>6, <2>7, <2>9, <2>10, <2>11
<1>7. ASSUME NEW r \in Reqs,
             RejectTurn(r) \/ TurnRuntimeError(r) \/ SpeechUnavailable(r) \/ TakeFailure(r)
               \/ SpeakLine(r)
      PROVE  TranscriptInv'
  <2>1. UNCHANGED <<rows, used, session, turns>>
      BY <1>7 DEF RejectTurn, TurnRuntimeError, SpeechUnavailable, TakeFailure, SpeakLine, tables
  <2>2. \A q \in Reqs : req'[q] = req[q] \/ req'[q].kind # "turn"
      BY <1>7, <1>t DEF RejectTurn, TurnRuntimeError, SpeechUnavailable, TakeFailure, SpeakLine,
                        Failed, Idle
  <2> QED BY <1>q, <2>1, <2>2
<1>8. ASSUME NEW s \in Sess, EndSession(s) \/ ReuseDebrief(s) PROVE TranscriptInv'
  <2>1. /\ UNCHANGED <<rows, used, turns, req>>
        /\ session' \in [Sess -> SessionRow]
      BY <1>8, NextType DEF EndSession, ReuseDebrief, TypeOK
  <2>2. \A x \in Sess : session'[x].count = session[x].count
      BY <1>8, <1>t DEF EndSession, ReuseDebrief, SessionRow
  <2>3. session'[s].flow \notin {"NotStarted", "PlayerTurnListening"}
      BY <1>8, <1>t DEF EndSession, ReuseDebrief, SessionRow
  <2>4. \A x \in Sess \ {s} : session'[x] = session[x]
      BY <1>8, <1>t DEF EndSession, ReuseDebrief
  <2> QED BY <1>q, <1>t, <2>1, <2>2, <2>3, <2>4
<1>9. ASSUME NEW r \in Reqs, (\E s \in Sess : BeginDebrief(r, s)) \/ StoreDebrief(r) \/ FailDebrief(r)
      PROVE  TranscriptInv'
  <2>1. UNCHANGED <<rows, used, turns>>
      BY <1>9 DEF BeginDebrief, StoreDebrief, FailDebrief
  <2>2. \A x \in Sess : session'[x].count = session[x].count
    <3>1. CASE \E s \in Sess : BeginDebrief(r, s)
        BY <3>1, <1>t DEF BeginDebrief, SessionRow
    <3>2. CASE StoreDebrief(r)
      <4>1. session' = [session EXCEPT ![req[r].sid].flow = "DebriefReady", ![req[r].sid].endedAt = TRUE]
          BY <3>2 DEF StoreDebrief
      <4> QED BY <4>1, <1>t DEF SessionRow
    <3>3. CASE FailDebrief(r)
        BY <3>3, <1>t DEF FailDebrief, SessionRow
    <3> QED BY <1>9, <3>1, <3>2, <3>3
  <2>3. \A x \in Sess : \/ session'[x] = session[x]
                        \/ session'[x].flow \notin {"NotStarted", "PlayerTurnListening"}
      BY <1>9, <1>t DEF BeginDebrief, StoreDebrief, FailDebrief, Generating, SessionRow
  <2>4. \A q \in Reqs : req'[q] = req[q] \/ req'[q].kind # "turn"
      BY <1>9, <1>t DEF BeginDebrief, StoreDebrief, FailDebrief, AwaitDebrief, Failed, Idle
  <2> QED BY <1>q, <1>t, <2>1, <2>2, <2>3, <2>4
<1>10. ASSUME NEW p \in Sess, NEW b \in Sess, NEW f \in 1 .. MaxTurns, ForkSession(p, f, b)
       PROVE  TranscriptInv'
  <2>1. /\ p \in rows /\ f \in 1 .. session[p].count
        /\ turns' = [turns EXCEPT ![b] = ForkPrefix(p, f)]
        /\ req' = req
      BY <1>10 DEF ForkSession
  <2>2. PICK snap : InsertBranch(p, f, b, snap)
      BY <1>10 DEF ForkSession
  <2> DEFINE row == NewRow("PlayerTurnListening", snap, f - 1, session[p].setup)
  <2>3. InsertSession(b, row) /\ session'[b] = row
      BY <2>2, <1>t DEF InsertBranch, InsertSession
  <2>4. row.flow = "PlayerTurnListening" /\ row.count = f - 1 /\ row.ending = "none"
      BY DEF NewRow
  <2>5. session[p].count \in Nat /\ session[p].count <= MaxTurns /\ f \in Nat /\ MaxTurns \in Nat
      BY <2>1, <1>s, <1>t, ScenarioAssumption DEF Sound, SessionRow
  <2>6. Numbers(p) = 0 .. 2 * session[p].count
      BY <2>1, <2>5, <1>s DEF Sound
  <2>7. turns'[b] = ForkPrefix(p, f)
      BY <2>1, <1>t
  <2>8. Numbers(b)' = {n \in Numbers(p) : n <= 2 * (f - 1)}
      BY <2>7 DEF Numbers, ForkPrefix
  <2>9. Numbers(b)' = 0 .. 2 * (f - 1)
    <3>1. {n \in 0 .. 2 * session[p].count : n <= 2 * (f - 1)} = 0 .. 2 * (f - 1)
        BY <2>1, <2>5
    <3> QED BY <2>6, <2>8, <3>1
  <2>10. \A x, y \in turns'[b] : x.n = y.n => x = y
      BY <2>1, <2>7, <1>s DEF ForkPrefix, Sound
  <2>11. f - 1 <= MaxTurns /\ f - 1 < MaxTurns /\ 0 \in Numbers(b)'
      BY <2>1, <2>5, <2>9
  <2>12. Sound(b)'
      BY <2>3, <2>4, <2>9, <2>10, <2>11 DEF Sound
  <2>13. \A x \in Sess \ {b} : turns'[x] = turns[x]
      BY <2>1, <1>t
  <2> HIDE DEF row
  <2> QED BY <1>n, <2>1, <2>3, <2>12, <2>13
<1>11. ASSUME NEW gone, Erase(gone), UNCHANGED <<used, req>> PROVE TranscriptInv'
  <2>1. /\ rows' = rows \ gone
        /\ \A s \in rows' : turns'[s] = turns[s] /\ session'[s] = session[s]
      BY <1>11, <1>t DEF Erase
  <2>2. \A s \in rows' : Sound(s)'
      BY <2>1, <1>s, SoundKept
  <2>3. \A s \in rows' : Numbers(s)' = Numbers(s)
      BY <2>1 DEF Numbers
  <2>4. \A r \in Reqs : Captured(r)'
      BY <1>11, <1>c, <2>1, <2>3, CapturedKept
  <2> QED BY <1>p, <2>2, <2>4
<1>12. ASSUME DeleteRecap \/ Restart \/ UNCHANGED vars PROVE TranscriptInv'
  <2>1. UNCHANGED <<rows, used, session, turns>>
      BY <1>12 DEF DeleteRecap, Restart, tables, vars
  <2>2. \A q \in Reqs : req'[q] = req[q] \/ req'[q].kind # "turn"
      BY <1>12 DEF DeleteRecap, Restart, vars, Idle
  <2> QED BY <1>q, <2>1, <2>2
<1> QED
    BY <1>1, <1>2, <1>3, <1>4, <1>5, <1>6, <1>7, <1>8, <1>9, <1>10, <1>11, <1>12
    DEF Next, Complete, DeleteSession, ClearLocalData

\* Every reachable state satisfies the invariant and the types it rests on.
LEMMA TranscriptInvariant == Spec => [](TypeOK /\ NoOrphans /\ TranscriptInv)
<1>1. Init => NoOrphans /\ TranscriptInv
    BY DEF Init, NoOrphans, TranscriptInv, TranscriptContiguous, TurnLimit, CapturedTurns, Idle
<1> QED BY <1>1, InitType, NextType, NextNoOrphans, NextTranscriptInv, PTL DEF Spec

\* A transcript has no gap and no duplicated line, and its length is the turn
\* counter, however turns, ends, forks and deletions interleave.
THEOREM TranscriptsContiguous == Spec => []TranscriptContiguous
BY TranscriptInvariant, PTL DEF TranscriptInv

\* No conversation passes its turn limit, and one that listens has no ending.
THEOREM TurnsLimited == Spec => []TurnLimit
BY TranscriptInvariant, PTL DEF TranscriptInv

\* What a turn in flight remembers of its session is at worst an older version
\* of it, for a session that may have been deleted and ids that never return.
THEOREM CapturedRowsOld == Spec => []CapturedTurns
BY TranscriptInvariant, PTL DEF TranscriptInv

-----------------------------------------------------------------------------
(***************************************************************************)
(* What the tables say about each other.  Every step is sorted first by    *)
(* what it does to one session (the lemma StepKinds); each invariant then  *)
(* looks at five kinds instead of twenty actions.                          *)
(***************************************************************************)

-----------------------------------------------------------------------------
(***************************************************************************)
(* What a step may do to session s.                                        *)
(***************************************************************************)
Indexed(s) == {entry[2] : entry \in {x \in fts : x[1] = s}}
IfSaved(s, numbers) == IF session[s].setup.save THEN numbers ELSE {}

InRange(state) == \A v \in Vars : state[v] \in Lo[v] .. Hi[v]

\* A reply, or an input stop, makes `snap` of `old` and fires `ids`.
LegalStep(old, snap, ids) ==
    /\ snap \in Snapshot
    /\ ids \in SUBSET Events
    /\ snap.fired = old.fired \cup ids
    /\ \A e \in ids : e \in Repeats \/ e \notin old.fired
    /\ \/ snap.vars = old.vars
       \/ /\ snap.vars \in VarState
          /\ InRange(Base(old.vars)) =>
                \A v \in Vars : /\ snap.vars[v] \in Lo[v] .. Hi[v]
                                /\ snap.vars[v] - Base(old.vars)[v] \in -MaxDelta[v] .. MaxDelta[v]

\* The scenario events of turn n among the rows it logs are `ids`.
Logs(log, n, ids) ==
    /\ \A ev \in log : ev.type = "scenario_event" <=> \E e \in ids : ev = Event(n, "scenario_event", e)
    /\ \A e \in ids : Event(n, "scenario_event", e) \in log

SameState(s) == /\ session'[s].snap = session[s].snap
                /\ session'[s].count = session[s].count
                /\ session'[s].setup = session[s].setup

SameLog(s) == \A e \in Events : Firings(s, e)' = Firings(s, e)

Kept(s) == /\ s \in rows /\ SameState(s) /\ SameLog(s)
           /\ turns'[s] = turns[s] /\ branch'[s] = branch[s]
           /\ Indexed(s)' = Indexed(s)

Opened(s) == /\ s \in rows /\ SameState(s) /\ SameLog(s)
             /\ 0 \notin Numbers(s)
             /\ turns'[s] = turns[s] \cup {OpeningRow} /\ branch'[s] = branch[s]
             /\ Indexed(s)' = Indexed(s) \cup IfSaved(s, {0})

Played(s, snap, ids) ==
    LET n == session[s].count + 1
    IN  /\ s \in rows /\ 0 \in Numbers(s)
        /\ LegalStep(session[s].snap, snap, ids)
        /\ session'[s].snap = snap /\ session'[s].count = n
        /\ session'[s].setup = session[s].setup
        /\ turns'[s] = turns[s] \cup {PlayerRow(n), NpcRow(n, snap)}
        /\ branch'[s] = branch[s]
        /\ Indexed(s)' = Indexed(s) \cup IfSaved(s, {2 * n - 1, 2 * n})
        /\ \A e \in Events :
              Firings(s, e)' = Firings(s, e) \cup
                  (IF e \in ids THEN {Event(n, "scenario_event", e)} ELSE {})

NoFirings(s) == \A e \in Events : Firings(s, e)' = {}

Created(s) == /\ s \notin used /\ NoFirings(s)
              /\ session'[s].count = 0 /\ session'[s].snap.fired = {}
              /\ Base(session'[s].snap.vars) = InitialState
              /\ turns'[s] = {} \/ (turns'[s] = {OpeningRow} /\ ~session'[s].setup.save)
              /\ branch'[s] = NoBranch
              /\ Indexed(s)' = {}

Forked(s, p, f) ==
    /\ s \notin used /\ NoFirings(s)
    /\ p \in rows /\ p \in rows' /\ turns'[p] = turns[p] /\ SameState(p)
    /\ f \in 1 .. session[p].count
    /\ session'[s].count = f - 1 /\ session'[s].setup = session[p].setup
    /\ \/ f = 1 /\ session'[s].snap = FreshSnapshot
       \/ f > 1 /\ \E row \in ForkPrefix(p, f) : /\ row.n = 2 * (f - 1)
                                                 /\ row.snap # NoSnapshot
                                                 /\ session'[s].snap = row.snap
    /\ turns'[s] = ForkPrefix(p, f)
    /\ branch'[s] = [fork |-> f, parent |-> p]
    /\ Indexed(s)' = IF session'[s].setup.save THEN {row.n : row \in ForkPrefix(p, f)} ELSE {}

Kind(s) == \/ Kept(s) \/ Opened(s) \/ Created(s)
           \/ \E snap, ids : Played(s, snap, ids)
           \/ \E p, f : Forked(s, p, f)

\* The search index speaks only of ids that were given out.
IndexedUsed == \A entry \in fts : entry[1] \in used

\* A turn in flight whose session is still at the turn it read has read the
\* session's snapshot, and the setup never changes.
CapturedCurrent ==
    \A r \in Reqs : req[r].kind = "turn" /\ req[r].sid \in rows =>
        LET now == session[req[r].sid]
        IN  /\ req[r].row.setup = now.setup
            /\ (req[r].row.count = now.count => req[r].row.snap = now.snap)

\* What the first module of proofs has established of every state.
Known == TypeOK /\ NoOrphans /\ TranscriptInv

-----------------------------------------------------------------------------
(***************************************************************************)
(* Lemmas for the kinds.                                                   *)
(***************************************************************************)
LEMMA IndexedIs ==
    ASSUME fts \subseteq Sess \X Nat, NEW s
    PROVE  /\ Indexed(s) \subseteq Nat
           /\ \A n \in Nat : n \in Indexed(s) <=> <<s, n>> \in fts
BY DEF Indexed

\* A step that keeps what belongs to a session.
LEMMA KeptRow ==
    ASSUME NEW s \in rows, SameState(s), events'[s] = events[s], turns'[s] = turns[s],
           branch'[s] = branch[s], \A n : <<s, n>> \in fts' <=> <<s, n>> \in fts,
           fts \subseteq Sess \X Nat, fts' \subseteq Sess \X Nat
    PROVE  Kept(s)
<1>1. SameLog(s)
    BY DEF SameLog, Firings
<1>2. Indexed(s)' = Indexed(s)
  <2>1. \A n : n \in Indexed(s) <=> n \in Nat /\ <<s, n>> \in fts
      BY DEF Indexed
  <2>2. \A n : n \in Indexed(s)' <=> n \in Nat /\ <<s, n>> \in fts'
      BY DEF Indexed
  <2> QED BY <2>1, <2>2
<1> QED BY <1>1, <1>2 DEF Kept

\* Lines added to the index are those of one session.
LEMMA IndexGrows ==
    ASSUME fts \subseteq Sess \X Nat, NEW s \in Sess, NEW numbers \in SUBSET Nat, NEW save \in BOOLEAN,
           fts' = fts \cup IndexEntries(s, numbers, save)
    PROVE  /\ fts' \subseteq Sess \X Nat
           /\ Indexed(s)' = Indexed(s) \cup (IF save THEN numbers ELSE {})
           /\ \A x \in Sess \ {s} : \A n : <<x, n>> \in fts' <=> <<x, n>> \in fts
<1>1. fts' \subseteq Sess \X Nat
    BY DEF IndexEntries
<1>2. \A n \in Nat : <<s, n>> \in fts' <=> <<s, n>> \in fts \/ (save /\ n \in numbers)
    BY DEF IndexEntries
<1>3. \A n : n \in Indexed(s) <=> n \in Nat /\ <<s, n>> \in fts
    BY DEF Indexed
<1>4. \A n : n \in Indexed(s)' <=> n \in Nat /\ <<s, n>> \in fts'
    BY <1>1 DEF Indexed
<1>5. Indexed(s)' = Indexed(s) \cup (IF save THEN numbers ELSE {})
    BY <1>2, <1>3, <1>4
<1>6. \A x \in Sess \ {s} : \A n : <<x, n>> \in fts' <=> <<x, n>> \in fts
    BY DEF IndexEntries
<1> QED BY <1>1, <1>5, <1>6

\* Nothing is indexed under an id that was not given out.
LEMMA NotIndexed ==
    ASSUME IndexedUsed, NEW s, s \notin used
    PROVE  Indexed(s) = {}
BY DEF IndexedUsed, Indexed

\* What a reply makes of the row it was given is a LegalStep.
LEMMA ReplyOfResult ==
    ASSUME NEW row \in SessionRow, NEW out \in TurnOutputs
    PROVE  LegalStep(row.snap, TurnResult(row, out).snap, TurnResult(row, out).triggered)
<1> DEFINE n == NextTurn(row)
           state == ApplyDelta(Base(row.snap.vars), out.delta)
           ids == Triggered(state, n, row.snap.fired, out.flags)
<1>1. row.snap.vars \in VarState \cup {Uninitialised}
    BY DEF SessionRow, Snapshot
<1>2. Base(row.snap.vars) \in VarState
    BY <1>1, BaseType
<1>3. \A v \in DOMAIN out.delta : out.delta[v] \in Int
    BY EngineAssumption
<1>4. /\ state \in VarState
      /\ InRange(Base(row.snap.vars)) =>
            \A v \in Vars : /\ state[v] \in Lo[v] .. Hi[v]
                            /\ state[v] - Base(row.snap.vars)[v] \in -MaxDelta[v] .. MaxDelta[v]
    BY <1>2, <1>3, DeltaBounded DEF InRange
<1>5. \A e \in ids : e \in Repeats \/ e \notin row.snap.fired
    BY DEF Triggered
<1>6. /\ TurnResult(row, out).snap = [vars |-> state, fired |-> FiredNow(row.snap.fired, ids)]
      /\ TurnResult(row, out).triggered = ids
    BY DEF TurnResult
<1>7. TurnResult(row, out).snap \in Snapshot /\ TurnResult(row, out).triggered \in SUBSET Events
    BY TurnResultType
<1> HIDE DEF state, ids
<1>8. /\ TurnResult(row, out).snap.vars = state
      /\ TurnResult(row, out).snap.fired = row.snap.fired \cup ids
    BY <1>6 DEF FiredNow
<1> QED BY <1>4, <1>5, <1>6, <1>7, <1>8 DEF LegalStep

\* A recorded turn of the session's state is a Played.
LEMMA RecordPlays ==
    ASSUME TypeOK, NEW s \in rows, 0 \in Numbers(s), NEW snap, NEW ids, NEW log, NEW n,
           n = session[s].count + 1,
           LegalStep(session[s].snap, snap, ids),
           RecordTurn(s, n, snap, log, session[s].setup.save),
           Logs(log, n, ids),
           session'[s].snap = snap, session'[s].count = n,
           session'[s].setup = session[s].setup, branch' = branch
    PROVE  Played(s, snap, ids)
<1>1. /\ s \in Sess /\ n \in Nat /\ n > 0 /\ fts \subseteq Sess \X Nat
      /\ session[s].setup.save \in BOOLEAN
    BY DEF TypeOK, SessionRow
<1>2. turns'[s] = turns[s] \cup {PlayerRow(n), NpcRow(n, snap)} /\ events'[s] = events[s] \cup log
    BY <1>1 DEF RecordTurn, TypeOK
<1>3. Indexed(s)' = Indexed(s) \cup IfSaved(s, {2 * n - 1, 2 * n})
  <2>1. fts' = fts \cup IndexEntries(s, {2 * n - 1, 2 * n}, session[s].setup.save)
      BY DEF RecordTurn
  <2>2. {2 * n - 1, 2 * n} \in SUBSET Nat
    <3>1. 2 * n - 1 \in Nat /\ 2 * n \in Nat
        BY <1>1
    <3> QED BY <3>1
  <2> QED BY <1>1, <2>1, <2>2, IndexGrows DEF IfSaved
<1>4. ASSUME NEW e \in Events
      PROVE  Firings(s, e)' = Firings(s, e) \cup
                (IF e \in ids THEN {Event(n, "scenario_event", e)} ELSE {})
  <2>1. Firings(s, e)' = Firings(s, e) \cup {ev \in log : ev.type = "scenario_event" /\ ev.id = e}
      BY <1>2 DEF Firings
  <2>2. \A ev \in log : ev.type = "scenario_event" /\ ev.id = e <=>
                           e \in ids /\ ev = Event(n, "scenario_event", e)
      BY DEF Event, Logs
  <2>3. {ev \in log : ev.type = "scenario_event" /\ ev.id = e} =
           IF e \in ids THEN {Event(n, "scenario_event", e)} ELSE {}
      BY <2>2 DEF Logs
  <2> QED BY <2>1, <2>3
<1> QED BY <1>2, <1>3, <1>4 DEF Played

-----------------------------------------------------------------------------
(***************************************************************************)
(* Every step, seen from one session.                                      *)
(***************************************************************************)
\* The row a turn in flight remembers, when its result is recorded, is the
\* present one: its numbers would be taken otherwise.
LEMMA RecordedIsCurrent ==
    ASSUME Known, CapturedCurrent, NEW r \in Reqs, req[r].kind = "turn",
           NEW snap, NEW log, NEW save,
           RecordTurn(req[r].sid, req[r].row.count + 1, snap, log, save)
    PROVE  /\ req[r].sid \in rows /\ 0 \in Numbers(req[r].sid)
           /\ req[r].row \in SessionRow
           /\ req[r].row.count = session[req[r].sid].count
           /\ req[r].row.snap = session[req[r].sid].snap
           /\ req[r].row.setup = session[req[r].sid].setup
<1>1. req[r].row \in SessionRow
    BY DEF Known, TypeOK, Request, Idle
<1>2. PICK s \in rows : s = req[r].sid
    BY DEF RecordTurn, Insertable
<1>3. 0 \in Numbers(s) /\ req[r].row.count <= session[s].count
    BY <1>2 DEF Known, TranscriptInv, CapturedTurns
<1>4. Sound(s) /\ req[r].row.count \in Nat
    BY <1>1, TranscriptInvParts DEF Known, SessionRow
<1>5. RecordTurn(s, req[r].row.count + 1, snap, log, save)
    BY <1>2
<1>6. req[r].row.count = session[s].count
    BY <1>3, <1>4, <1>5, RecordedIsNext DEF Known
<1> QED BY <1>1, <1>2, <1>3, <1>6 DEF CapturedCurrent

LEMMA StepKinds ==
    ASSUME Known, CapturedCurrent, IndexedUsed, [Next]_vars, NEW x \in rows'
    PROVE  Kind(x)
<1>t. /\ session \in [Sess -> SessionRow] /\ turns \in [Sess -> SUBSET TurnRow]
      /\ events \in [Sess -> SUBSET EventRow] /\ branch \in [Sess -> {NoBranch} \cup [fork : Nat \ {0}, parent : Sess]]
      /\ req \in [Reqs -> Request] /\ rows \subseteq used /\ used \subseteq Sess
      /\ fts \subseteq Sess \X Nat /\ TypeOK
    BY DEF Known, TypeOK
<1>u. fts' \subseteq Sess \X Nat
    BY <1>t, NextType DEF TypeOK
\* Steps that leave session x and its tables.
<1>k. ASSUME x \in rows, SameState(x), events'[x] = events[x], turns'[x] = turns[x],
             branch'[x] = branch[x], \A n : <<x, n>> \in fts' <=> <<x, n>> \in fts
      PROVE  Kind(x)
    BY <1>k, <1>t, <1>u, KeptRow DEF Kind
<1>1. ASSUME NEW s \in Sess, NEW setup \in Setups, CreateSession(s, setup) PROVE Kind(x)
  <2>1. /\ s \notin used /\ rows' = rows \cup {s}
        /\ session' = [session EXCEPT ![s] = NewRow("NotStarted", FreshSnapshot, 0, setup)]
        /\ UNCHANGED <<turns, events, branch, fts>>
      BY <1>1 DEF CreateSession, InsertSession
  <2>2. CASE x = s
    <3>1. turns[s] = {} /\ events[s] = {} /\ branch[s] = NoBranch
        BY <2>1, <1>t DEF Known, NoOrphans
    <3>2. session'[s] = NewRow("NotStarted", FreshSnapshot, 0, setup)
        BY <2>1, <1>t
    <3>3. session'[s].count = 0 /\ session'[s].snap = FreshSnapshot
        BY <3>2 DEF NewRow
    <3>4. Indexed(s)' = {} /\ NoFirings(s)
        BY <2>1, <3>1, NotIndexed DEF Indexed, NoFirings, Firings
    <3>5. FreshSnapshot.fired = {} /\ Base(FreshSnapshot.vars) = InitialState
        BY DEF FreshSnapshot, Base
    <3> QED BY <2>1, <2>2, <3>1, <3>3, <3>4, <3>5 DEF Kind, Created
  <2>3. CASE x # s
      BY <1>k, <1>t, <2>1, <2>3 DEF SameState
  <2> QED BY <2>2, <2>3
<1>2. ASSUME NEW s \in Sess, CreateTestSession(s) PROVE Kind(x)
  <2> DEFINE row == NewRow("PlayerTurnListening", [vars |-> InitialState, fired |-> {}], 0,
                           [save |-> FALSE, tts |-> FALSE])
  <2>1. /\ s \notin used /\ rows' = rows \cup {s}
        /\ session' = [session EXCEPT ![s] = row]
        /\ turns' = [turns EXCEPT ![s] = {OpeningRow}]
        /\ UNCHANGED <<events, branch, fts>>
      BY <1>2 DEF CreateTestSession, InsertSession
  <2>2. row.count = 0 /\ row.snap = [vars |-> InitialState, fired |-> {}] /\ ~row.setup.save
      BY DEF NewRow
  <2> HIDE DEF row
  <2>3. CASE x = s
    <3>1. events[s] = {} /\ branch[s] = NoBranch
        BY <2>1, <1>t DEF Known, NoOrphans
    <3>2. session'[s] = row /\ turns'[s] = {OpeningRow}
        BY <2>1, <1>t
    <3>4. Indexed(s)' = {} /\ NoFirings(s)
        BY <2>1, <3>1, NotIndexed DEF Indexed, NoFirings, Firings
    <3>5. row.snap.fired = {} /\ Base(row.snap.vars) = InitialState
        BY <2>2 DEF Base
    <3> QED BY <2>1, <2>2, <2>3, <3>1, <3>2, <3>4, <3>5 DEF Kind, Created
  <2>4. CASE x # s
      BY <1>k, <1>t, <2>1, <2>4 DEF SameState
  <2> QED BY <2>3, <2>4
<1>3. ASSUME NEW r \in Reqs, NEW s \in Sess, StartSession(r, s) PROVE Kind(x)
  <2>1. /\ s \in rows /\ 0 \notin Numbers(s) /\ rows' = rows
        /\ session' = [session EXCEPT ![s].flow = "PlayerTurnListening"]
        /\ turns' = [turns EXCEPT ![s] = @ \cup {OpeningRow}]
        /\ fts' = fts \cup IndexEntries(s, {0}, session[s].setup.save)
        /\ UNCHANGED <<events, branch>>
      BY <1>3 DEF StartSession
  <2>2. SameState(x)
      BY <2>1, <1>t DEF SameState, SessionRow
  <2>3. /\ Indexed(s)' = Indexed(s) \cup IfSaved(s, {0})
        /\ \A y \in Sess \ {s} : \A n : <<y, n>> \in fts' <=> <<y, n>> \in fts
    <3>1. {0} \in SUBSET Nat /\ session[s].setup.save \in BOOLEAN
        BY <1>t DEF SessionRow
    <3> QED BY <2>1, <3>1, <1>t, IndexGrows DEF IfSaved
  <2>4. CASE x = s
    <3>1. turns'[s] = turns[s] \cup {OpeningRow} /\ SameLog(s) /\ branch'[s] = branch[s]
        BY <2>1, <1>t DEF SameLog, Firings
    <3> QED BY <2>1, <2>2, <2>3, <2>4, <3>1 DEF Kind, Opened
  <2>5. CASE x # s
      BY <1>k, <1>t, <2>1, <2>2, <2>3, <2>5
  <2> QED BY <2>4, <2>5
\* Steps that record a turn of s.
<1>r. ASSUME NEW s \in rows, 0 \in Numbers(s), NEW snap, NEW ids, NEW log, NEW n,
             n = session[s].count + 1,
             LegalStep(session[s].snap, snap, ids),
             RecordTurn(s, n, snap, log, session[s].setup.save),
             Logs(log, n, ids),
             session'[s].snap = snap, session'[s].count = n,
             session'[s].setup = session[s].setup,
             \A y \in Sess \ {s} : session'[y] = session[y],
             rows' = rows, branch' = branch
      PROVE  Kind(x)
  <2>1. CASE x = s
      BY <1>r, <1>t, <2>1, RecordPlays DEF Kind
  <2>2. CASE x # s
    <3>1. turns'[x] = turns[x] /\ events'[x] = events[x] /\ session'[x] = session[x]
        BY <1>r, <1>t, <2>2 DEF RecordTurn
    <3>2. \A m : <<x, m>> \in fts' <=> <<x, m>> \in fts
        BY <1>r, <2>2 DEF RecordTurn, IndexEntries
    <3> QED BY <1>k, <1>r, <3>1, <3>2 DEF SameState
  <2> QED BY <2>1, <2>2
<1>4. ASSUME NEW r \in Reqs, NEW s \in Sess, StopAtInput(r, s) PROVE Kind(x)
  <2> DEFINE n == session[s].count + 1
             log == {Event(n, "input_safety_stop", "none"), Event(n, "session_ending", "safety_stop")}
  <2>1. /\ s \in rows /\ session[s].flow = "PlayerTurnListening"
        /\ RecordTurn(s, n, session[s].snap, log, session[s].setup.save)
        /\ session' = [session EXCEPT ![s].count = n, ![s].flow = "Ended", ![s].ending = "safety_stop"]
        /\ rows' = rows /\ branch' = branch
      BY <1>4 DEF StopAtInput, CanSubmit, NextTurn
  <2>2. 0 \in Numbers(s)
      BY <2>1 DEF Known, TranscriptInv, TranscriptContiguous
  <2>3. /\ session'[s].snap = session[s].snap /\ session'[s].count = n
        /\ session'[s].setup = session[s].setup
        /\ \A y \in Sess \ {s} : session'[y] = session[y]
      BY <2>1, <1>t DEF SessionRow
  <2>4. LegalStep(session[s].snap, session[s].snap, {})
      BY <1>t DEF LegalStep, SessionRow
  <2>5. \A ev \in log : ev.type # "scenario_event"
      BY DEF Event
  <2>6. Logs(log, n, {})
      BY <2>5 DEF Logs
  <2>7. n = session[s].count + 1
      OBVIOUS
  <2> HIDE DEF log, n
  <2> QED BY <1>r, <2>1, <2>2, <2>3, <2>4, <2>6, <2>7
<1>5. ASSUME NEW r \in Reqs, NEW out \in TurnOutputs, PersistTurn(r, out) PROVE Kind(x)
  <2> DEFINE s == req[r].sid
             row == req[r].row
             res == TurnResult(row, out)
             log == {Event(res.turn, "scenario_event", e) : e \in res.triggered}
                        \cup EndingEvents(res.turn, res.ending)
  <2>1. /\ req[r].kind = "turn"
        /\ RecordTurn(s, res.turn, res.snap, log, row.setup.save)
        /\ session' = [session EXCEPT
                ![s].snap = res.snap, ![s].count = res.turn,
                ![s].flow = IF res.ending = "none" THEN "PlayerTurnListening" ELSE "Ended",
                ![s].ending = res.ending]
        /\ rows' = rows /\ branch' = branch
      BY <1>5 DEF PersistTurn
  <2>2. row \in SessionRow
      BY <2>1, <1>t DEF Request, Idle
  <2>3. res.turn = row.count + 1
      BY <2>2, TurnResultType
  <2>4. /\ s \in rows /\ 0 \in Numbers(s) /\ row.count = session[s].count
        /\ row.snap = session[s].snap /\ row.setup = session[s].setup
      BY <2>1, <2>3, RecordedIsCurrent
  <2>5. LegalStep(session[s].snap, res.snap, res.triggered)
      BY <2>2, <2>4, ReplyOfResult
  <2>6. Logs(log, res.turn, res.triggered)
      BY DEF Logs, EndingEvents, Event
  <2> HIDE DEF s, res, log, row
  <2>7. /\ session'[s].snap = res.snap /\ session'[s].count = res.turn
        /\ session'[s].setup = session[s].setup
        /\ \A y \in Sess \ {s} : session'[y] = session[y]
      BY <2>1, <2>4, <1>t DEF SessionRow
  <2>8. RecordTurn(s, res.turn, res.snap, log, session[s].setup.save) /\ res.turn = session[s].count + 1
      BY <2>1, <2>3, <2>4
  <2> QED BY <1>r, <2>1, <2>4, <2>5, <2>6, <2>7, <2>8
\* Steps that touch no line and no index entry.
<1>6. ASSUME rows' = rows, UNCHANGED <<turns, branch, fts>>,
             \A s \in Sess : SameState(s) /\ SameLog(s)
      PROVE  Kind(x)
    BY <1>6, <1>t DEF Kind, Kept, Indexed
<1>7. ASSUME NEW r \in Reqs, SpeakLine(r) PROVE Kind(x)
  <2>1. /\ req[r].kind = "tts"
        /\ events' = events \/ events' = [events EXCEPT ![req[r].sid] =
                                 @ \cup {Event(req[r].turn, "tts_audio_chunk", "none")}]
        /\ UNCHANGED <<rows, session, turns, branch, fts>>
      BY <1>7 DEF SpeakLine
  <2>2. \A s \in Sess : SameLog(s)
      BY <2>1, <1>t DEF SameLog, Firings, Event
  <2> QED BY <1>6, <2>1, <2>2 DEF SameState
<1>8. ASSUME NEW r \in Reqs,
             \/ RejectTurn(r) \/ TurnRuntimeError(r) \/ SpeechUnavailable(r) \/ TakeFailure(r)
             \/ \E s \in Sess : SubmitTurn(r, s) \/ BeginDebrief(r, s)
             \/ StoreDebrief(r) \/ FailDebrief(r)
      PROVE  Kind(x)
  <2>1. UNCHANGED <<rows, turns, events, branch, fts>>
      BY <1>8 DEF RejectTurn, TurnRuntimeError, SpeechUnavailable, TakeFailure, SubmitTurn,
                  BeginDebrief, StoreDebrief, FailDebrief, tables
  <2>2. \A s \in Sess : SameState(s)
    <3>1. CASE session' = session
        BY <3>1 DEF SameState
    <3>2. CASE \E s \in Sess : BeginDebrief(r, s)
        BY <3>2, <1>t DEF BeginDebrief, SameState, SessionRow
    <3>3. CASE StoreDebrief(r)
      <4>1. session' = [session EXCEPT ![req[r].sid].flow = "DebriefReady", ![req[r].sid].endedAt = TRUE]
          BY <3>3 DEF StoreDebrief
      <4> QED BY <4>1, <1>t DEF SessionRow, SameState
    <3>4. CASE FailDebrief(r)
        BY <3>4, <1>t DEF FailDebrief, SameState, SessionRow
    <3> QED BY <1>8, <3>1, <3>2, <3>3, <3>4
          DEF RejectTurn, TurnRuntimeError, SpeechUnavailable, TakeFailure, SubmitTurn, tables
  <2>3. \A s \in Sess : SameLog(s)
      BY <2>1 DEF SameLog, Firings
  <2> QED BY <1>6, <2>1, <2>2, <2>3
<1>9. ASSUME NEW s \in Sess, EndSession(s) \/ ReuseDebrief(s) PROVE Kind(x)
  <2>1. UNCHANGED <<rows, turns, events, branch, fts>>
      BY <1>9 DEF EndSession, ReuseDebrief
  <2>2. \A y \in Sess : SameState(y)
      BY <1>9, <1>t DEF EndSession, ReuseDebrief, SameState, SessionRow
  <2>3. \A y \in Sess : SameLog(y)
      BY <2>1 DEF SameLog, Firings
  <2> QED BY <1>6, <2>1, <2>2, <2>3
<1>10. ASSUME NEW p \in Sess, NEW b \in Sess, NEW f \in 1 .. MaxTurns, ForkSession(p, f, b)
       PROVE  Kind(x)
  <2>1. /\ p \in rows /\ f \in 1 .. session[p].count
        /\ turns' = [turns EXCEPT ![b] = ForkPrefix(p, f)]
        /\ branch' = [branch EXCEPT ![b] = [fork |-> f, parent |-> p]]
        /\ fts' = fts \cup IndexEntries(b, {row.n : row \in ForkPrefix(p, f)}, session[p].setup.save)
        /\ events' = events
      BY <1>10 DEF ForkSession
  <2>2. PICK snap : /\ InsertBranch(p, f, b, snap)
                    /\ \/ f = 1 /\ snap = FreshSnapshot
                       \/ f > 1 /\ \E row \in ForkPrefix(p, f) : /\ row.n = 2 * (f - 1)
                                                                 /\ row.snap # NoSnapshot
                                                                 /\ snap = row.snap
    <3>1. CASE f = 1 /\ InsertBranch(p, f, b, FreshSnapshot)
        BY <3>1
    <3>2. CASE f > 1 /\ \E row \in ForkPrefix(p, f) : /\ row.n = 2 * (f - 1)
                                                      /\ row.snap # NoSnapshot
                                                      /\ InsertBranch(p, f, b, row.snap)
        BY <3>2
    <3> QED BY <1>10, <3>1, <3>2 DEF ForkSession
  <2> DEFINE new == NewRow("PlayerTurnListening", snap, f - 1, session[p].setup)
  <2>3. b \notin used /\ rows' = rows \cup {b} /\ session' = [session EXCEPT ![b] = new]
      BY <2>2 DEF InsertBranch, InsertSession
  <2>4. new.snap = snap /\ new.count = f - 1 /\ new.setup = session[p].setup
      BY DEF NewRow
  <2> HIDE DEF new
  <2>5. CASE x = b
    <3>1. session'[b] = new /\ turns'[b] = ForkPrefix(p, f)
          /\ branch'[b] = [fork |-> f, parent |-> p]
        BY <2>1, <2>3, <1>t
    <3>2. p # b /\ turns'[p] = turns[p] /\ SameState(p) /\ p \in rows'
        BY <2>1, <2>3, <1>t DEF SameState
    <3>3. NoFirings(b)
        BY <2>1, <2>3, <1>t DEF NoFirings, Firings, Known, NoOrphans
    <3>4. Indexed(b)' = IF session'[b].setup.save THEN {row.n : row \in ForkPrefix(p, f)} ELSE {}
      <4>1. {row.n : row \in ForkPrefix(p, f)} \in SUBSET Nat /\ session[p].setup.save \in BOOLEAN
          BY <2>1, <1>t DEF ForkPrefix, TurnRow, SessionRow
      <4>2. Indexed(b)' = Indexed(b) \cup
               (IF session[p].setup.save THEN {row.n : row \in ForkPrefix(p, f)} ELSE {})
          BY <2>1, <4>1, <1>t, IndexGrows
      <4>3. Indexed(b) = {}
          BY <2>3, NotIndexed
      <4> QED BY <2>4, <3>1, <4>2, <4>3
    <3>5. Forked(b, p, f)
      <4>1. session'[b].snap = snap /\ session'[b].count = f - 1 /\ session'[b].setup = session[p].setup
          BY <2>4, <3>1
      <4>2. \/ f = 1 /\ session'[b].snap = FreshSnapshot
            \/ f > 1 /\ \E row \in ForkPrefix(p, f) : /\ row.n = 2 * (f - 1)
                                                      /\ row.snap # NoSnapshot
                                                      /\ session'[b].snap = row.snap
          BY <2>2, <4>1
      <4> QED BY <2>1, <2>3, <3>1, <3>2, <3>3, <3>4, <4>1, <4>2 DEF Forked
    <3> QED BY <2>5, <3>5 DEF Kind
  <2>6. CASE x # b
    <3>1. \A n : <<x, n>> \in fts' <=> <<x, n>> \in fts
        BY <2>1, <2>6 DEF IndexEntries
    <3> QED BY <1>k, <1>t, <2>1, <2>3, <2>6, <3>1 DEF SameState
  <2> QED BY <2>5, <2>6
<1>11. ASSUME NEW gone, Erase(gone), fts' = fts \/ (\E s \in gone : fts' = {entry \in fts : entry[1] # s})
       PROVE  Kind(x)
  <2>1. /\ x \in rows /\ x \notin gone /\ x \in Sess
        /\ session'[x] = session[x] /\ turns'[x] = turns[x] /\ events'[x] = events[x]
        /\ branch'[x] = branch[x]
      BY <1>11, <1>t DEF Erase
  <2>2. \A n : <<x, n>> \in fts' <=> <<x, n>> \in fts
      BY <1>11, <2>1
  <2> QED BY <1>k, <2>1, <2>2 DEF SameState
<1>12. ASSUME DeleteRecap \/ Restart \/ UNCHANGED vars PROVE Kind(x)
  <2>1. UNCHANGED <<rows, session, turns, events, branch, fts>>
      BY <1>12 DEF DeleteRecap, Restart, tables, vars
  <2> QED BY <1>6, <2>1 DEF SameState, SameLog, Firings
<1> QED
    BY <1>1, <1>2, <1>3, <1>4, <1>5, <1>7, <1>8, <1>9, <1>10, <1>11, <1>12
    DEF Next, Complete, DeleteSession, ClearLocalData

-----------------------------------------------------------------------------
(***************************************************************************)
(* Turns in flight and the search index.                                   *)
(***************************************************************************)
\* Only submitting makes a turn wait.
LEMMA TurnsInFlight ==
    ASSUME TypeOK, [Next]_vars, NEW r \in Reqs
    PROVE  \/ req'[r] = req[r]
           \/ req'[r].kind # "turn"
           \/ \E s \in Sess : SubmitTurn(r, s)
<1>t. req \in [Reqs -> Request]
    BY DEF TypeOK
<1>1. ASSUME NEW q \in Reqs, NEW s \in Sess,
             StartSession(q, s) \/ StopAtInput(q, s) \/ SubmitTurn(q, s) \/ BeginDebrief(q, s)
      PROVE  req'[r] = req[r] \/ req'[r].kind # "turn" \/ SubmitTurn(r, s)
  <2>1. CASE q = r
      BY <1>1, <1>t, <2>1 DEF StartSession, StopAtInput, BeginDebrief, AfterLine, AwaitTts, AwaitDebrief, Idle
  <2>2. CASE q # r
      BY <1>1, <1>t, <2>2 DEF StartSession, StopAtInput, SubmitTurn, BeginDebrief
  <2> QED BY <2>1, <2>2
<1>2. ASSUME NEW q \in Reqs, Complete(q) PROVE req'[r] = req[r] \/ req'[r].kind # "turn"
  <2>1. ASSUME NEW new, req' = [req EXCEPT ![q] = new], new.kind # "turn"
        PROVE  req'[r] = req[r] \/ req'[r].kind # "turn"
      BY <2>1, <1>t
  <2>2. CASE \E out \in TurnOutputs : PersistTurn(q, out)
    <3>1. PICK out \in TurnOutputs : PersistTurn(q, out)
        BY <2>2
    <3> DEFINE new == AfterLine(req[q].sid, TurnResult(req[q].row, out).turn,
                                req[q].row.setup.tts /\ ~out.fallback)
    <3>2. req' = [req EXCEPT ![q] = new]
        BY <3>1 DEF PersistTurn
    <3>3. new.kind # "turn"
        BY DEF AfterLine, AwaitTts, Idle
    <3> HIDE DEF new
    <3> QED BY <2>1, <3>2, <3>3
  <2>3. CASE \/ RejectTurn(q) \/ TurnRuntimeError(q) \/ FailDebrief(q)
             \/ SpeakLine(q) \/ SpeechUnavailable(q) \/ StoreDebrief(q) \/ TakeFailure(q)
    <3>1. PICK new \in {Idle} \cup {Failed(c) : c \in {"turn", "runtime", "debrief", "tts"}} :
             req' = [req EXCEPT ![q] = new]
        BY <2>3 DEF RejectTurn, TurnRuntimeError, FailDebrief, SpeakLine, SpeechUnavailable, StoreDebrief, TakeFailure
    <3>2. new.kind # "turn"
        BY <3>1 DEF Idle, Failed
    <3> QED BY <2>1, <3>1, <3>2
  <2> QED BY <1>2, <2>2, <2>3 DEF Complete
<1>3. ASSUME \/ \E s \in Sess, setup \in Setups : CreateSession(s, setup)
             \/ \E s \in Sess : CreateTestSession(s) \/ EndSession(s) \/ ReuseDebrief(s) \/ DeleteSession(s)
             \/ \E p, b \in Sess, f \in 1 .. MaxTurns : ForkSession(p, f, b)
             \/ ClearLocalData \/ DeleteRecap \/ UNCHANGED vars
      PROVE  req'[r] = req[r]
    BY <1>3 DEF CreateSession, CreateTestSession, EndSession, ReuseDebrief, DeleteSession, ForkSession,
                ClearLocalData, DeleteRecap, vars
<1>4. CASE Restart
    BY <1>4 DEF Restart, Idle
<1> QED BY <1>1, <1>2, <1>3, <1>4 DEF Next

LEMMA CapturedStep ==
    ASSUME Known, CapturedCurrent, IndexedUsed, [Next]_vars
    PROVE  CapturedCurrent'
<1> SUFFICES ASSUME NEW r \in Reqs, req'[r].kind = "turn", req'[r].sid \in rows'
             PROVE  LET now == session'[req'[r].sid]
                    IN  /\ req'[r].row.setup = now.setup
                        /\ (req'[r].row.count = now.count => req'[r].row.snap = now.snap)
    BY DEF CapturedCurrent
<1>1. CASE req'[r] = req[r]
  <2>1. req[r].kind = "turn" /\ req[r].row \in SessionRow
      BY <1>1 DEF Known, TypeOK, Request, Idle
  <2>2. PICK x \in rows' : x = req[r].sid
      BY <1>1
  <2>3. x \in used
      BY <2>1, <2>2 DEF Known, TranscriptInv, CapturedTurns
  <2>4. x \in rows => /\ req[r].row.count <= session[x].count
                      /\ req[r].row.setup = session[x].setup
                      /\ (req[r].row.count = session[x].count => req[r].row.snap = session[x].snap)
      BY <2>1, <2>2 DEF Known, TranscriptInv, CapturedTurns, CapturedCurrent
  <2>5. Kind(x)
      BY StepKinds
  <2>6. /\ x \in rows
        /\ session'[x].setup = session[x].setup
        /\ \/ session'[x].count = session[x].count /\ session'[x].snap = session[x].snap
           \/ session'[x].count = session[x].count + 1
      BY <2>3, <2>5 DEF Kind, Kept, Opened, Created, Played, Forked, SameState
  <2>7. req[r].row.count \in Nat /\ session[x].count \in Nat
      BY <2>1, <2>6 DEF SessionRow, Known, TypeOK
  <2> QED BY <1>1, <2>2, <2>4, <2>6, <2>7
<1>2. CASE \E s \in Sess : SubmitTurn(r, s)
  <2>1. PICK s \in Sess : SubmitTurn(r, s)
      BY <1>2
  <2>2. req'[r] = AwaitTurn(s) /\ session' = session
      BY <2>1 DEF SubmitTurn, tables, Known, TypeOK
  <2> QED BY <2>2 DEF AwaitTurn
<1> QED BY <1>1, <1>2, TurnsInFlight DEF Known

\* Ids are given out and never taken back.
LEMMA UsedGrows ==
    ASSUME TypeOK, [Next]_vars
    PROVE  used \subseteq used'
<1>1. CASE \/ \E s \in Sess, setup \in Setups : CreateSession(s, setup)
           \/ \E s \in Sess : CreateTestSession(s)
           \/ \E p, b \in Sess, f \in 1 .. MaxTurns : ForkSession(p, f, b)
    BY <1>1 DEF CreateSession, CreateTestSession, ForkSession, InsertBranch, InsertSession, TypeOK
<1>2. CASE \/ \E r \in Reqs, s \in Sess : \/ StartSession(r, s) \/ StopAtInput(r, s)
                                          \/ SubmitTurn(r, s) \/ BeginDebrief(r, s)
           \/ \E s \in Sess : EndSession(s) \/ ReuseDebrief(s) \/ DeleteSession(s)
           \/ ClearLocalData \/ DeleteRecap \/ Restart \/ UNCHANGED vars
    BY <1>2 DEF StartSession, StopAtInput, SubmitTurn, BeginDebrief, EndSession, ReuseDebrief, DeleteSession,
                ClearLocalData, DeleteRecap, Restart, tables, vars, TypeOK
<1>3. CASE \E r \in Reqs : Complete(r)
  <2>1. PICK r \in Reqs : Complete(r)
      BY <1>3
  <2>2. (\E out \in TurnOutputs : PersistTurn(r, out)) => used' = used
      BY DEF PersistTurn
  <2>3. RejectTurn(r) \/ TurnRuntimeError(r) \/ SpeakLine(r) \/ SpeechUnavailable(r) \/ StoreDebrief(r)
          \/ FailDebrief(r) \/ TakeFailure(r) => used' = used
      BY DEF RejectTurn, TurnRuntimeError, SpeakLine, SpeechUnavailable, StoreDebrief, FailDebrief, TakeFailure, tables
  <2> QED BY <2>1, <2>2, <2>3 DEF Complete, TypeOK
<1> QED BY <1>1, <1>2, <1>3 DEF Next

LEMMA IndexedUsedStep ==
    ASSUME Known, IndexedUsed, [Next]_vars
    PROVE  IndexedUsed'
<1>1. used \subseteq used' /\ rows \subseteq used
    BY UsedGrows DEF Known, TypeOK
<1>2. ASSUME NEW entry \in fts', entry \notin fts PROVE entry[1] \in used'
  <2>1. CASE \E p, b \in Sess, f \in 1 .. MaxTurns : ForkSession(p, f, b)
      BY <1>2, <2>1 DEF ForkSession, InsertBranch, InsertSession, IndexEntries
  <2>2. CASE \E r \in Reqs, s \in Sess : StartSession(r, s) \/ StopAtInput(r, s)
      BY <1>1, <1>2, <2>2 DEF StartSession, StopAtInput, RecordTurn, Insertable, IndexEntries
  <2>3. CASE \E r \in Reqs, out \in TurnOutputs : PersistTurn(r, out)
    <3>1. PICK r \in Reqs, out \in TurnOutputs : PersistTurn(r, out)
        BY <2>3
    <3> DEFINE n == TurnResult(req[r].row, out).turn
    <3>2. /\ req[r].sid \in rows
          /\ fts' = fts \cup IndexEntries(req[r].sid, {2 * n - 1, 2 * n}, req[r].row.setup.save)
        BY <3>1 DEF PersistTurn, RecordTurn, Insertable
    <3> HIDE DEF n
    <3>3. entry[1] = req[r].sid
        BY <1>2, <3>2 DEF IndexEntries
    <3> QED BY <1>1, <3>2, <3>3
  <2>4. ~(fts' \subseteq fts)
      BY <1>2
  <2>5. \/ fts' \subseteq fts
        \/ \E p, b \in Sess, f \in 1 .. MaxTurns : ForkSession(p, f, b)
        \/ \E r \in Reqs, s \in Sess : StartSession(r, s) \/ StopAtInput(r, s)
        \/ \E r \in Reqs, out \in TurnOutputs : PersistTurn(r, out)
      BY DEF Next, Complete, CreateSession, CreateTestSession, SubmitTurn, BeginDebrief,
             RejectTurn, TurnRuntimeError, SpeakLine, SpeechUnavailable, StoreDebrief, FailDebrief,
             TakeFailure, EndSession, ReuseDebrief, DeleteSession, ClearLocalData, DeleteRecap, Restart, tables, vars
  <2> QED BY <2>1, <2>2, <2>3, <2>4, <2>5
<1> QED BY <1>1, <1>2 DEF IndexedUsed

LEMMA SearchStep ==
    ASSUME Known, CapturedCurrent, IndexedUsed, SearchMatchesTranscript, [Next]_vars
    PROVE  SearchMatchesTranscript'
<1> SUFFICES ASSUME NEW x \in rows'
             PROVE  Indexed(x)' = IF session'[x].setup.save THEN Numbers(x)' ELSE {}
    BY DEF SearchMatchesTranscript, Indexed
<1>0. x \in rows => Indexed(x) = IF session[x].setup.save THEN Numbers(x) ELSE {}
    BY DEF SearchMatchesTranscript, Indexed
<1>1. CASE Kept(x)
    BY <1>0, <1>1 DEF Kept, SameState, Numbers
<1>2. CASE Opened(x)
  <2>1. Numbers(x)' = Numbers(x) \cup {0}
    <3>1. turns'[x] = turns[x] \cup {OpeningRow} /\ OpeningRow.n = 0
        BY <1>2 DEF Opened, OpeningRow
    <3> QED BY <3>1 DEF Numbers
  <2> QED BY <1>0, <1>2, <2>1 DEF Opened, SameState, IfSaved
<1>3. CASE Created(x)
    BY <1>3 DEF Created, Numbers
<1>4. ASSUME NEW snap, NEW ids, Played(x, snap, ids)
      PROVE  Indexed(x)' = IF session'[x].setup.save THEN Numbers(x)' ELSE {}
  <2> DEFINE n == session[x].count + 1
  <2>1. Numbers(x)' = Numbers(x) \cup {2 * n - 1, 2 * n}
    <3>1. turns'[x] = turns[x] \cup {PlayerRow(n), NpcRow(n, snap)}
        BY <1>4 DEF Played
    <3>2. PlayerRow(n).n = 2 * n - 1 /\ NpcRow(n, snap).n = 2 * n
        BY DEF PlayerRow, NpcRow
    <3> QED BY <3>1, <3>2 DEF Numbers
  <2>2. /\ x \in rows /\ session'[x].setup = session[x].setup
        /\ Indexed(x)' = Indexed(x) \cup IfSaved(x, {2 * n - 1, 2 * n})
      BY <1>4 DEF Played
  <2> HIDE DEF n
  <2> QED BY <1>0, <2>1, <2>2 DEF IfSaved
<1>5. ASSUME NEW p, NEW f, Forked(x, p, f)
      PROVE  Indexed(x)' = IF session'[x].setup.save THEN Numbers(x)' ELSE {}
    BY <1>5 DEF Forked, Numbers
<1> QED BY <1>1, <1>2, <1>3, <1>4, <1>5, StepKinds DEF Kind

-----------------------------------------------------------------------------
(***************************************************************************)
(* Snapshots.                                                              *)
(***************************************************************************)
\* A session before its first turn holds the fresh state or, when the workbench
\* made it, the initial one; every snapshot there is lies in the ranges.
Ranged ==
    \A s \in rows : /\ InRange(Base(session[s].snap.vars))
                    /\ \A row \in turns[s] : row.snap # NoSnapshot => InRange(Base(row.snap.vars))
                    /\ session[s].count = 0 => session[s].snap.fired = {}

SnapshotInv == StateIsLastTurn /\ Ranged

\* The part of StateIsLastTurn about one session.
LastTurn(s) ==
    /\ session[s].count > 0 => SnapshotsAt(s, session[s].count) = {session[s].snap}
    /\ session[s].count = 0 => Base(session[s].snap.vars) = InitialState
    /\ \A k \in 1 .. session[s].count :
          \A old \in SnapshotsAt(s, k - 1), new \in SnapshotsAt(s, k) : Follows(old, new)
    /\ InRange(Base(session[s].snap.vars))
    /\ \A row \in turns[s] : row.snap # NoSnapshot => InRange(Base(row.snap.vars))
    /\ session[s].count = 0 => session[s].snap.fired = {}

LEMMA SnapshotInvParts == SnapshotInv <=> \A s \in rows : LastTurn(s)
BY DEF SnapshotInv, StateIsLastTurn, Ranged, LastTurn

\* A reply to a state in range is in range and follows every snapshot that
\* stands for the state.
LEMMA ReplyFollows ==
    ASSUME NEW old \in Snapshot, NEW snap, NEW ids, LegalStep(old, snap, ids), InRange(Base(old.vars)),
           NEW before, before = old \/ (before = FreshSnapshot /\ Base(old.vars) = InitialState)
    PROVE  Follows(before, snap) /\ InRange(Base(snap.vars))
<1>1. /\ before.fired \subseteq snap.fired
      /\ Base(before.vars) = Base(old.vars)
      /\ before.vars = old.vars \/ before.vars = Uninitialised
    BY DEF LegalStep, FreshSnapshot, Base
<1>2. CASE snap.vars = old.vars
  <2>1. Base(snap.vars) = Base(old.vars)
      BY <1>2
  <2>2. CASE before.vars = snap.vars
      BY <1>1, <2>1, <2>2 DEF Follows
  <2>3. CASE before.vars # snap.vars
    <3>1. before.vars = Uninitialised /\ snap.vars # Uninitialised
        BY <1>1, <1>2, <2>3
    <3>2. snap.vars = Base(before.vars)
        BY <1>1, <1>2, <3>1 DEF Base
    <3>3. \A v \in Vars : snap.vars[v] \in Lo[v] .. Hi[v]
        BY <1>1, <3>2 DEF InRange
    <3>4. \A v \in Vars : snap.vars[v] - Base(before.vars)[v] \in -MaxDelta[v] .. MaxDelta[v]
      <4> TAKE v \in Vars
      <4>1. Lo[v] \in Int /\ Hi[v] \in Int /\ MaxDelta[v] \in Nat
          BY ScenarioAssumption
      <4>2. snap.vars[v] \in Int
          BY <3>3, <4>1
      <4>3. snap.vars[v] - Base(before.vars)[v] = 0
          BY <3>2, <4>2
      <4> QED BY <4>1, <4>3
    <3> QED BY <1>1, <2>1, <3>3, <3>4 DEF Follows
  <2> QED BY <2>1, <2>2, <2>3
<1>3. CASE snap.vars # old.vars
  <2>1. /\ snap.vars \in VarState
        /\ \A v \in Vars : /\ snap.vars[v] \in Lo[v] .. Hi[v]
                           /\ snap.vars[v] - Base(old.vars)[v] \in -MaxDelta[v] .. MaxDelta[v]
      BY <1>3 DEF LegalStep
  <2>2. Base(snap.vars) = snap.vars
      BY <2>1, UninitialisedDistinct DEF Base
  <2> QED BY <1>1, <2>1, <2>2 DEF Follows, InRange
<1> QED BY <1>2, <1>3

\* What a played turn does to the snapshots.
LEMMA PlayedSnapshots ==
    ASSUME TypeOK, NEW s \in rows, Sound(s), NEW snap, NEW ids, Played(s, snap, ids),
           NEW c \in Nat, c = session[s].count
    PROVE  /\ \A k \in 0 .. c : SnapshotsAt(s, k)' = SnapshotsAt(s, k)
           /\ SnapshotsAt(s, c + 1)' = {snap}
           /\ \A k \in 0 .. c :
                 {row \in turns'[s] : row.n <= 2 * k} = {row \in turns[s] : row.n <= 2 * k}
           /\ 0 \in Numbers(s)'
<1>1. c \in Nat /\ \A row \in turns[s] : row.n \in 0 .. 2 * c
  <2>1. Numbers(s) = 0 .. 2 * c
      BY DEF Sound, Played
  <2>2. \A row \in turns[s] : row.n \in Numbers(s)
      BY DEF Numbers
  <2> QED BY <2>1, <2>2
<1>2. turns'[s] = turns[s] \cup {PlayerRow(c + 1), NpcRow(c + 1, snap)}
    BY DEF Played
<1>3. PlayerRow(c + 1).n = 2 * c + 1 /\ NpcRow(c + 1, snap).n = 2 * c + 2 /\ NpcRow(c + 1, snap).snap = snap
    BY <1>1 DEF PlayerRow, NpcRow
<1>4. \A k \in 0 .. c : {row \in turns'[s] : row.n = 2 * k} = {row \in turns[s] : row.n = 2 * k}
    BY <1>1, <1>2, <1>3
<1>5. \A k \in 0 .. c : {row \in turns'[s] : row.n <= 2 * k} = {row \in turns[s] : row.n <= 2 * k}
    BY <1>1, <1>2, <1>3
<1>6. {row \in turns'[s] : row.n = 2 * (c + 1)} = {NpcRow(c + 1, snap)}
    BY <1>1, <1>2, <1>3
<1>7. \A k \in 0 .. c : SnapshotsAt(s, k)' = SnapshotsAt(s, k)
    BY <1>4 DEF SnapshotsAt
<1>8. SnapshotsAt(s, c + 1)' = {snap}
  <2>1. SnapshotsAt(s, c + 1)' = {row.snap : row \in {x \in turns'[s] : x.n = 2 * (c + 1)}}
      BY <1>1 DEF SnapshotsAt
  <2>2. SnapshotsAt(s, c + 1)' = {row.snap : row \in {NpcRow(c + 1, snap)}}
      BY <1>6, <2>1
  <2> QED BY <1>3, <2>2
<1>9. 0 \in Numbers(s)'
    BY <1>2 DEF Played, Numbers
<1> QED BY <1>5, <1>7, <1>8, <1>9

\* An opening adds no snapshot.
LEMMA OpenedSnapshots ==
    ASSUME NEW s, Opened(s)
    PROVE  \A k \in Nat : SnapshotsAt(s, k)' = SnapshotsAt(s, k)
<1> TAKE k \in Nat
<1>1. turns'[s] = turns[s] \cup {OpeningRow} /\ OpeningRow.n = 0
    BY DEF Opened, OpeningRow
<1>2. k # 0 => {row \in turns'[s] : row.n = 2 * k} = {row \in turns[s] : row.n = 2 * k}
    BY <1>1
<1> QED BY <1>2 DEF SnapshotsAt

\* A branch has the snapshots of its parent before the fork.
LEMMA ForkedSnapshots ==
    ASSUME TypeOK, NEW s, NEW p, NEW f, Forked(s, p, f)
    PROVE  \A k \in 0 .. f - 1 : SnapshotsAt(s, k)' = SnapshotsAt(p, k)
<1> TAKE k \in 0 .. f - 1
<1>1. f \in Int /\ session[p].count \in Nat
    BY DEF Forked, TypeOK, SessionRow
<1>2. turns'[s] = {row \in turns[p] : row.n <= 2 * (f - 1)}
    BY DEF Forked, ForkPrefix
<1>3. {row \in turns'[s] : row.n = 2 * k} = {row \in turns[p] : row.n = 2 * k}
    BY <1>1, <1>2
<1> QED BY <1>3 DEF SnapshotsAt

LEMMA SnapshotStep ==
    ASSUME Known, CapturedCurrent, IndexedUsed, SnapshotInv, [Next]_vars
    PROVE  SnapshotInv'
<1> SUFFICES ASSUME NEW x \in rows' PROVE LastTurn(x)'
  <2>1. (\A x \in rows' : LastTurn(x)') => SnapshotInv'
      BY SnapshotInvParts DEF SnapshotInv, StateIsLastTurn, Ranged, LastTurn
  <2> QED BY <2>1
<1>t. /\ session \in [Sess -> SessionRow] /\ turns \in [Sess -> SUBSET TurnRow] /\ rows \subseteq Sess /\ TypeOK
    BY DEF Known, TypeOK
<1>s. \A s \in rows : LastTurn(s) /\ Sound(s)
    BY SnapshotInvParts, TranscriptInvParts DEF Known
<1>1. CASE Kept(x)
  <2>1. \A k : SnapshotsAt(x, k)' = SnapshotsAt(x, k)
      BY <1>1 DEF Kept, SnapshotsAt
  <2>2. x \in rows /\ SameState(x) /\ turns'[x] = turns[x]
      BY <1>1 DEF Kept
  <2> QED BY <1>s, <2>1, <2>2 DEF LastTurn, SameState
<1>2. CASE Opened(x)
  <2>1. x \in rows /\ SameState(x) /\ turns'[x] = turns[x] \cup {OpeningRow} /\ OpeningRow.snap = NoSnapshot
      BY <1>2 DEF Opened, OpeningRow
  <2>2. session[x].count \in Nat
      BY <1>t, <2>1 DEF SessionRow
  <2>3. \A k \in Nat : SnapshotsAt(x, k)' = SnapshotsAt(x, k)
      BY <1>2, OpenedSnapshots
  <2>4. \A k \in 1 .. session[x].count : k \in Nat /\ k - 1 \in Nat
      BY <2>2
  <2> QED BY <1>s, <2>1, <2>2, <2>3, <2>4 DEF LastTurn, SameState
<1>3. CASE Created(x)
  <2>1. session'[x].count = 0 /\ Base(session'[x].snap.vars) = InitialState /\ session'[x].snap.fired = {}
      BY <1>3 DEF Created
  <2>2. \A row \in turns'[x] : row.snap = NoSnapshot
      BY <1>3 DEF Created, OpeningRow
  <2>3. InRange(InitialState)
      BY InitialStateType DEF InRange
  <2> QED BY <2>1, <2>2, <2>3 DEF LastTurn
<1>4. ASSUME NEW snap, NEW ids, Played(x, snap, ids) PROVE LastTurn(x)'
  <2>0. PICK c \in Nat, old \in Snapshot : c = session[x].count /\ old = session[x].snap
      BY <1>4, <1>t DEF Played, SessionRow
  <2>1. /\ x \in rows /\ LegalStep(old, snap, ids) /\ session'[x].count = c + 1 /\ session'[x].snap = snap
        /\ turns'[x] = turns[x] \cup {PlayerRow(c + 1), NpcRow(c + 1, snap)}
      BY <1>4, <2>0 DEF Played
  <2>2. LastTurn(x) /\ Sound(x)
      BY <1>s, <2>1
  <2>3. /\ \A k \in 0 .. c : SnapshotsAt(x, k)' = SnapshotsAt(x, k)
        /\ SnapshotsAt(x, c + 1)' = {snap}
    <3>1. x \in rows /\ c \in Nat /\ c = session[x].count /\ Sound(x)
        BY <2>0, <2>1, <2>2
    <3>2. TypeOK /\ Played(x, snap, ids)
        BY <1>4, <1>t
    <3> HIDE <1>4, <2>0, <2>1, <2>2
    <3> QED BY <3>1, <3>2, PlayedSnapshots
  <2>4. \A before \in SnapshotsAt(x, c) : before = old \/ (before = FreshSnapshot /\ Base(old.vars) = InitialState)
      BY <2>0, <2>2 DEF LastTurn, SnapshotsAt
  <2>5. InRange(Base(old.vars))
      BY <2>0, <2>2 DEF LastTurn
  <2>6. /\ \A before \in SnapshotsAt(x, c) : Follows(before, snap)
        /\ InRange(Base(snap.vars))
    <3>1. \A before \in SnapshotsAt(x, c) : Follows(before, snap)
        BY <2>1, <2>2, <2>4, <2>5, ReplyFollows
    <3>2. InRange(Base(snap.vars))
        BY <2>1, <2>2, <2>5, ReplyFollows
    <3> QED BY <3>1, <3>2
  <2>7. \A row \in turns'[x] : row.snap # NoSnapshot => InRange(Base(row.snap.vars))
    <3>1. PlayerRow(c + 1).snap = NoSnapshot /\ NpcRow(c + 1, snap).snap = snap
        BY DEF PlayerRow, NpcRow
    <3> QED BY <2>1, <2>2, <2>6, <3>1 DEF LastTurn
  <2>8. \A k \in 1 .. c : \A a \in SnapshotsAt(x, k - 1), b \in SnapshotsAt(x, k) : Follows(a, b)
      BY <2>0, <2>2 DEF LastTurn
  <2>9. ASSUME NEW k \in 1 .. c + 1, NEW a \in SnapshotsAt(x, k - 1)', NEW b \in SnapshotsAt(x, k)'
        PROVE  Follows(a, b)
    <3>1. CASE k = c + 1
      <4>1. k - 1 = c /\ c \in 0 .. c
          BY <2>2, <3>1
      <4>2. a \in SnapshotsAt(x, c) /\ b = snap
          BY <2>3, <2>9, <3>1, <4>1
      <4> QED BY <2>6, <4>2
    <3>2. CASE k # c + 1
      <4>1. k \in 1 .. c /\ k - 1 \in 0 .. c /\ k \in 0 .. c
          BY <2>2, <3>2
      <4> QED BY <2>3, <2>8, <2>9, <4>1
    <3> QED BY <3>1, <3>2
  <2>10. c + 1 > 0 /\ c + 1 # 0
      OBVIOUS
  <2> QED BY <2>1, <2>3, <2>6, <2>7, <2>9, <2>10 DEF LastTurn
<1>5. ASSUME NEW p, NEW f, Forked(x, p, f) PROVE LastTurn(x)'
  <2>1. /\ p \in rows /\ f \in 1 .. session[p].count /\ session'[x].count = f - 1
        /\ turns'[x] = ForkPrefix(p, f)
        /\ \/ f = 1 /\ session'[x].snap = FreshSnapshot
           \/ f > 1 /\ \E row \in ForkPrefix(p, f) : /\ row.n = 2 * (f - 1)
                                                     /\ row.snap # NoSnapshot
                                                     /\ session'[x].snap = row.snap
      BY <1>5 DEF Forked
  <2>2. session[p].count \in Nat /\ f \in Nat /\ LastTurn(p) /\ Sound(p)
      BY <1>s, <1>t, <2>1 DEF SessionRow
  <2>3. \A k \in 0 .. f - 1 : SnapshotsAt(x, k)' = SnapshotsAt(p, k)
      BY <1>5, <1>t, ForkedSnapshots
  <2>4. \A row \in turns'[x] : row \in turns[p] /\ (row.snap # NoSnapshot => InRange(Base(row.snap.vars)))
      BY <2>1, <2>2 DEF ForkPrefix, LastTurn
  <2>5. ASSUME NEW k \in 1 .. f - 1, NEW a \in SnapshotsAt(x, k - 1)', NEW b \in SnapshotsAt(x, k)'
        PROVE  Follows(a, b)
    <3>1. k \in 1 .. session[p].count /\ k - 1 \in 0 .. f - 1 /\ k \in 0 .. f - 1
        BY <2>1, <2>2
    <3>2. a \in SnapshotsAt(p, k - 1) /\ b \in SnapshotsAt(p, k)
        BY <2>3, <2>5, <3>1
    <3> QED BY <2>2, <3>1, <3>2 DEF LastTurn
  <2>6. CASE f = 1
    <3>1. session'[x].snap = FreshSnapshot
        BY <2>1, <2>6
    <3>2. Base(FreshSnapshot.vars) = InitialState /\ FreshSnapshot.fired = {} /\ InRange(InitialState)
        BY InitialStateType DEF FreshSnapshot, Base, InRange
    <3> QED BY <2>1, <2>4, <2>5, <2>6, <3>1, <3>2 DEF LastTurn
  <2>7. CASE f > 1
    <3>1. PICK row \in turns'[x] : row.n = 2 * (f - 1) /\ row.snap # NoSnapshot /\ session'[x].snap = row.snap
        BY <2>1, <2>7
    <3>2. SnapshotsAt(x, f - 1)' = {row.snap}
      <4>1. \A y \in turns'[x] : y.n = 2 * (f - 1) => y = row
          BY <2>2, <2>4, <3>1 DEF Sound
      <4>2. {y \in turns'[x] : y.n = 2 * (f - 1)} = {row}
          BY <3>1, <4>1
      <4>3. f - 1 # 0
          BY <2>7
      <4>4. SnapshotsAt(x, f - 1)' = {y.snap : y \in {z \in turns'[x] : z.n = 2 * (f - 1)}}
          BY <4>3 DEF SnapshotsAt
      <4>5. SnapshotsAt(x, f - 1)' = {y.snap : y \in {row}}
          BY <4>2, <4>4
      <4> QED BY <4>5
    <3>3. InRange(Base(row.snap.vars))
        BY <2>4, <3>1
    <3>4. session'[x].count # 0 /\ session'[x].count = f - 1
        BY <2>1, <2>2, <2>7
    <3>5. f - 1 \in Nat
        BY <2>2, <2>7
    <3> QED BY <2>4, <2>5, <3>1, <3>2, <3>3, <3>4 DEF LastTurn
  <2> QED BY <2>1, <2>2, <2>6, <2>7
<1> QED BY <1>1, <1>2, <1>3, <1>4, <1>5, StepKinds DEF Kind

-----------------------------------------------------------------------------
(***************************************************************************)
(* Branches.                                                               *)
(***************************************************************************)
PrefixOf(s, k) == {row \in turns[s] : row.n <= 2 * k}

\* A branch has not gone back behind its fork, and its parent, while it lasts,
\* has reached it; both have the same lines before it.  No new session can take
\* the parent's place.
ForkOf(b) ==
    branch[b] # NoBranch =>
        LET p == branch[b].parent
            f == branch[b].fork
        IN  /\ p \in used /\ 0 \in Numbers(b) /\ f - 1 <= session[b].count
            /\ p \in rows => /\ f <= session[p].count
                             /\ PrefixOf(b, f - 1) = PrefixOf(p, f - 1)

BranchInv == \A b \in rows : ForkOf(b)

\* A session that was there stays as it was up to any turn it has completed.
LEMMA PrefixKept ==
    ASSUME Known, NEW x \in rows, Kind(x), 0 \in Numbers(x), NEW k \in Nat, k <= session[x].count
    PROVE  /\ PrefixOf(x, k)' = PrefixOf(x, k)
           /\ 0 \in Numbers(x)' /\ branch'[x] = branch[x]
           /\ session'[x].count >= session[x].count /\ session'[x].count \in Nat
<1>1. session[x].count \in Nat /\ x \in used /\ Sound(x)
    BY TranscriptInvParts DEF Known, TypeOK, SessionRow
<1>2. CASE Kept(x)
    BY <1>1, <1>2 DEF Kept, SameState, PrefixOf, Numbers
<1>3. ASSUME NEW snap, NEW ids, Played(x, snap, ids)
      PROVE  /\ PrefixOf(x, k)' = PrefixOf(x, k)
             /\ 0 \in Numbers(x)' /\ branch'[x] = branch[x]
             /\ session'[x].count >= session[x].count /\ session'[x].count \in Nat
  <2>1. PICK c \in Nat : c = session[x].count
      BY <1>1
  <2>2. k \in 0 .. c
      BY <2>1
  <2>3. PrefixOf(x, k)' = PrefixOf(x, k) /\ 0 \in Numbers(x)'
    <3>1. /\ TypeOK /\ Sound(x) /\ Played(x, snap, ids)
          /\ c = session[x].count
        BY <1>1, <1>3, <2>1 DEF Known
    <3>2. /\ {row \in turns'[x] : row.n <= 2 * k} = {row \in turns[x] : row.n <= 2 * k}
          /\ 0 \in Numbers(x)'
        BY <2>2, <3>1, PlayedSnapshots
    <3> QED BY <3>2 DEF PrefixOf
  <2>4. session'[x].count = c + 1 /\ branch'[x] = branch[x]
      BY <1>3, <2>1 DEF Played
  <2> QED BY <2>1, <2>3, <2>4
<1>4. ~Opened(x) /\ ~Created(x) /\ ~ \E p, f : Forked(x, p, f)
    BY <1>1 DEF Opened, Created, Forked
<1> QED BY <1>2, <1>3, <1>4 DEF Kind

LEMMA BranchStep ==
    ASSUME Known, CapturedCurrent, IndexedUsed, BranchInv, [Next]_vars
    PROVE  BranchInv'
<1> SUFFICES ASSUME NEW b \in rows', branch'[b] # NoBranch PROVE ForkOf(b)'
    BY DEF BranchInv, ForkOf
<1>t. /\ branch \in [Sess -> {NoBranch} \cup [fork : Nat \ {0}, parent : Sess]]
      /\ rows \subseteq used /\ used \subseteq Sess
      /\ session \in [Sess -> SessionRow]
    BY DEF Known, TypeOK
<1>u. used \subseteq used' /\ rows' \subseteq used' /\ session' \in [Sess -> SessionRow]
  <2>1. TypeOK'
      BY NextType DEF Known
  <2>2. used \subseteq used'
      BY UsedGrows DEF Known
  <2> QED BY <2>1, <2>2 DEF TypeOK
<1>1. ASSUME NEW p, NEW f, Forked(b, p, f) PROVE ForkOf(b)'
  <2>1. /\ p \in rows /\ p \in rows' /\ turns'[p] = turns[p] /\ SameState(p)
        /\ f \in 1 .. session[p].count /\ session'[b].count = f - 1
        /\ turns'[b] = ForkPrefix(p, f) /\ branch'[b] = [fork |-> f, parent |-> p]
      BY <1>1 DEF Forked
  <2>2. session[p].count \in Nat /\ Sound(p)
      BY <1>t, <2>1, TranscriptInvParts DEF Known, SessionRow
  <2>3. 0 \in Numbers(b)'
    <3>1. Numbers(p) = 0 .. 2 * session[p].count
        BY <2>1, <2>2 DEF Sound
    <3>2. 0 \in Numbers(p)
        BY <2>2, <3>1
    <3>3. PICK row \in turns[p] : row.n = 0
        BY <3>2 DEF Numbers
    <3>4. row \in turns'[b]
        BY <2>1, <2>2, <3>3 DEF ForkPrefix
    <3> QED BY <3>3, <3>4 DEF Numbers
  <2>4. PrefixOf(b, f - 1)' = PrefixOf(p, f - 1)'
      BY <2>1 DEF PrefixOf, ForkPrefix
  <2>5. p \in used' /\ f - 1 <= session'[b].count /\ f <= session'[p].count
      BY <1>u, <2>1, <2>2 DEF SameState
  <2>6. branch'[b].parent = p /\ branch'[b].fork = f
      BY <2>1
  <2>7. PrefixOf(b, branch[b].fork - 1)' = PrefixOf(branch[b].parent, branch[b].fork - 1)'
      BY <2>4, <2>6 DEF PrefixOf
  <2> QED BY <2>3, <2>5, <2>6, <2>7 DEF ForkOf
<1>2. ASSUME b \in rows, branch'[b] = branch[b], 0 \in Numbers(b),
             \A k \in Nat : k <= session[b].count => PrefixOf(b, k)' = PrefixOf(b, k),
             0 \in Numbers(b)', session'[b].count >= session[b].count
      PROVE  ForkOf(b)'
  <2>1. PICK p \in Sess, f \in Nat \ {0} : branch[b] = [fork |-> f, parent |-> p]
      BY <1>2, <1>t
  <2>2. /\ p \in used /\ f - 1 <= session[b].count
        /\ p \in rows => f <= session[p].count /\ PrefixOf(b, f - 1) = PrefixOf(p, f - 1)
      BY <1>2, <2>1 DEF BranchInv, ForkOf
  <2>3. session[b].count \in Nat /\ session'[b].count \in Nat /\ f - 1 \in Nat
      BY <1>2, <1>t, <1>u, <2>1 DEF SessionRow
  <2>4. p \in used' /\ f - 1 <= session'[b].count
      BY <1>2, <1>u, <2>2, <2>3
  <2>5. ASSUME p \in rows'
        PROVE  f <= session'[p].count /\ PrefixOf(b, f - 1)' = PrefixOf(p, f - 1)'
    <3>1. Kind(p)
        BY <2>5, StepKinds
    <3>2. p \in rows
        BY <2>2, <3>1 DEF Kind, Kept, Opened, Created, Played, Forked
    <3>3. session[p].count \in Nat /\ Sound(p)
        BY <1>t, <3>2, TranscriptInvParts DEF Known, SessionRow
    <3>4. 0 \in Numbers(p) /\ f - 1 <= session[p].count
      <4>1. Numbers(p) = 0 .. 2 * session[p].count
          BY <2>2, <3>2, <3>3 DEF Sound
      <4> QED BY <2>2, <3>2, <3>3, <4>1
    <3>5. /\ PrefixOf(p, f - 1)' = PrefixOf(p, f - 1)
          /\ session'[p].count >= session[p].count /\ session'[p].count \in Nat
        BY <2>3, <3>1, <3>2, <3>4, PrefixKept
    <3>6. PrefixOf(b, f - 1)' = PrefixOf(b, f - 1)
        BY <1>2, <2>2, <2>3
    <3> QED BY <2>2, <3>2, <3>3, <3>5, <3>6
  <2>6. branch'[b].parent = p /\ branch'[b].fork = f
      BY <1>2, <2>1
  <2>7. p \in rows' => PrefixOf(b, branch[b].fork - 1)' = PrefixOf(branch[b].parent, branch[b].fork - 1)'
      BY <2>5, <2>6 DEF PrefixOf
  <2> QED BY <1>2, <2>4, <2>5, <2>6, <2>7 DEF ForkOf
<1>3. CASE b \in rows
  <2>1. Kind(b)
      BY StepKinds
  <2>2. branch'[b] = branch[b]
      BY <1>3, <1>t, <2>1 DEF Kind, Kept, Opened, Created, Played, Forked
  <2>3. 0 \in Numbers(b)
      BY <1>3, <2>2 DEF BranchInv, ForkOf
  <2>4. 0 \in Numbers(b)' /\ session'[b].count >= session[b].count
    <3>1. 0 \in Nat /\ 0 <= session[b].count
        BY <1>3, <1>t DEF SessionRow
    <3> QED BY <1>3, <2>1, <2>3, <3>1, PrefixKept
  <2>5. \A k \in Nat : k <= session[b].count => PrefixOf(b, k)' = PrefixOf(b, k)
      BY <1>3, <2>1, <2>3, PrefixKept
  <2> QED BY <1>2, <1>3, <2>2, <2>3, <2>4, <2>5
<1>4. CASE b \notin rows
  <2>1. Created(b) \/ \E p, f : Forked(b, p, f)
      BY <1>4, StepKinds DEF Kind, Kept, Opened, Played
  <2>2. ~Created(b)
      BY DEF Created
  <2> QED BY <1>1, <2>1, <2>2
<1> QED BY <1>3, <1>4

-----------------------------------------------------------------------------
(***************************************************************************)
(* Scenario events.                                                        *)
(***************************************************************************)
FiredFor(s) ==
    /\ session[s].snap.fired = Inherited(s) \cup {e \in Events : Firings(s, e) # {}}
    /\ \A e \in Events \ Repeats :
          /\ Cardinality(Firings(s, e)) <= 1
          /\ e \in Inherited(s) => Firings(s, e) = {}

\* What a branch inherits does not change when it is played on.
LEMMA InheritedKept ==
    ASSUME Known, BranchInv, NEW x \in rows,
           Kept(x) \/ Opened(x) \/ \E snap, ids : Played(x, snap, ids)
    PROVE  Inherited(x)' = Inherited(x)
<1>0. branch'[x] = branch[x]
    BY DEF Kept, Opened, Played
<1>1. CASE branch[x] = NoBranch
    BY <1>0, <1>1 DEF Inherited
<1>2. CASE branch[x] # NoBranch
  <2>1. PICK k \in Nat : k = branch[x].fork - 1
      BY <1>2 DEF Known, TypeOK
  <2>2. PICK c \in Nat : c = session[x].count
      BY DEF Known, TypeOK, SessionRow
  <2>3. k <= c
      BY <1>2, <2>1, <2>2 DEF BranchInv, ForkOf
  <2>4. SnapshotsAt(x, k)' = SnapshotsAt(x, k)
    <3>1. CASE Kept(x)
        BY <3>1 DEF Kept, SnapshotsAt
    <3>2. CASE Opened(x)
        BY <3>2, OpenedSnapshots
    <3>3. ASSUME NEW snap, NEW ids, Played(x, snap, ids) PROVE SnapshotsAt(x, k)' = SnapshotsAt(x, k)
      <4>1. k \in 0 .. c /\ Sound(x) /\ TypeOK
          BY <2>3, TranscriptInvParts DEF Known
      <4> QED BY <2>2, <3>3, <4>1, PlayedSnapshots
    <3> QED BY <3>1, <3>2, <3>3
  <2>5. Inherited(x) = UNION {snap.fired : snap \in SnapshotsAt(x, k)}
      BY <1>2, <2>1 DEF Inherited
  <2>6. branch'[x] # NoBranch /\ branch'[x].fork - 1 = k
      BY <1>0, <1>2, <2>1
  <2>7. SnapshotsAt(x, branch[x].fork - 1)' = SnapshotsAt(x, k)'
      BY <2>6 DEF SnapshotsAt
  <2>8. Inherited(x)' = UNION {snap.fired : snap \in SnapshotsAt(x, k)'}
      BY <2>6, <2>7 DEF Inherited
  <2> QED BY <2>4, <2>5, <2>8
<1> QED BY <1>1, <1>2

LEMMA FiredStep ==
    ASSUME Known, CapturedCurrent, IndexedUsed, BranchInv, SnapshotInv, FiredOnce, [Next]_vars
    PROVE  FiredOnce'
<1> SUFFICES ASSUME NEW x \in rows' PROVE FiredFor(x)'
    BY DEF FiredOnce, FiredFor
<1>f. \A s \in rows : FiredFor(s)
    BY DEF FiredOnce, FiredFor
<1>1. CASE Kept(x) \/ Opened(x)
  <2>1. x \in rows /\ Inherited(x)' = Inherited(x) /\ SameState(x) /\ SameLog(x)
      BY <1>1, InheritedKept DEF Kept, Opened
  <2>2. \A e \in Events : Firings(x, e)' = Firings(x, e)
      BY <2>1 DEF SameLog
  <2>3. {e \in Events : Firings(x, e)' # {}} = {e \in Events : Firings(x, e) # {}}
      BY <2>2
  <2>4. session'[x].snap = session[x].snap
      BY <2>1 DEF SameState
  <2>5. /\ session[x].snap.fired = Inherited(x) \cup {e \in Events : Firings(x, e) # {}}
        /\ \A e \in Events \ Repeats : /\ Cardinality(Firings(x, e)) <= 1
                                       /\ e \in Inherited(x) => Firings(x, e) = {}
      BY <1>f, <2>1 DEF FiredFor
  <2>6. session'[x].snap.fired = Inherited(x)' \cup {e \in Events : Firings(x, e)' # {}}
      BY <2>1, <2>3, <2>4, <2>5
  <2>7. \A e \in Events \ Repeats : /\ Cardinality(Firings(x, e)') <= 1
                                    /\ e \in Inherited(x)' => Firings(x, e)' = {}
      BY <2>1, <2>2, <2>5
  <2> QED BY <2>6, <2>7 DEF FiredFor
<1>2. CASE Created(x)
  <2>1. Inherited(x)' = {} /\ session'[x].snap.fired = {} /\ \A e \in Events : Firings(x, e)' = {}
      BY <1>2 DEF Created, NoFirings, Inherited
  <2>2. Cardinality({}) = 0
      BY FS_EmptySet
  <2> QED BY <2>1, <2>2 DEF FiredFor
<1>3. ASSUME NEW snap, NEW ids, Played(x, snap, ids) PROVE FiredFor(x)'
  <2>1. PICK n \in Nat : n = session[x].count + 1
      BY <1>3 DEF Played, Known, TypeOK, SessionRow
  <2>2. /\ x \in rows /\ session'[x].snap = snap
        /\ snap.fired = session[x].snap.fired \cup ids /\ ids \in SUBSET Events
        /\ \A e \in ids : e \in Repeats \/ e \notin session[x].snap.fired
        /\ \A e \in Events : Firings(x, e)' = Firings(x, e) \cup
                                (IF e \in ids THEN {Event(n, "scenario_event", e)} ELSE {})
      BY <1>3, <2>1 DEF Played, LegalStep
  <2>3. Inherited(x)' = Inherited(x)
      BY <1>3, <2>2, InheritedKept
  <2>4. /\ session[x].snap.fired = Inherited(x) \cup {e \in Events : Firings(x, e) # {}}
        /\ \A e \in Events \ Repeats : /\ Cardinality(Firings(x, e)) <= 1
                                       /\ e \in Inherited(x) => Firings(x, e) = {}
      BY <1>f, <2>2 DEF FiredFor
  <2>5. {e \in Events : Firings(x, e)' # {}} = {e \in Events : Firings(x, e) # {}} \cup ids
      BY <2>2
  <2>6. session'[x].snap.fired = Inherited(x)' \cup {e \in Events : Firings(x, e)' # {}}
      BY <2>2, <2>3, <2>4, <2>5
  <2>7. ASSUME NEW e \in Events \ Repeats
        PROVE  /\ Cardinality(Firings(x, e)') <= 1
               /\ e \in Inherited(x)' => Firings(x, e)' = {}
    <3>1. CASE e \in ids
      <4>1. e \notin Inherited(x) /\ Firings(x, e) = {}
          BY <2>2, <2>4, <3>1
      <4>2. Firings(x, e)' = {Event(n, "scenario_event", e)}
          BY <2>2, <3>1, <4>1
      <4>3. Cardinality({Event(n, "scenario_event", e)}) = 1
          BY FS_Singleton
      <4> QED BY <2>3, <4>1, <4>2, <4>3
    <3>2. CASE e \notin ids
      <4>1. Firings(x, e)' = Firings(x, e)
          BY <2>2, <3>2
      <4> QED BY <2>3, <2>4, <4>1
    <3> QED BY <3>1, <3>2
  <2> QED BY <2>6, <2>7 DEF FiredFor
<1>4. ASSUME NEW p, NEW f, Forked(x, p, f) PROVE FiredFor(x)'
  <2>1. /\ branch'[x] = [fork |-> f, parent |-> p] /\ session'[x].count = f - 1
        /\ f \in 1 .. session[p].count /\ p \in rows
        /\ f = 1 => session'[x].snap = FreshSnapshot
        /\ \A e \in Events : Firings(x, e)' = {}
      BY <1>4 DEF Forked, NoFirings
  <2>2. f \in Nat /\ f > 0
      BY <2>1 DEF Known, TypeOK, SessionRow
  <2>3. SnapshotsAt(x, f - 1)' = {session'[x].snap}
    <3>1. CASE f = 1
        BY <2>1, <3>1 DEF SnapshotsAt
    <3>2. CASE f > 1
      <4>1. session'[x].count > 0
          BY <2>1, <2>2, <3>2
      <4>2. SnapshotsAt(x, session[x].count)' = {session'[x].snap}
          BY <4>1, SnapshotStep DEF SnapshotInv, StateIsLastTurn
      <4>3. SnapshotsAt(x, session[x].count)' = SnapshotsAt(x, f - 1)'
          BY <2>1 DEF SnapshotsAt
      <4> QED BY <4>2, <4>3
    <3> QED BY <2>2, <3>1, <3>2
  <2>4. Inherited(x)' = session'[x].snap.fired
    <3>1. branch'[x] # NoBranch /\ branch'[x].fork - 1 = f - 1
        BY <2>1, <2>2 DEF NoBranch
    <3>2. SnapshotsAt(x, branch[x].fork - 1)' = SnapshotsAt(x, f - 1)'
        BY <3>1 DEF SnapshotsAt
    <3>3. Inherited(x)' = UNION {snap.fired : snap \in {session'[x].snap}}
        BY <2>3, <3>1, <3>2 DEF Inherited
    <3> QED BY <3>3
  <2>5. Cardinality({}) = 0
      BY FS_EmptySet
  <2>6. {e \in Events : Firings(x, e)' # {}} = {}
      BY <2>1
  <2>7. session'[x].snap.fired = Inherited(x)' \cup {e \in Events : Firings(x, e)' # {}}
      BY <2>4, <2>6
  <2>8. \A e \in Events \ Repeats : /\ Cardinality(Firings(x, e)') <= 1
                                    /\ e \in Inherited(x)' => Firings(x, e)' = {}
    <3> TAKE e \in Events \ Repeats
    <3>1. Firings(x, e)' = {}
        BY <2>1
    <3>2. Cardinality(Firings(x, e)') = 0
        BY <2>5, <3>1
    <3> QED BY <3>1, <3>2
  <2> QED BY <2>7, <2>8 DEF FiredFor
<1> QED BY <1>1, <1>2, <1>3, <1>4, StepKinds DEF Kind

-----------------------------------------------------------------------------
(***************************************************************************)
(* Debriefs.                                                               *)
(***************************************************************************)
\* A debrief is only stored together with the end of its session.
DebriefEnds == \A s \in rows : debrief[s] # NoDebrief => session[s].endedAt
DebriefInv == DebriefEnds /\ ReadyHasDebrief

LEMMA DebriefStep ==
    ASSUME TypeOK, NoOrphans, DebriefInv, [Next]_vars
    PROVE  DebriefInv'
<1> DEFINE Good(s) == /\ debrief[s] # NoDebrief => session[s].endedAt
                      /\ session[s].flow = "DebriefReady" => debrief[s] # NoDebrief /\ session[s].endedAt
<1> SUFFICES ASSUME NEW x \in rows' PROVE Good(x)'
    BY DEF DebriefInv, DebriefEnds, ReadyHasDebrief
<1>t. /\ session \in [Sess -> SessionRow] /\ rows \subseteq used /\ used \subseteq Sess
      /\ debrief \in [Sess -> {NoDebrief} \cup [total : Nat, outcome : Endings]]
      /\ req \in [Reqs -> Request]
    BY DEF TypeOK
<1>g. \A s \in rows : Good(s)
    BY DEF DebriefInv, DebriefEnds, ReadyHasDebrief
\* Steps that keep debrief and end of session x and do not make it ready.
<1>k. ASSUME x \in rows, debrief'[x] = debrief[x], session'[x].endedAt = session[x].endedAt,
             session'[x].flow = session[x].flow \/ session'[x].flow # "DebriefReady"
      PROVE  Good(x)'
    BY <1>g, <1>k
\* Steps that create session b.
<1>n. ASSUME NEW b \in Sess, NEW row, InsertSession(b, row), debrief' = debrief,
             row.flow # "DebriefReady"
      PROVE  Good(x)'
  <2>1. b \notin used /\ rows' = rows \cup {b} /\ session' = [session EXCEPT ![b] = row]
      BY <1>n DEF InsertSession
  <2>2. debrief[b] = NoDebrief
      BY <1>t, <2>1 DEF NoOrphans
  <2>3. CASE x = b
      BY <1>n, <1>t, <2>1, <2>2, <2>3
  <2>4. CASE x # b
      BY <1>k, <1>n, <1>t, <2>1, <2>4
  <2> QED BY <2>3, <2>4
<1>1. ASSUME NEW s \in Sess, NEW setup \in Setups, CreateSession(s, setup) PROVE Good(x)'
  <2>1. NewRow("NotStarted", FreshSnapshot, 0, setup).flow # "DebriefReady"
      BY DEF NewRow
  <2> QED BY <1>1, <1>n, <2>1 DEF CreateSession
<1>2. ASSUME NEW s \in Sess, CreateTestSession(s) PROVE Good(x)'
  <2> DEFINE row == NewRow("PlayerTurnListening", [vars |-> InitialState, fired |-> {}], 0,
                           [save |-> FALSE, tts |-> FALSE])
  <2>1. InsertSession(s, row) /\ debrief' = debrief /\ row.flow # "DebriefReady"
      BY <1>2 DEF CreateTestSession, NewRow
  <2> HIDE DEF row
  <2> QED BY <1>n, <2>1
<1>3. ASSUME NEW p \in Sess, NEW b \in Sess, NEW f \in 1 .. MaxTurns, ForkSession(p, f, b) PROVE Good(x)'
  <2>1. PICK snap : InsertBranch(p, f, b, snap) /\ debrief' = debrief
      BY <1>3 DEF ForkSession
  <2> DEFINE row == NewRow("PlayerTurnListening", snap, f - 1, session[p].setup)
  <2>2. InsertSession(b, row) /\ row.flow # "DebriefReady"
      BY <2>1 DEF InsertBranch, NewRow
  <2> HIDE DEF row
  <2> QED BY <1>n, <2>1, <2>2
<1>4. ASSUME NEW r \in Reqs, NEW s \in Sess,
             StartSession(r, s) \/ StopAtInput(r, s) \/ SubmitTurn(r, s) \/ BeginDebrief(r, s)
      PROVE  Good(x)'
  <2>1. rows' = rows /\ debrief' = debrief
      BY <1>4 DEF StartSession, StopAtInput, SubmitTurn, BeginDebrief, tables
  <2>2. \A y \in Sess : /\ session'[y].endedAt = session[y].endedAt
                        /\ session'[y].flow = session[y].flow \/ session'[y].flow # "DebriefReady"
    <3>1. CASE StartSession(r, s)
        BY <1>t, <3>1 DEF StartSession, SessionRow
    <3>2. CASE StopAtInput(r, s)
        BY <1>t, <3>2 DEF StopAtInput, SessionRow
    <3>3. CASE SubmitTurn(r, s)
        BY <3>3 DEF SubmitTurn, tables
    <3>4. CASE BeginDebrief(r, s)
        BY <1>t, <3>4 DEF BeginDebrief, Generating, SessionRow
    <3> QED BY <1>4, <3>1, <3>2, <3>3, <3>4
  <2> QED BY <1>k, <1>t, <2>1, <2>2
<1>5. ASSUME NEW r \in Reqs, NEW out \in TurnOutputs, PersistTurn(r, out) PROVE Good(x)'
  <2> DEFINE s == req[r].sid
             res == TurnResult(req[r].row, out)
             flow == IF res.ending = "none" THEN "PlayerTurnListening" ELSE "Ended"
  <2>1. /\ session' = [session EXCEPT ![s].snap = res.snap, ![s].count = res.turn,
                                      ![s].flow = flow, ![s].ending = res.ending]
        /\ rows' = rows /\ debrief' = debrief
      BY <1>5 DEF PersistTurn
  <2>2. flow # "DebriefReady"
      OBVIOUS
  <2> HIDE DEF s, res, flow
  <2>3. \A y \in Sess : /\ session'[y].endedAt = session[y].endedAt
                        /\ session'[y].flow = session[y].flow \/ session'[y].flow # "DebriefReady"
      BY <1>t, <2>1, <2>2 DEF SessionRow
  <2> QED BY <1>k, <1>t, <2>1, <2>3
<1>6. ASSUME NEW r \in Reqs, StoreDebrief(r) PROVE Good(x)'
  <2> DEFINE s == req[r].sid
  <2>1. /\ req[r].kind = "debrief" /\ s \in rows /\ rows' = rows
        /\ debrief' = [debrief EXCEPT ![s] = InsertDebrief(@, DebriefOf(req[r].row))]
        /\ session' = [session EXCEPT ![s].flow = "DebriefReady", ![s].endedAt = TRUE]
      BY <1>6 DEF StoreDebrief, DebriefInsertable
  <2>2. DebriefOf(req[r].row) # NoDebrief
    <3>1. req[r].row.count \in Nat
        BY <1>t, <2>1 DEF Request, Idle, SessionRow
    <3>2. DebriefOf(req[r].row).total = req[r].row.count /\ NoDebrief.total = -1
        BY DEF DebriefOf, NoDebrief
    <3> QED BY <3>1, <3>2
  <2> HIDE DEF s
  <2>3. CASE x = s
    <3>1. debrief'[x] # NoDebrief
        BY <1>t, <2>1, <2>2, <2>3 DEF InsertDebrief
    <3>2. session'[x].endedAt = TRUE
        BY <1>t, <2>1, <2>3 DEF SessionRow
    <3> QED BY <3>1, <3>2
  <2>4. CASE x # s
      BY <1>k, <1>t, <2>1, <2>4
  <2> QED BY <2>3, <2>4
<1>7. ASSUME NEW r \in Reqs, FailDebrief(r) PROVE Good(x)'
  <2>1. rows' = rows /\ debrief' = debrief
      BY <1>7 DEF FailDebrief
  <2>2. \A y \in Sess : /\ session'[y].endedAt = session[y].endedAt
                        /\ session'[y].flow = session[y].flow \/ session'[y].flow # "DebriefReady"
      BY <1>7, <1>t DEF FailDebrief, SessionRow
  <2> QED BY <1>k, <1>t, <2>1, <2>2
<1>8. ASSUME NEW s \in Sess, EndSession(s) PROVE Good(x)'
  <2>1. /\ rows' = rows /\ debrief' = debrief
        /\ session'[s].flow = "Ended" /\ session'[s].endedAt = TRUE
        /\ \A y \in Sess \ {s} : session'[y] = session[y]
      BY <1>8, <1>t DEF EndSession, SessionRow
  <2>2. CASE x = s
      BY <2>1, <2>2
  <2>3. CASE x # s
      BY <1>k, <1>t, <2>1, <2>3
  <2> QED BY <2>2, <2>3
<1>9. ASSUME NEW s \in Sess, ReuseDebrief(s) PROVE Good(x)'
  <2>1. /\ s \in rows /\ debrief[s] # NoDebrief /\ rows' = rows /\ debrief' = debrief
        /\ session' = [session EXCEPT ![s].flow = "DebriefReady"]
      BY <1>9 DEF ReuseDebrief, CanDebrief
  <2>2. session[s].endedAt /\ session'[s].endedAt = session[s].endedAt
      BY <1>g, <1>t, <2>1 DEF SessionRow
  <2>3. CASE x = s
      BY <2>1, <2>2, <2>3
  <2>4. CASE x # s
      BY <1>k, <1>t, <2>1, <2>4
  <2> QED BY <2>3, <2>4
<1>10. ASSUME NEW gone, Erase(gone) PROVE Good(x)'
  <2>1. x \in rows /\ session'[x] = session[x] /\ debrief'[x] = debrief[x]
      BY <1>10, <1>t DEF Erase
  <2> QED BY <1>k, <2>1
<1>11. ASSUME \/ DeleteRecap \/ Restart \/ UNCHANGED vars
              \/ \E r \in Reqs : RejectTurn(r) \/ TurnRuntimeError(r) \/ SpeakLine(r)
                                   \/ SpeechUnavailable(r) \/ TakeFailure(r)
       PROVE  Good(x)'
  <2>1. UNCHANGED <<rows, session, debrief>>
      BY <1>11 DEF DeleteRecap, Restart, vars, tables, RejectTurn, TurnRuntimeError, SpeakLine, SpeechUnavailable,
                   TakeFailure
  <2> QED BY <1>k, <2>1
<1> HIDE DEF Good
<1> QED
    BY <1>1, <1>2, <1>3, <1>4, <1>5, <1>6, <1>7, <1>8, <1>9, <1>10, <1>11
    DEF Next, Complete, DeleteSession, ClearLocalData

-----------------------------------------------------------------------------
(***************************************************************************)
(* The theorems.                                                           *)
(***************************************************************************)
TableInv ==
    CapturedCurrent /\ IndexedUsed /\ SearchMatchesTranscript /\ SnapshotInv /\ BranchInv /\ FiredOnce /\ DebriefInv

LEMMA TableInit == Init => TableInv
<1> SUFFICES ASSUME Init PROVE TableInv
    OBVIOUS
<1>1. rows = {} /\ fts = {} /\ \A r \in Reqs : req[r].kind # "turn"
    BY DEF Init, Idle
<1> QED BY <1>1 DEF TableInv, CapturedCurrent, IndexedUsed, SearchMatchesTranscript, SnapshotInv, StateIsLastTurn,
                    Ranged, BranchInv, FiredOnce, DebriefInv, DebriefEnds, ReadyHasDebrief

\* The inductive invariant: what the tables, and the turns in flight, know of
\* each other.
THEOREM TablesAgree == Spec => []TableInv
<1>1. Known /\ TableInv /\ [Next]_vars => TableInv'
  <2> SUFFICES ASSUME Known, TableInv, [Next]_vars PROVE TableInv'
      OBVIOUS
  <2>1. TypeOK /\ NoOrphans /\ CapturedCurrent /\ IndexedUsed /\ SearchMatchesTranscript /\ SnapshotInv
          /\ BranchInv /\ FiredOnce /\ DebriefInv
      BY DEF Known, TableInv
  <2> QED BY <2>1, CapturedStep, IndexedUsedStep, SearchStep, SnapshotStep, BranchStep, FiredStep, DebriefStep
          DEF TableInv
<1>2. Spec => []Known
    BY TranscriptInvariant DEF Known
<1> QED BY <1>1, <1>2, TableInit, PTL DEF Spec

\* The simulation state of a session is the snapshot of its last turn, and each
\* is one bounded step from the one before: no turn that was computed from an
\* old row is ever recorded over a newer one (turn_pipeline.py).
THEOREM NoTurnLost == Spec => []StateIsLastTurn
<1>1. TableInv => StateIsLastTurn
    BY DEF TableInv, SnapshotInv
<1> QED BY <1>1, TablesAgree, PTL

\* A non-repeating event fires once per conversation, its branches included,
\* and the saved set is what log and prefix say (evaluate_event_triggers).
THEOREM EventsFireOnce == Spec => []FiredOnce
<1>1. TableInv => FiredOnce
    BY DEF TableInv
<1> QED BY <1>1, TablesAgree, PTL

\* The search index of a live session is its transcript, or empty when it is not
\* saved (session_transcript_fts).
THEOREM SearchFollows == Spec => []SearchMatchesTranscript
<1>1. TableInv => SearchMatchesTranscript
    BY DEF TableInv
<1> QED BY <1>1, TablesAgree, PTL

\* create_debrief never answers "data inconsistency".
THEOREM ReadyIsBacked == Spec => []ReadyHasDebrief
<1>1. TableInv => ReadyHasDebrief
    BY DEF TableInv, DebriefInv
<1> QED BY <1>1, TablesAgree, PTL

\* A branch keeps the lines its parent has before the fork, whichever of them
\* is played on and whatever was in flight at the fork (branch_service.py).
THEOREM BranchesKeepPrefix == Spec => []BranchPrefix
<1>1. Known /\ TableInv => BranchPrefix
    BY DEF Known, TypeOK, TableInv, BranchInv, ForkOf, BranchPrefix, PrefixOf
<1>2. Spec => []Known
    BY TranscriptInvariant DEF Known
<1> QED BY <1>1, <1>2, TablesAgree, PTL

-----------------------------------------------------------------------------
(***************************************************************************)
(* What a stored debrief and the memory may never do.                      *)
(***************************************************************************)
DebriefKept == \A s \in rows \cap rows' : debrief[s] # NoDebrief => debrief'[s] = debrief[s]
MemoryBacked ==
    recap' > recap => \E s \in rows : session'[s].flow = "DebriefReady" /\ debrief'[s] # NoDebrief

LEMMA DebriefsStandStep ==
    ASSUME TypeOK, [Next]_vars
    PROVE  DebriefKept /\ MemoryBacked
<1>t. /\ session \in [Sess -> SessionRow] /\ rows \subseteq Sess
      /\ debrief \in [Sess -> {NoDebrief} \cup [total : Nat, outcome : Endings]]
      /\ req \in [Reqs -> Request] /\ recap \in Nat
    BY DEF TypeOK
\* Steps that remember nothing and store nothing.
<1>k. ASSUME recap' \in {0, recap}, \A s \in rows \cap rows' : debrief'[s] = debrief[s]
      PROVE  DebriefKept /\ MemoryBacked
  <2>1. ~(recap' > recap)
      BY <1>k, <1>t
  <2> QED BY <1>k, <2>1 DEF DebriefKept, MemoryBacked
<1>1. ASSUME NEW r \in Reqs, StoreDebrief(r) PROVE DebriefKept /\ MemoryBacked
  <2>1. PICK s \in rows : s = req[r].sid
      BY <1>1 DEF StoreDebrief, DebriefInsertable
  <2>2. /\ req[r].kind = "debrief"
        /\ debrief' = [debrief EXCEPT ![s] = InsertDebrief(@, DebriefOf(req[r].row))]
        /\ session' = [session EXCEPT ![s].flow = "DebriefReady", ![s].endedAt = TRUE]
      BY <1>1, <2>1 DEF StoreDebrief
  <2>3. DebriefOf(req[r].row) # NoDebrief
    <3>1. req[r].row.count \in Nat
        BY <1>t, <2>2 DEF Request, Idle, SessionRow
    <3>2. DebriefOf(req[r].row).total = req[r].row.count /\ NoDebrief.total = -1
        BY DEF DebriefOf, NoDebrief
    <3> QED BY <3>1, <3>2
  <2>4. debrief'[s] # NoDebrief /\ (debrief[s] # NoDebrief => debrief'[s] = debrief[s])
      BY <1>t, <2>1, <2>2, <2>3 DEF InsertDebrief
  <2>5. \A y \in Sess \ {s} : debrief'[y] = debrief[y]
      BY <1>t, <2>2
  <2>6. session'[s].flow = "DebriefReady"
      BY <1>t, <2>1, <2>2 DEF SessionRow
  <2>7. DebriefKept
      BY <1>t, <2>4, <2>5 DEF DebriefKept
  <2>8. MemoryBacked
      BY <2>4, <2>6 DEF MemoryBacked
  <2> QED BY <2>7, <2>8
<1>2. ASSUME NEW s \in Sess, ReuseDebrief(s) PROVE DebriefKept /\ MemoryBacked
  <2>1. /\ s \in rows /\ debrief[s] # NoDebrief /\ debrief' = debrief
        /\ session' = [session EXCEPT ![s].flow = "DebriefReady"]
      BY <1>2 DEF ReuseDebrief, CanDebrief
  <2>2. session'[s].flow = "DebriefReady"
      BY <1>t, <2>1 DEF SessionRow
  <2> QED BY <2>1, <2>2 DEF DebriefKept, MemoryBacked
<1>3. ASSUME NEW gone, Erase(gone), recap' \in {0, recap} PROVE DebriefKept /\ MemoryBacked
  <2>1. \A s \in rows \cap rows' : debrief'[s] = debrief[s]
      BY <1>3, <1>t DEF Erase
  <2> QED BY <1>3, <1>k, <2>1
<1>4. ASSUME NEW r \in Reqs, NEW s \in Sess,
             StartSession(r, s) \/ StopAtInput(r, s) \/ SubmitTurn(r, s) \/ BeginDebrief(r, s)
      PROVE  DebriefKept /\ MemoryBacked
  <2>1. recap' = recap /\ debrief' = debrief
      BY <1>4 DEF StartSession, StopAtInput, SubmitTurn, BeginDebrief, tables
  <2> QED BY <1>k, <2>1
<1>5. ASSUME NEW r \in Reqs, NEW out \in TurnOutputs, PersistTurn(r, out) PROVE DebriefKept /\ MemoryBacked
  <2>1. recap' = recap /\ debrief' = debrief
      BY <1>5 DEF PersistTurn
  <2> QED BY <1>k, <2>1
<1>6. ASSUME NEW p \in Sess, NEW b \in Sess, NEW f \in 1 .. MaxTurns, ForkSession(p, f, b)
      PROVE  DebriefKept /\ MemoryBacked
  <2>1. recap' = recap /\ debrief' = debrief
      BY <1>6 DEF ForkSession
  <2> QED BY <1>k, <2>1
<1>7. ASSUME NEW s \in Sess, (\E setup \in Setups : CreateSession(s, setup)) \/ CreateTestSession(s) \/ EndSession(s)
      PROVE  DebriefKept /\ MemoryBacked
  <2>1. recap' = recap /\ debrief' = debrief
      BY <1>7 DEF CreateSession, CreateTestSession, EndSession
  <2> QED BY <1>k, <2>1
<1>8. ASSUME \/ DeleteRecap \/ Restart \/ UNCHANGED vars
             \/ \E r \in Reqs : RejectTurn(r) \/ TurnRuntimeError(r) \/ SpeakLine(r)
                                  \/ SpeechUnavailable(r) \/ TakeFailure(r) \/ FailDebrief(r)
      PROVE  DebriefKept /\ MemoryBacked
  <2>1. recap' \in {0, recap} /\ debrief' = debrief
      BY <1>8 DEF DeleteRecap, Restart, vars, tables, RejectTurn, TurnRuntimeError, SpeakLine, SpeechUnavailable,
                  TakeFailure, FailDebrief
  <2> QED BY <1>k, <2>1
<1>9. ASSUME NEW s \in Sess, DeleteSession(s) PROVE DebriefKept /\ MemoryBacked
    BY <1>3, <1>9 DEF DeleteSession
<1>10. ASSUME ClearLocalData PROVE DebriefKept /\ MemoryBacked
    BY <1>3, <1>10 DEF ClearLocalData
<1> HIDE DEF DebriefKept, MemoryBacked
<1> QED
    BY <1>1, <1>2, <1>4, <1>5, <1>6, <1>7, <1>8, <1>9, <1>10 DEF Next, Complete

\* However generations overlap with each other, a deletion or a wipe, a stored
\* debrief is never replaced, and the NPC's memory counts a session only with a
\* debrief that is stored (create_debrief, generate_debrief).
THEOREM DebriefsOutlive == Spec => DebriefsStand
<1>1. TypeOK /\ [Next]_vars => [DebriefKept]_vars /\ [MemoryBacked]_vars
    BY DebriefsStandStep
<1>2. Spec => []TypeOK
    BY TypeCorrect
<1>3. Spec => [][DebriefKept]_vars /\ [][MemoryBacked]_vars
    BY <1>1, <1>2, PTL DEF Spec
<1> QED BY <1>3 DEF DebriefsStand, DebriefImmutable, MemoryFromStoredDebrief, DebriefKept, MemoryBacked

-----------------------------------------------------------------------------
(***************************************************************************)
(* The session engine implements Conversations, for any number of sessions *)
(* and requests: seen through the NPC rows, a step of the engine is one    *)
(* legal turn, one branch, one erasure, or nothing.                        *)
(***************************************************************************)
\* What the tables hold of an id without a row is empty.
GoneIsEmpty == \A s \in Sess \ rows : session[s].count = 0

Inv == Known /\ TableInv /\ GoneIsEmpty

\* A history has one snapshot for each completed turn: the one of its NPC row;
\* what has no row has none.
HistoryOf(s) == /\ session[s].count \in Nat
                /\ DOMAIN History(s) = 1 .. session[s].count
                /\ Len(History(s)) = session[s].count
                /\ \A k \in 1 .. session[s].count : SnapshotsAt(s, k) = {History(s)[k]}
                /\ SnapshotsAt(s, session[s].count) = {Journal!LastOf(History(s))}
HistoriesAre == /\ \A s \in rows : HistoryOf(s)
                /\ \A s \in Sess \ rows : History(s) = <<>>

LEMMA SameHistory ==
    ASSUME NEW s \in Sess, session[s].count = 0
    PROVE  History(s) = <<>>
<1>1. 1 .. session[s].count = {}
    OBVIOUS
<1> QED BY <1>1 DEF History

LEMMA HistoryIs ==
    ASSUME Known, NEW s \in rows
    PROVE  HistoryOf(s)
<1>1. session[s].count \in Nat /\ Sound(s)
    BY TranscriptInvParts DEF Known, TypeOK, SessionRow
<1>2. ASSUME NEW k \in 1 .. session[s].count
      PROVE  SnapshotsAt(s, k) = {History(s)[k]}
  <2>1. Numbers(s) = 0 .. 2 * session[s].count
      BY <1>1 DEF Sound
  <2>2. 2 * k \in Numbers(s) /\ k # 0
      BY <1>1, <2>1
  <2>3. PICK row \in turns[s] : row.n = 2 * k
      BY <2>2 DEF Numbers
  <2>4. \A x \in turns[s] : x.n = 2 * k <=> x = row
      BY <1>1, <2>3 DEF Sound
  <2>5. (CHOOSE x \in turns[s] : x.n = 2 * k) = row
      BY <2>3, <2>4
  <2>6. History(s)[k] = row.snap
      BY <2>5 DEF History
  <2>7. {x \in turns[s] : x.n = 2 * k} = {row}
      BY <2>3, <2>4
  <2>8. SnapshotsAt(s, k) = {x.snap : x \in {row}}
      BY <2>2, <2>7 DEF SnapshotsAt
  <2> QED BY <2>6, <2>8
<1>3. DOMAIN History(s) = 1 .. session[s].count /\ Len(History(s)) = session[s].count
    BY <1>1 DEF History
<1>4. SnapshotsAt(s, session[s].count) = {Journal!LastOf(History(s))}
  <2>1. CASE session[s].count = 0
    <3>1. History(s) = <<>>
        BY <2>1, SameHistory DEF Known, TypeOK
    <3> QED BY <2>1, <3>1 DEF SnapshotsAt, Journal!LastOf
  <2>2. CASE session[s].count # 0
    <3>1. History(s) # <<>>
      <4>1. Len(<<>>) = 0
          OBVIOUS
      <4> QED BY <1>3, <2>2, <4>1
    <3>2. session[s].count \in 1 .. session[s].count
        BY <1>1, <2>2
    <3> QED BY <1>2, <1>3, <3>1, <3>2 DEF Journal!LastOf
  <2> QED BY <2>1, <2>2
<1> QED BY <1>1, <1>2, <1>3, <1>4 DEF HistoryOf

LEMMA HistoriesLaw == Known /\ GoneIsEmpty => HistoriesAre
BY HistoryIs, SameHistory DEF HistoriesAre, GoneIsEmpty

LEMMA HistoriesNext == Known' /\ GoneIsEmpty' => HistoriesAre'
BY HistoriesLaw, PTL

\* A session whose lines and counter stay, or that is opened, keeps its history.
LEMMA KeptHistory ==
    ASSUME HistoriesAre, HistoriesAre', NEW s \in rows \cap rows', Kept(s) \/ Opened(s)
    PROVE  History(s)' = History(s)
<1>1. PICK c \in Nat : c = session[s].count
    BY DEF HistoriesAre, HistoryOf
<1>2. session'[s].count = c
    BY <1>1 DEF Kept, Opened, SameState
<1>3. ASSUME NEW k \in 1 .. c PROVE History(s)'[k] = History(s)[k]
  <2>1. SnapshotsAt(s, k)' = SnapshotsAt(s, k)
    <3>1. Kept(s) => SnapshotsAt(s, k)' = SnapshotsAt(s, k)
        BY DEF Kept, SnapshotsAt
    <3>2. k \in Nat
        BY <1>1
    <3> QED BY <3>1, <3>2, OpenedSnapshots
  <2>2. SnapshotsAt(s, k) = {History(s)[k]}
      BY <1>1 DEF HistoriesAre, HistoryOf
  <2>3. SnapshotsAt(s, k)' = {History(s)'[k]}
      BY <1>2 DEF HistoriesAre, HistoryOf
  <2> QED BY <2>1, <2>2, <2>3
<1>4. /\ History(s) = [k \in 1 .. c |-> History(s)[k]]
      /\ History(s)' = [k \in 1 .. c |-> History(s)'[k]]
    BY <1>1, <1>2 DEF History
<1> QED BY <1>3, <1>4

\* A session that was there and whose counter stays is kept, or opened.
LEMMA KindKept ==
    ASSUME Known, NEW x \in rows, Kind(x), session'[x].count = session[x].count
    PROVE  Kept(x) \/ Opened(x)
<1>1. x \in used /\ session[x].count \in Nat
    BY DEF Known, TypeOK, SessionRow
<1>2. session[x].count + 1 # session[x].count
    BY <1>1
<1> QED BY <1>1, <1>2 DEF Kind, Played, Created, Forked

-----------------------------------------------------------------------------
(***************************************************************************)
(* The four things a step may be.                                          *)
(***************************************************************************)
AllKept(others) == \A x \in others : Kept(x) \/ Opened(x)

LEMMA StutterStep ==
    ASSUME Known, HistoriesAre, HistoriesAre', rows' = rows, used' = used, AllKept(rows)
    PROVE  UNCHANGED Journal!jvars
<1>1. ASSUME NEW s \in Sess PROVE History(s)' = History(s)
  <2>1. CASE s \in rows
      BY <2>1, KeptHistory DEF AllKept
  <2>2. CASE s \notin rows
      BY <2>2 DEF HistoriesAre
  <2> QED BY <2>1, <2>2
<1>2. [s \in Sess |-> History(s)]' = [s \in Sess |-> History(s)]
    BY <1>1
<1> QED BY <1>2 DEF Journal!jvars

LEMMA BeginStep ==
    ASSUME Known, HistoriesAre, HistoriesAre', NEW b \in Sess, b \notin used,
           rows' = rows \cup {b}, used' = used \cup {b}, AllKept(rows)
    PROVE  Journal!Begin(b, History(b)')
<1>1. ASSUME NEW s \in Sess \ {b} PROVE History(s)' = History(s)
  <2>1. CASE s \in rows
      BY <2>1, KeptHistory DEF AllKept
  <2>2. CASE s \notin rows
      BY <2>2 DEF HistoriesAre
  <2> QED BY <2>1, <2>2
<1>2. [s \in Sess |-> History(s)]' = [[s \in Sess |-> History(s)] EXCEPT ![b] = History(b)']
    BY <1>1
<1> QED BY <1>2 DEF Journal!Begin

LEMMA ForgetStep ==
    ASSUME Known, HistoriesAre, HistoriesAre', NEW gone,
           rows' = rows \ gone, used' = used, AllKept(rows')
    PROVE  Journal!Forget(gone)
<1>1. ASSUME NEW s \in Sess PROVE History(s)' = IF s \in gone THEN <<>> ELSE History(s)
  <2>1. CASE s \in rows'
      BY <2>1, KeptHistory DEF AllKept
  <2>2. CASE s \notin rows'
      BY <2>2 DEF HistoriesAre
  <2> QED BY <2>1, <2>2
<1>2. [s \in Sess |-> History(s)]' = [s \in Sess |-> IF s \in gone THEN <<>> ELSE [x \in Sess |-> History(x)][s]]
    BY <1>1
<1> QED BY <1>2 DEF Journal!Forget

LEMMA GrowStep ==
    ASSUME Known, Known', TableInv', HistoriesAre, HistoriesAre', NEW s \in rows, NEW snap, NEW ids,
           Played(s, snap, ids), rows' = rows, used' = used, AllKept(rows \ {s})
    PROVE  Journal!Grow(s)
<1> DEFINE Log == [x \in Sess |-> History(x)]
<1>0. PICK c \in Nat : c = session[s].count
    BY DEF HistoriesAre, HistoryOf
<1>1. PICK old, new : /\ c = session[s].count
                      /\ old = Journal!LastOf(History(s)) /\ new = Journal!LastOf(History(s))'
    BY <1>0
<1>2. session'[s].count = c + 1 /\ s \in Sess /\ Sound(s)
    BY <1>1, TranscriptInvParts DEF Played, Known, TypeOK
<1>3. /\ DOMAIN History(s) = 1 .. c /\ Len(History(s)) = c
      /\ \A k \in 1 .. c : SnapshotsAt(s, k) = {History(s)[k]}
      /\ SnapshotsAt(s, c) = {old}
    BY <1>1 DEF HistoriesAre, HistoryOf
<1>4. /\ DOMAIN History(s)' = 1 .. c + 1 /\ Len(History(s)') = c + 1
      /\ \A k \in 1 .. c + 1 : SnapshotsAt(s, k)' = {History(s)'[k]}
    BY <1>2 DEF HistoriesAre, HistoryOf
<1>5. SnapshotsAt(s, c + 1)' = {new}
  <2>1. SnapshotsAt(s, session[s].count)' = {new}
      BY <1>1 DEF HistoriesAre, HistoryOf
  <2> QED BY <1>2, <2>1 DEF SnapshotsAt
<1>6. \A k \in 0 .. c : SnapshotsAt(s, k)' = SnapshotsAt(s, k)
    BY <1>1, <1>2, PlayedSnapshots DEF Known
<1>7. Follows(old, new)
  <2>1. \A k \in 1 .. c + 1 : \A a \in SnapshotsAt(s, k - 1)', b \in SnapshotsAt(s, k)' : Follows(a, b)
      BY <1>2 DEF TableInv, SnapshotInv, StateIsLastTurn
  <2>2. c + 1 \in 1 .. c + 1 /\ (c + 1) - 1 = c /\ c \in 0 .. c
      OBVIOUS
  <2>3. old \in SnapshotsAt(s, c)' /\ new \in SnapshotsAt(s, c + 1)'
      BY <1>3, <1>5, <1>6, <2>2
  <2>4. \A a \in SnapshotsAt(s, (c + 1) - 1)', b \in SnapshotsAt(s, c + 1)' : Follows(a, b)
      BY <2>1, <2>2
  <2> QED BY <2>2, <2>3, <2>4
<1>8. History(s)' = Append(History(s), new)
  <2> DEFINE S == {History(s)[k] : k \in 1 .. c} \cup {new}
  <2>0. History(s) \in Seq(S)
    <3>1. History(s) = [k \in 1 .. c |-> History(s)[k]]
        BY <1>1 DEF History
    <3>2. History(s) \in [1 .. c -> S]
        BY <3>1
    <3> QED BY <3>2
  <2>1. /\ Append(History(s), new) \in Seq(S) /\ Len(Append(History(s), new)) = c + 1
        /\ \A k \in 1 .. c : Append(History(s), new)[k] = History(s)[k]
        /\ Append(History(s), new)[c + 1] = new
      BY <1>3, <2>0, AppendProperties
  <2>2. ASSUME NEW k \in 1 .. c + 1 PROVE History(s)'[k] = Append(History(s), new)[k]
    <3>1. CASE k = c + 1
      <4>1. {History(s)'[c + 1]} = {new}
          BY <1>4, <1>5, <3>1
      <4> QED BY <2>1, <3>1, <4>1
    <3>2. CASE k # c + 1
      <4>1. k \in 1 .. c /\ k \in 0 .. c
          BY <3>2
      <4>2. History(s)'[k] = History(s)[k]
          BY <1>3, <1>4, <1>6, <4>1
      <4> QED BY <2>1, <4>1, <4>2
    <3> QED BY <3>1, <3>2
  <2>3. History(s)' = [k \in 1 .. c + 1 |-> History(s)'[k]]
      BY <1>2 DEF History
  <2>4. Append(History(s), new) = [k \in 1 .. c + 1 |-> Append(History(s), new)[k]]
    <3>1. PICK longer : longer = Append(History(s), new)
        OBVIOUS
    <3> HIDE DEF S
    <3>2. longer \in [1 .. c + 1 -> S]
        BY <2>1, <3>1, LenProperties
    <3>3. longer = [k \in 1 .. c + 1 |-> longer[k]]
        BY <3>2
    <3> QED BY <3>1, <3>3
  <2> QED BY <2>2, <2>3, <2>4
<1>9. ASSUME NEW x \in Sess \ {s} PROVE History(x)' = History(x)
  <2>1. CASE x \in rows
      BY <2>1, KeptHistory DEF AllKept
  <2>2. CASE x \notin rows
      BY <2>2 DEF HistoriesAre
  <2> QED BY <2>1, <2>2
<1>10. Log' = [Log EXCEPT ![s] = Append(Log[s], Journal!LastOf(Log'[s]))]
  <2>1. Log[s] = History(s) /\ Log'[s] = History(s)'
      BY <1>2
  <2>2. Journal!LastOf(Log'[s]) = new
      BY <1>1, <2>1 DEF Journal!LastOf
  <2> QED BY <1>8, <1>9, <2>1, <2>2
<1>11. c < MaxTurns
    BY <1>2, ScenarioAssumption DEF Known, TranscriptInv, TurnLimit
<1>12. Journal!Step(old, new)
    BY <1>7 DEF Journal!Step, Follows, Journal!Base, Base, Journal!Uninitialised, Uninitialised,
                Journal!InitialState, InitialState, Journal!Clamp, Clamp
<1> QED BY <1>1, <1>2, <1>3, <1>4, <1>10, <1>11, <1>12 DEF Journal!Grow, Journal!LastOf

\* A branch begins with the history of its parent up to the fork.
LEMMA ForkedHistory ==
    ASSUME Known, Known', HistoriesAre, HistoriesAre', NEW b \in rows', NEW p, NEW f, Forked(b, p, f)
    PROVE  /\ f - 1 \in 0 .. Len(History(p)) - 1
           /\ History(b)' = SubSeq(History(p), 1, f - 1)
<1>1. PICK c \in Nat : c = session[p].count
    BY DEF HistoriesAre, HistoryOf, Forked
<1>2. p \in rows /\ f \in 1 .. c /\ session'[b].count = f - 1
    BY <1>1 DEF Forked
<1>3. /\ DOMAIN History(p) = 1 .. c /\ Len(History(p)) = c
      /\ \A k \in 1 .. c : SnapshotsAt(p, k) = {History(p)[k]}
    BY <1>1, <1>2 DEF HistoriesAre, HistoryOf
<1>4. \A k \in 1 .. f - 1 : SnapshotsAt(b, k)' = {History(b)'[k]}
    BY <1>2 DEF HistoriesAre, HistoryOf
<1>5. \A k \in 0 .. f - 1 : SnapshotsAt(b, k)' = SnapshotsAt(p, k)
    BY ForkedSnapshots DEF Known
<1>6. ASSUME NEW k \in 1 .. f - 1 PROVE History(b)'[k] = History(p)[k]
  <2>1. k \in 1 .. c /\ k \in 0 .. f - 1
      BY <1>2
  <2> QED BY <1>3, <1>4, <1>5, <2>1
<1>7. History(b)' = [k \in 1 .. f - 1 |-> History(b)'[k]]
    BY <1>2 DEF History
<1>8. SubSeq(History(p), 1, f - 1) = [k \in 1 .. f - 1 |-> History(p)[k]]
    BY <1>2
<1> QED BY <1>2, <1>3, <1>6, <1>7, <1>8

-----------------------------------------------------------------------------
(***************************************************************************)
(* Every step of the engine is one of them.                                *)
(***************************************************************************)
LEMMA GoneStep ==
    ASSUME TypeOK, GoneIsEmpty, [Next]_vars
    PROVE  GoneIsEmpty'
<1> SUFFICES ASSUME NEW x \in Sess \ rows' PROVE session'[x].count = 0
    BY DEF GoneIsEmpty
<1>t. session \in [Sess -> SessionRow]
    BY DEF TypeOK
<1>k. x \notin rows => session[x].count = 0
    BY DEF GoneIsEmpty
<1>1. ASSUME NEW b \in Sess, NEW row, InsertSession(b, row) PROVE session'[x].count = 0
    BY <1>1, <1>k, <1>t DEF InsertSession
<1>2. ASSUME \/ \E s \in Sess, setup \in Setups : CreateSession(s, setup)
             \/ \E s \in Sess : CreateTestSession(s)
             \/ \E p, b \in Sess, f \in 1 .. MaxTurns : ForkSession(p, f, b)
      PROVE  session'[x].count = 0
  <2>1. CASE \E s \in Sess, setup \in Setups : CreateSession(s, setup)
      BY <1>1, <2>1 DEF CreateSession
  <2>2. CASE \E s \in Sess : CreateTestSession(s)
      BY <1>1, <2>2 DEF CreateTestSession
  <2>3. CASE \E p, b \in Sess, f \in 1 .. MaxTurns : ForkSession(p, f, b)
      BY <1>1, <2>3 DEF ForkSession, InsertBranch
  <2> QED BY <1>2, <2>1, <2>2, <2>3
<1>3. ASSUME NEW gone, Erase(gone) PROVE session'[x].count = 0
    BY <1>3, <1>k DEF Erase, NoSession, NewRow
\* Steps that write to a row that stays.
<1>4. ASSUME rows' = rows, \A y \in Sess \ rows : session'[y] = session[y] PROVE session'[x].count = 0
    BY <1>4, <1>k
<1>5. ASSUME NEW r \in Reqs, NEW s \in Sess,
             StartSession(r, s) \/ StopAtInput(r, s) \/ SubmitTurn(r, s) \/ BeginDebrief(r, s)
      PROVE  session'[x].count = 0
    BY <1>4, <1>5, <1>t DEF StartSession, StopAtInput, SubmitTurn, BeginDebrief, CanSubmit, CanDebrief, tables
<1>6. ASSUME NEW r \in Reqs, NEW out \in TurnOutputs, PersistTurn(r, out) PROVE session'[x].count = 0
  <2> DEFINE s == req[r].sid
  <2>1. /\ s \in rows /\ rows' = rows
        /\ \A y \in Sess \ {s} : session'[y] = session[y]
      BY <1>6, <1>t DEF PersistTurn, RecordTurn, Insertable
  <2> QED BY <1>4, <2>1
<1>7. ASSUME NEW r \in Reqs,
             RejectTurn(r) \/ TurnRuntimeError(r) \/ SpeakLine(r) \/ SpeechUnavailable(r) \/ TakeFailure(r)
      PROVE  session'[x].count = 0
    BY <1>4, <1>7 DEF RejectTurn, TurnRuntimeError, SpeakLine, SpeechUnavailable, TakeFailure, tables
<1>8. ASSUME NEW r \in Reqs, StoreDebrief(r) \/ FailDebrief(r) PROVE session'[x].count = 0
    BY <1>4, <1>8, <1>t DEF StoreDebrief, FailDebrief, DebriefInsertable
<1>9. ASSUME NEW s \in Sess, EndSession(s) \/ ReuseDebrief(s) PROVE session'[x].count = 0
    BY <1>4, <1>9, <1>t DEF EndSession, ReuseDebrief, CanDebrief
<1>10. ASSUME DeleteRecap \/ Restart \/ UNCHANGED vars PROVE session'[x].count = 0
    BY <1>4, <1>10 DEF DeleteRecap, Restart, tables, vars
<1> QED
    BY <1>2, <1>3, <1>5, <1>6, <1>7, <1>8, <1>9, <1>10 DEF Next, Complete, DeleteSession, ClearLocalData

LEMMA JournalStep ==
    ASSUME Inv, Inv', [Next]_vars
    PROVE  [Journal!JNext]_(Journal!jvars)
<1>i. Known /\ Known' /\ TableInv /\ TableInv' /\ CapturedCurrent /\ IndexedUsed
    BY DEF Inv, TableInv
<1>h. HistoriesAre /\ HistoriesAre'
    BY HistoriesLaw, HistoriesNext DEF Inv
<1>t. /\ session \in [Sess -> SessionRow] /\ req \in [Reqs -> Request]
      /\ rows \subseteq used /\ used \subseteq Sess
    BY <1>i DEF Known, TypeOK
<1>k. ASSUME NEW x \in rows \cap rows', session'[x].count = session[x].count
      PROVE  Kept(x) \/ Opened(x)
    BY <1>i, <1>k, StepKinds, KindKept
\* Steps that complete no turn and leave the rows.
<1>q. ASSUME rows' = rows, used' = used, \A x \in Sess : session'[x].count = session[x].count
      PROVE  UNCHANGED Journal!jvars
  <2>1. AllKept(rows)
      BY <1>k, <1>q, <1>t DEF AllKept
  <2> QED BY <1>h, <1>i, <1>q, <2>1, StutterStep
\* Steps that create session b.
<1>n. ASSUME NEW b \in Sess, NEW row, InsertSession(b, row)
      PROVE  Journal!Begin(b, History(b)') /\ b \in rows'
  <2>1. /\ b \notin used /\ rows' = rows \cup {b} /\ used' = used \cup {b}
        /\ \A x \in Sess \ {b} : session'[x] = session[x]
      BY <1>n, <1>t DEF InsertSession
  <2>2. AllKept(rows)
    <3> SUFFICES ASSUME NEW x \in rows PROVE Kept(x) \/ Opened(x)
        BY DEF AllKept
    <3> QED BY <1>k, <1>t, <2>1
  <2> QED BY <1>h, <1>i, <2>1, <2>2, BeginStep
<1>1. ASSUME NEW s \in Sess, (\E setup \in Setups : CreateSession(s, setup)) \/ CreateTestSession(s)
      PROVE  Journal!JNext
  <2>1. PICK row : InsertSession(s, row) /\ row.count = 0
    <3> SUFFICES \E row : InsertSession(s, row) /\ row.count = 0
        OBVIOUS
    <3>1. ASSUME NEW flow, NEW snap, NEW setup, InsertSession(s, NewRow(flow, snap, 0, setup))
          PROVE  \E row : InsertSession(s, row) /\ row.count = 0
      <4> DEFINE made == NewRow(flow, snap, 0, setup)
      <4>1. made.count = 0
          BY DEF NewRow
      <4>2. InsertSession(s, made)
          BY <3>1
      <4> HIDE DEF made
      <4> QED BY <4>1, <4>2
    <3>2. CASE \E setup \in Setups : CreateSession(s, setup)
        BY <3>1, <3>2 DEF CreateSession
    <3>3. CASE CreateTestSession(s)
        BY <3>1, <3>3 DEF CreateTestSession
    <3> QED BY <1>1, <3>2, <3>3
  <2>2. session'[s].count = 0
      BY <1>t, <2>1 DEF InsertSession
  <2>3. History(s)' = <<>>
    <3>1. 1 .. session'[s].count = {}
        BY <2>2
    <3> QED BY <3>1 DEF History
  <2>4. Journal!Open(s)
      BY <1>n, <2>1, <2>3 DEF Journal!Open
  <2> QED BY <2>4 DEF Journal!JNext
<1>2. ASSUME NEW p \in Sess, NEW b \in Sess, NEW f \in 1 .. MaxTurns, ForkSession(p, f, b)
      PROVE  Journal!JNext
  <2>1. PICK snap : InsertBranch(p, f, b, snap)
      BY <1>2 DEF ForkSession
  <2>2. Journal!Begin(b, History(b)') /\ b \in rows'
      BY <1>n, <2>1 DEF InsertBranch
  <2>3. PICK q, g : Forked(b, q, g)
    <3>1. Kind(b) /\ b \notin rows /\ branch'[b] # NoBranch
      <4>1. branch'[b] = [fork |-> f, parent |-> p]
          BY <1>2, <1>i DEF ForkSession, Known, TypeOK
      <4>2. branch'[b] # NoBranch
          BY <4>1 DEF NoBranch
      <4> QED BY <1>i, <1>t, <2>1, <2>2, <4>2, StepKinds DEF InsertBranch, InsertSession
    <3> QED BY <3>1 DEF Kind, Kept, Opened, Created, Played
  <2>4. /\ g - 1 \in 0 .. Len(History(q)) - 1 /\ History(b)' = SubSeq(History(q), 1, g - 1)
        /\ q \in rows
      BY <1>h, <1>i, <2>2, <2>3, ForkedHistory DEF Forked
  <2>5. q \in Sess /\ [x \in Sess |-> History(x)][q] = History(q)
      BY <1>t, <2>4
  <2>6. Journal!Branch(q, g - 1, b)
      BY <2>2, <2>4, <2>5 DEF Journal!Branch
  <2> QED BY <2>4, <2>5, <2>6 DEF Journal!JNext
\* Steps that record a turn of s.
<1>r. ASSUME NEW s \in rows, rows' = rows, used' = used,
             session'[s].count = session[s].count + 1,
             \A x \in Sess \ {s} : session'[x] = session[x]
      PROVE  Journal!JNext
  <2>1. session[s].count \in Nat /\ s \in Sess
      BY <1>t DEF SessionRow
  <2>2. Kind(s)
      BY <1>i, <1>r, StepKinds
  <2>3. \E snap, ids : Played(s, snap, ids)
    <3>1. s \in used /\ session'[s].count # session[s].count
        BY <1>r, <1>t, <2>1
    <3>2. ~SameState(s)
        BY <3>1 DEF SameState
    <3>3. ~Kept(s) /\ ~Opened(s)
        BY <3>2 DEF Kept, Opened
    <3>4. ~Created(s)
        BY <3>1 DEF Created
    <3>5. ASSUME NEW p, NEW f PROVE ~Forked(s, p, f)
        BY <3>1 DEF Forked
    <3> QED BY <2>2, <3>3, <3>4, <3>5 DEF Kind
  <2>4. AllKept(rows \ {s})
    <3> SUFFICES ASSUME NEW x \in rows \ {s} PROVE Kept(x) \/ Opened(x)
        BY DEF AllKept
    <3> QED BY <1>k, <1>r, <1>t
  <2>5. Journal!Grow(s)
      BY <1>h, <1>i, <1>r, <2>3, <2>4, GrowStep
  <2> QED BY <2>1, <2>5 DEF Journal!JNext
<1>3. ASSUME NEW r \in Reqs, NEW s \in Sess, StopAtInput(r, s) PROVE Journal!JNext
    BY <1>3, <1>r, <1>t DEF StopAtInput, CanSubmit, NextTurn, SessionRow
<1>4. ASSUME NEW r \in Reqs, NEW out \in TurnOutputs, PersistTurn(r, out) PROVE Journal!JNext
  <2> DEFINE res == TurnResult(req[r].row, out)
             log == {Event(res.turn, "scenario_event", e) : e \in res.triggered}
                        \cup EndingEvents(res.turn, res.ending)
  <2>1. /\ req[r].kind = "turn" /\ rows' = rows /\ used' = used
        /\ RecordTurn(req[r].sid, res.turn, res.snap, log, req[r].row.setup.save)
        /\ session' = [session EXCEPT
                ![req[r].sid].snap = res.snap, ![req[r].sid].count = res.turn,
                ![req[r].sid].flow = IF res.ending = "none" THEN "PlayerTurnListening" ELSE "Ended",
                ![req[r].sid].ending = res.ending]
      BY <1>4 DEF PersistTurn
  <2>2. res.turn = req[r].row.count + 1
      BY <1>t, <2>1, TurnResultType DEF Request, Idle
  <2> HIDE DEF res, log
  <2>3. req[r].sid \in rows /\ req[r].row.count = session[req[r].sid].count
      BY <1>i, <2>1, <2>2, RecordedIsCurrent
  <2>4. PICK s \in rows : s = req[r].sid
      BY <2>3
  <2>5. session'[s].count = session[s].count + 1 /\ \A x \in Sess \ {s} : session'[x] = session[x]
    <3>1. s \in Sess /\ DOMAIN session = Sess
        BY <1>t, <2>4
    <3>2. \A x \in Sess \ {s} : session'[x] = session[x]
        BY <2>1, <2>4, <3>1
    <3>3. "count" \in DOMAIN session[s]
        BY <1>t, <3>1 DEF SessionRow
    <3>4. session'[s].count = res.turn
        BY <2>1, <2>4, <3>1, <3>3
    <3> QED BY <2>2, <2>3, <2>4, <3>2, <3>4
  <2> QED BY <1>r, <2>1, <2>5
<1>5. ASSUME NEW gone, Erase(gone), used' = used PROVE Journal!Forget(gone)
  <2>1. rows' = rows \ gone /\ \A x \in rows' : session'[x] = session[x]
      BY <1>5, <1>t DEF Erase
  <2>2. AllKept(rows')
      BY <1>k, <2>1 DEF AllKept
  <2> QED BY <1>5, <1>h, <1>i, <2>1, <2>2, ForgetStep
<1>6. ASSUME NEW r \in Reqs, NEW s \in Sess, StartSession(r, s) \/ SubmitTurn(r, s) \/ BeginDebrief(r, s)
      PROVE  UNCHANGED Journal!jvars
    BY <1>6, <1>q, <1>t DEF StartSession, SubmitTurn, BeginDebrief, tables, SessionRow
<1>7. ASSUME NEW r \in Reqs,
             RejectTurn(r) \/ TurnRuntimeError(r) \/ SpeakLine(r) \/ SpeechUnavailable(r) \/ TakeFailure(r)
      PROVE  UNCHANGED Journal!jvars
    BY <1>7, <1>q DEF RejectTurn, TurnRuntimeError, SpeakLine, SpeechUnavailable, TakeFailure, tables
<1>8. ASSUME NEW r \in Reqs, StoreDebrief(r) PROVE UNCHANGED Journal!jvars
  <2>1. /\ session' = [session EXCEPT ![req[r].sid].flow = "DebriefReady", ![req[r].sid].endedAt = TRUE]
        /\ rows' = rows /\ used' = used
      BY <1>8 DEF StoreDebrief
  <2>2. \A x \in Sess : session'[x].count = session[x].count
      BY <1>t, <2>1 DEF SessionRow
  <2> QED BY <1>q, <2>1, <2>2
<1>9. ASSUME NEW r \in Reqs, FailDebrief(r) PROVE UNCHANGED Journal!jvars
    BY <1>9, <1>q, <1>t DEF FailDebrief, SessionRow
<1>10. ASSUME NEW s \in Sess, EndSession(s) \/ ReuseDebrief(s) PROVE UNCHANGED Journal!jvars
  <2>1. \A x \in Sess : session'[x].count = session[x].count
      BY <1>10, <1>t DEF EndSession, ReuseDebrief, SessionRow
  <2> QED BY <1>10, <1>q, <2>1 DEF EndSession, ReuseDebrief
<1>11. ASSUME DeleteRecap \/ Restart \/ UNCHANGED vars PROVE UNCHANGED Journal!jvars
    BY <1>11, <1>q DEF DeleteRecap, Restart, tables, vars
<1>12. ASSUME NEW s \in Sess, DeleteSession(s) PROVE Journal!JNext
    BY <1>5, <1>12 DEF DeleteSession, Journal!JNext
<1>13. ASSUME ClearLocalData PROVE Journal!JNext
    BY <1>5, <1>13 DEF ClearLocalData, Journal!JNext
<1> QED
    BY <1>1, <1>2, <1>3, <1>4, <1>6, <1>7, <1>8, <1>9, <1>10, <1>11, <1>12, <1>13 DEF Next, Complete

\* Every behaviour of the session engine is a behaviour of the conversations it
\* promises: turns that overlap, fail or come back late are atomic and in order,
\* branches are prefixes, and erasing is all or nothing.
THEOREM EngineImplementsConversations == Spec => ImplementsConversations
<1>1. Init => Journal!JInit /\ GoneIsEmpty
  <2> SUFFICES ASSUME Init PROVE Journal!JInit /\ GoneIsEmpty
      OBVIOUS
  <2>1. \A s \in Sess : session[s].count = 0
      BY DEF Init, NoSession, NewRow
  <2>2. \A s \in Sess : History(s) = <<>>
      BY <2>1, SameHistory
  <2>3. rows = {} /\ used = {}
      BY DEF Init
  <2> QED BY <2>1, <2>2, <2>3 DEF Journal!JInit, GoneIsEmpty
<1>2. TypeOK /\ GoneIsEmpty /\ [Next]_vars => GoneIsEmpty'
    BY GoneStep
<1>3. Inv /\ Inv' /\ [Next]_vars => [Journal!JNext]_(Journal!jvars)
    BY JournalStep
<1>4. Spec => [](Known /\ TableInv)
  <2>1. Spec => []Known
      BY TranscriptInvariant DEF Known
  <2> QED BY <2>1, TablesAgree, PTL
<1>5. Known => TypeOK
    BY DEF Known
<1>6. Spec => [](Known /\ TableInv /\ GoneIsEmpty)
    BY <1>1, <1>2, <1>4, <1>5, PTL DEF Spec
<1>7. Spec => []Inv
    BY <1>6 DEF Inv
<1> QED BY <1>1, <1>3, <1>7, PTL DEF Spec, ImplementsConversations, Journal!JSpec

=============================================================================
