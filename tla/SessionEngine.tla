--------------------------- MODULE SessionEngine ---------------------------
(***************************************************************************)
(* The session engine of convsim-core: the routes of routers/sessions.py   *)
(* with the turn pipeline, the debrief engine, the branch service and the  *)
(* relationship memory they call, the privacy wipe, and the SQLite tables  *)
(* all of them share through one connection.                               *)
(*                                                                         *)
(* Handlers are coroutines on one event loop, so what runs between two     *)
(* awaits is one action here.  A handler that awaits (the language model,  *)
(* speech synthesis) leaves its request in a slot of `req`, together with  *)
(* the turn_sessions row it read BEFORE the await; everything else may     *)
(* happen until a later action completes it.  A crash empties the slots    *)
(* and keeps the tables.  Refusals that touch no table (404, 409, 400) are *)
(* the absence of a step.                                                  *)
(***************************************************************************)
EXTENDS ScenarioState, FiniteSets

CONSTANTS
    Sess,         \* session ids; token_hex never returns one twice
    Reqs,         \* slots for requests that are awaiting something
    Setups,       \* the setups players choose: [save, tts : BOOLEAN]
    TurnOutputs,  \* what parse_turn_output can return
    MaxRecap      \* bound on the relationship memory's session_count

Endings == {"success", "failure", "timeout", "safety_stop", "player_exit"}

(***************************************************************************)
(* A parsed model reply is a record: `delta` and `flags` are its proposals *)
(* to the simulation, `stop` says safety.status = "stop", `continue` and   *)
(* `ending` are its session_control ("none" when it names no ending),      *)
(* `fallback` that the safe fallback line was used.                        *)
(***************************************************************************)
ASSUME EngineAssumption ==
    /\ Setups \subseteq [save : BOOLEAN, tts : BOOLEAN]
    /\ \A out \in TurnOutputs : /\ out.ending \in Endings \cup {"none"}
                                /\ out.stop \in BOOLEAN
                                /\ out.continue \in BOOLEAN
                                /\ out.fallback \in BOOLEAN
                                /\ \A v \in DOMAIN out.delta : out.delta[v] \in Int
    /\ MaxRecap \in Nat

VARIABLES
    rows,     \* turn_sessions: the ids of its rows
    used,     \* every session id handed out so far
    session,  \* the columns of each turn_sessions row
    turns,    \* turn_session_turns, by session: a set of transcript rows
    events,   \* turn_session_events, by session
    debrief,  \* session_debriefs: at most one row per session (UNIQUE)
    branch,   \* session_branches, by branch session
    fts,      \* session_transcript_fts: <<session, turn_number>> entries
    recap,    \* relationship_state: session_count of the NPC, 0 = no row
    req       \* the requests in flight

tables == <<rows, used, session, turns, events, debrief, branch, fts, recap>>
vars == <<rows, used, session, turns, events, debrief, branch, fts, recap, req>>

-----------------------------------------------------------------------------
(***************************************************************************)
(* Rows.                                                                   *)
(***************************************************************************)
FlowStates == {"NotStarted", "PlayerTurnListening", "Ended",
               "DebriefGenerating", "DebriefReady", "Error"}

Snapshot == [vars : VarState \cup {Uninitialised}, fired : SUBSET Events]
FreshSnapshot == [vars |-> Uninitialised, fired |-> {}]
NoSnapshot == [vars |-> "null"]

\* A turn_sessions row; `snap` is state_vars_json with fired_events_json.
SessionRow == [flow : FlowStates,
               ending : Endings \cup {"none"},
               snap : Snapshot,
               count : Nat,
               setup : [save : BOOLEAN, tts : BOOLEAN],
               endedAt : BOOLEAN]

NewRow(flow, snap, count, setup) ==
    [flow |-> flow, ending |-> "none", snap |-> snap, count |-> count,
     setup |-> setup, endedAt |-> FALSE]

NoSession == NewRow("NotStarted", FreshSnapshot, 0, [save |-> FALSE, tts |-> FALSE])

\* Game turn n is stored as rows 2n-1 (player) and 2n (NPC, with a snapshot).
OpeningRow == [n |-> 0, role |-> "npc_opening", snap |-> NoSnapshot]
PlayerRow(n) == [n |-> 2 * n - 1, role |-> "player", snap |-> NoSnapshot]
NpcRow(n, snap) == [n |-> 2 * n, role |-> "npc", snap |-> snap]

Numbers(s) == {row.n : row \in turns[s]}

\* Mutant: the search index is filled whatever the setup says.
IndexEntriesAlways(s, numbers, save) == {s} \X numbers

\* Lines enter the search index only when the session saves its transcript.
IndexEntries(s, numbers, save) == IF save THEN {s} \X numbers ELSE {}

Event(n, type, id) == [turn |-> n, type |-> type, id |-> id]

NoDebrief == [total |-> -1]
NoBranch == [fork |-> 0]

(***************************************************************************)
(* Requests in flight.                                                     *)
(***************************************************************************)
Idle == [kind |-> "idle"]
AwaitTurn(s) == [kind |-> "turn", sid |-> s, row |-> session[s]]
AwaitDebrief(s) == [kind |-> "debrief", sid |-> s, row |-> session[s]]
AwaitTts(s, n) == [kind |-> "tts", sid |-> s, turn |-> n]
\* The handler answers 5xx: a mapped engine error ("runtime") or something no
\* except clause maps, a bare 500.
Failed(cause) == [kind |-> "failed", cause |-> cause]

\* After a recorded line the handler speaks it when the session asks for it.
AfterLine(s, n, speak) == IF speak THEN AwaitTts(s, n) ELSE Idle

-----------------------------------------------------------------------------
Init ==
    /\ rows = {} /\ used = {}
    /\ session = [s \in Sess |-> NoSession]
    /\ turns = [s \in Sess |-> {}]
    /\ events = [s \in Sess |-> {}]
    /\ debrief = [s \in Sess |-> NoDebrief]
    /\ branch = [s \in Sess |-> NoBranch]
    /\ fts = {}
    /\ recap = 0
    /\ req = [r \in Reqs |-> Idle]

-----------------------------------------------------------------------------
(***************************************************************************)
(* Creating and starting a session.                                        *)
(***************************************************************************)
\* Mutant: the id of a deleted session may come back.
InsertSessionReuse(s, row) ==
    /\ s \notin rows
    /\ rows' = rows \cup {s}
    /\ used' = used \cup {s}
    /\ session' = [session EXCEPT ![s] = row]

InsertSession(s, row) ==
    /\ s \notin used
    /\ rows' = rows \cup {s}
    /\ used' = used \cup {s}
    /\ session' = [session EXCEPT ![s] = row]

CreateSession(s, setup) ==
    /\ InsertSession(s, NewRow("NotStarted", FreshSnapshot, 0, setup))
    /\ UNCHANGED <<turns, events, debrief, branch, fts, recap, req>>

\* The pack workbench's preview: opened already, variables initialised, saving
\* and speech off.
CreateTestSession(s) ==
    /\ InsertSession(s, NewRow("PlayerTurnListening",
                               [vars |-> InitialState, fired |-> {}], 0,
                               [save |-> FALSE, tts |-> FALSE]))
    /\ turns' = [turns EXCEPT ![s] = {OpeningRow}]
    /\ UNCHANGED <<events, debrief, branch, fts, recap, req>>

StartSession(r, s) ==
    /\ req[r] = Idle
    /\ s \in rows
    /\ session[s].flow = "NotStarted"
    /\ 0 \notin Numbers(s)
    /\ session' = [session EXCEPT ![s].flow = "PlayerTurnListening"]
    /\ turns' = [turns EXCEPT ![s] = @ \cup {OpeningRow}]
    /\ fts' = fts \cup IndexEntries(s, {0}, session[s].setup.save)
    /\ req' = [req EXCEPT ![r] = AfterLine(s, 0, session[s].setup.tts)]
    /\ UNCHANGED <<rows, used, events, debrief, branch, recap>>

-----------------------------------------------------------------------------
(***************************************************************************)
(* The player's turn.                                                      *)
(***************************************************************************)
\* Mutants: the schema without UNIQUE(session_id, turn_number); foreign keys off.
InsertableTwice(s, n) == s \in rows
InsertableOrphan(s, n) == Numbers(s) \cap {2 * n - 1, 2 * n} = {}

\* Both inserts of game turn n pass the foreign key on the session and
\* UNIQUE(session_id, turn_number).
Insertable(s, n) == s \in rows /\ Numbers(s) \cap {2 * n - 1, 2 * n} = {}

\* What both writers of a game turn insert, in one transaction.
RecordTurn(s, n, snap, log, save) ==
    /\ Insertable(s, n)
    /\ turns' = [turns EXCEPT ![s] = @ \cup {PlayerRow(n), NpcRow(n, snap)}]
    /\ events' = [events EXCEPT ![s] = @ \cup log]
    /\ fts' = fts \cup IndexEntries(s, {2 * n - 1, 2 * n}, save)

\* Mutants: the counter is not advanced; earlier firings are forgotten.
NextTurnSame(row) == row.count
FiredNowOnly(before, ids) == ids

NextTurn(row) == row.count + 1

\* evaluate_event_triggers adds the triggered ids to the set it was given.
FiredNow(before, ids) == before \cup ids

CanSubmit(r, s) ==
    /\ req[r] = Idle
    /\ s \in rows
    /\ session[s].flow = "PlayerTurnListening"

\* The input gate stops the conversation: no model call, the state unchanged.
StopAtInput(r, s) ==
    LET n == NextTurn(session[s])
    IN  /\ CanSubmit(r, s)
        /\ RecordTurn(s, n, session[s].snap,
                      {Event(n, "input_safety_stop", "none"),
                       Event(n, "session_ending", "safety_stop")},
                      session[s].setup.save)
        /\ session' = [session EXCEPT ![s].count = n, ![s].flow = "Ended",
                                      ![s].ending = "safety_stop"]
        /\ req' = [req EXCEPT ![r] = AfterLine(s, n, session[s].setup.tts)]
        /\ UNCHANGED <<rows, used, debrief, branch, recap>>

\* Accepted (or redirected) input: the row is read, the model is called.
SubmitTurn(r, s) ==
    /\ CanSubmit(r, s)
    /\ req' = [req EXCEPT ![r] = AwaitTurn(s)]
    /\ UNCHANGED tables

\* What a reply makes of the row the handler read before the await.
TurnResult(row, out) ==
    LET n == NextTurn(row)
        state == ApplyDelta(Base(row.snap.vars), out.delta)
        ids == Triggered(state, n, row.snap.fired, out.flags)
        verdict == EndingOf(state, n, out.stop)
    IN  [turn |-> n,
         snap |-> [vars |-> state, fired |-> FiredNow(row.snap.fired, ids)],
         triggered |-> ids,
         ending |-> IF verdict = "none" /\ ~out.continue THEN out.ending ELSE verdict]

EndingEvents(n, ending) ==
    IF ending = "none" THEN {} ELSE {Event(n, "session_ending", ending)}

PersistTurn(r, out) ==
    LET s == req[r].sid
        row == req[r].row
        res == TurnResult(row, out)
    IN  /\ req[r].kind = "turn"
        /\ RecordTurn(s, res.turn, res.snap,
                      {Event(res.turn, "scenario_event", e) : e \in res.triggered}
                          \cup EndingEvents(res.turn, res.ending),
                      row.setup.save)
        /\ session' = [session EXCEPT
                ![s].snap = res.snap, ![s].count = res.turn,
                ![s].flow = IF res.ending = "none" THEN "PlayerTurnListening" ELSE "Ended",
                ![s].ending = res.ending]
        /\ req' = [req EXCEPT ![r] = AfterLine(s, res.turn, row.setup.tts /\ ~out.fallback)]
        /\ UNCHANGED <<rows, used, debrief, branch, recap>>

\* The transaction hits a constraint: rolled back, IntegrityError.
RejectTurn(r) ==
    /\ req[r].kind = "turn"
    /\ ~Insertable(req[r].sid, NextTurn(req[r].row))
    /\ req' = [req EXCEPT ![r] = Failed("turn")]
    /\ UNCHANGED tables

\* TimeoutError (504) or ConnectionError (503): "it was not recorded".
TurnRuntimeError(r) ==
    /\ req[r].kind = "turn"
    /\ req' = [req EXCEPT ![r] = Failed("runtime")]
    /\ UNCHANGED tables

(***************************************************************************)
(* Speech for a recorded line.  The chunks are synthesised first and then  *)
(* inserted without another await; the foreign key is still checked.       *)
(***************************************************************************)
SpeakLine(r) ==
    /\ req[r].kind = "tts"
    /\ IF req[r].sid \in rows
       THEN /\ events' = [events EXCEPT ![req[r].sid] =
                             @ \cup {Event(req[r].turn, "tts_audio_chunk", "none")}]
            /\ req' = [req EXCEPT ![r] = Idle]
       ELSE /\ req' = [req EXCEPT ![r] = Failed("tts")]
            /\ UNCHANGED events
    /\ UNCHANGED <<rows, used, session, turns, debrief, branch, fts, recap>>

\* synthesize_utterance raised, or there was nothing to say: no chunk.
SpeechUnavailable(r) ==
    /\ req[r].kind = "tts"
    /\ req' = [req EXCEPT ![r] = Idle]
    /\ UNCHANGED tables

-----------------------------------------------------------------------------
(***************************************************************************)
(* Ending, debriefing, branching.                                          *)
(***************************************************************************)
EndSession(s) ==
    /\ s \in rows
    /\ session[s].flow # "Ended"
    /\ session' = [session EXCEPT
            ![s].flow = "Ended",
            ![s].ending = IF @ = "none" THEN "player_exit" ELSE @,
            ![s].endedAt = TRUE]
    /\ UNCHANGED <<rows, used, turns, events, debrief, branch, fts, recap, req>>

CanDebrief(s) == s \in rows /\ session[s].flow \in {"Ended", "DebriefGenerating", "Error"}

\* update_relationship_memory, after generate_debrief has returned.
RememberSession == recap < MaxRecap /\ recap' = recap + 1

\* "Generate-or-get": a stored debrief is returned.
ReuseDebrief(s) ==
    /\ CanDebrief(s)
    /\ debrief[s] # NoDebrief
    /\ session' = [session EXCEPT ![s].flow = "DebriefReady"]
    /\ RememberSession
    /\ UNCHANGED <<rows, used, turns, events, debrief, branch, fts, req>>

\* Mutant: the session is announced ready before its debrief exists.
GeneratingReady == "DebriefReady"

Generating == "DebriefGenerating"

BeginDebrief(r, s) ==
    /\ req[r] = Idle
    /\ CanDebrief(s)
    /\ debrief[s] = NoDebrief
    /\ session' = [session EXCEPT ![s].flow = Generating]
    /\ req' = [req EXCEPT ![r] = AwaitDebrief(s)]
    /\ UNCHANGED <<rows, used, turns, events, debrief, branch, fts, recap>>

\* Mutant: the outcome is not defaulted.
DebriefOfRaw(row) == [total |-> row.count, outcome |-> row.ending]

DebriefOf(row) == [total |-> row.count,
                   outcome |-> IF row.ending = "none" THEN "player_exit" ELSE row.ending]

\* Mutant: foreign keys off.
DebriefInsertableOrphan(s) == s \in Sess

\* The debrief's foreign key.
DebriefInsertable(s) == s \in rows

\* Mutant: INSERT OR REPLACE.
InsertDebriefOver(old, new) == new

\* INSERT ... ON CONFLICT(session_id) DO NOTHING.
InsertDebrief(old, new) == IF old = NoDebrief THEN new ELSE old

StoreDebrief(r) ==
    LET s == req[r].sid
    IN  /\ req[r].kind = "debrief"
        /\ DebriefInsertable(s)
        /\ debrief' = [debrief EXCEPT ![s] = InsertDebrief(@, DebriefOf(req[r].row))]
        /\ session' = [session EXCEPT ![s].flow = "DebriefReady", ![s].endedAt = TRUE]
        /\ RememberSession
        /\ req' = [req EXCEPT ![r] = Idle]
        /\ UNCHANGED <<rows, used, turns, events, branch, fts>>

\* The runtime raised, or the session is gone and the INSERT did: the session,
\* if it exists, is marked Error and the request answers 500.
FailDebrief(r) ==
    LET s == req[r].sid
    IN  /\ req[r].kind = "debrief"
        /\ session' = IF s \in rows THEN [session EXCEPT ![s].flow = "Error"] ELSE session
        /\ req' = [req EXCEPT ![r] = Failed("debrief")]
        /\ UNCHANGED <<rows, used, turns, events, debrief, branch, fts, recap>>

\* Mutants: the snapshot is not restored; the branch counts the fork turn.
InsertBranchFresh(p, f, b, snap) ==
    InsertSession(b, NewRow("PlayerTurnListening", FreshSnapshot, f - 1, session[p].setup))
InsertBranchCounted(p, f, b, snap) ==
    InsertSession(b, NewRow("PlayerTurnListening", snap, f, session[p].setup))

\* Branch b replays parent p from the start of game turn f.
InsertBranch(p, f, b, snap) ==
    InsertSession(b, NewRow("PlayerTurnListening", snap, f - 1, session[p].setup))

\* Mutant: `turn_number < ?`, the last reply before the fork is not copied.
ForkPrefixShort(p, f) == {row \in turns[p] : row.n < 2 * (f - 1)}

ForkPrefix(p, f) == {row \in turns[p] : row.n <= 2 * (f - 1)}

ForkSession(p, f, b) ==
    LET prefix == ForkPrefix(p, f)
    IN  /\ p \in rows
        /\ f \in 1 .. session[p].count
        /\ \/ f = 1 /\ InsertBranch(p, f, b, FreshSnapshot)
           \/ f > 1 /\ \E row \in prefix : /\ row.n = 2 * (f - 1)
                                           /\ row.snap # NoSnapshot
                                           /\ InsertBranch(p, f, b, row.snap)
        /\ turns' = [turns EXCEPT ![b] = prefix]
        /\ branch' = [branch EXCEPT ![b] = [fork |-> f, parent |-> p]]
        /\ fts' = fts \cup IndexEntries(b, {row.n : row \in prefix}, session[p].setup.save)
        /\ UNCHANGED <<events, debrief, recap, req>>

-----------------------------------------------------------------------------
(***************************************************************************)
(* Erasing.  ON DELETE CASCADE removes turns, events, the debrief and the  *)
(* branch record with the session; the search index has no foreign key.    *)
(***************************************************************************)
Erase(gone) ==
    /\ rows' = rows \ gone
    /\ session' = [s \in Sess |-> IF s \in gone THEN NoSession ELSE session[s]]
    /\ turns' = [s \in Sess |-> IF s \in gone THEN {} ELSE turns[s]]
    /\ events' = [s \in Sess |-> IF s \in gone THEN {} ELSE events[s]]
    /\ debrief' = [s \in Sess |-> IF s \in gone THEN NoDebrief ELSE debrief[s]]
    /\ branch' = [s \in Sess |-> IF s \in gone THEN NoBranch ELSE branch[s]]

DeleteSession(s) ==
    /\ s \in rows
    /\ Erase({s})
    /\ fts' = {entry \in fts : entry[1] # s}
    /\ UNCHANGED <<used, recap, req>>

ClearLocalData ==
    /\ Erase(rows)
    /\ recap' = 0
    /\ UNCHANGED <<used, fts, req>>

DeleteRecap ==
    /\ recap' = 0
    /\ UNCHANGED <<rows, used, session, turns, events, debrief, branch, fts, req>>

(***************************************************************************)
(* The client takes a 5xx; the core process dies and is started again.     *)
(***************************************************************************)
TakeFailure(r) ==
    /\ req[r].kind = "failed"
    /\ req' = [req EXCEPT ![r] = Idle]
    /\ UNCHANGED tables

Restart ==
    /\ req' = [r \in Reqs |-> Idle]
    /\ UNCHANGED tables

-----------------------------------------------------------------------------
Complete(r) ==
    \/ \E out \in TurnOutputs : PersistTurn(r, out)
    \/ RejectTurn(r) \/ TurnRuntimeError(r)
    \/ SpeakLine(r) \/ SpeechUnavailable(r)
    \/ StoreDebrief(r) \/ FailDebrief(r)
    \/ TakeFailure(r)

Next ==
    \/ \E s \in Sess, setup \in Setups : CreateSession(s, setup)
    \/ \E s \in Sess : CreateTestSession(s)
    \/ \E r \in Reqs, s \in Sess : \/ StartSession(r, s)
                                   \/ StopAtInput(r, s)
                                   \/ SubmitTurn(r, s)
                                   \/ BeginDebrief(r, s)
    \/ \E r \in Reqs : Complete(r)
    \/ \E s \in Sess : EndSession(s) \/ ReuseDebrief(s) \/ DeleteSession(s)
    \/ \E p, b \in Sess, f \in 1 .. MaxTurns : ForkSession(p, f, b)
    \/ ClearLocalData \/ DeleteRecap \/ Restart

Spec == Init /\ [][Next]_vars


-----------------------------------------------------------------------------
(***************************************************************************)
(* Types.                                                                  *)
(***************************************************************************)
TurnRow == [n : Nat, role : {"npc_opening", "player", "npc"},
            snap : Snapshot \cup {NoSnapshot}]

EventRow == [turn : Nat,
             type : {"scenario_event", "session_ending", "input_safety_stop", "tts_audio_chunk"},
             id : Events \cup Endings \cup {"none"}]

Request ==
    {Idle} \cup [kind : {"turn", "debrief"}, sid : Sess, row : SessionRow]
           \cup [kind : {"tts"}, sid : Sess, turn : Nat]
           \cup [kind : {"failed"}, cause : {"turn", "runtime", "tts", "debrief"}]

\* Every table holds rows of its schema and every request slot a request.
TypeOK ==
    /\ used \subseteq Sess
    /\ rows \subseteq used
    /\ session \in [Sess -> SessionRow]
    /\ turns \in [Sess -> SUBSET TurnRow]
    /\ events \in [Sess -> SUBSET EventRow]
    /\ debrief \in [Sess -> {NoDebrief} \cup [total : Nat, outcome : Endings]]
    /\ branch \in [Sess -> {NoBranch} \cup [fork : Nat \ {0}, parent : Sess]]
    /\ fts \subseteq Sess \X Nat
    /\ recap \in Nat
    /\ req \in [Reqs -> Request]

(***************************************************************************)
(* The transcript.                                                         *)
(***************************************************************************)
\* A transcript has no gap and no line twice, however turns overlap: it is
\* empty until the session is opened, and then holds exactly the opening and
\* both lines of each of the turn_count completed turns.  The turn pipeline
\* computes the numbers from a row read before it awaits the model.
TranscriptContiguous ==
    \A s \in rows :
        /\ Numbers(s) = 0 .. 2 * session[s].count \/ (Numbers(s) = {} /\ session[s].count = 0)
        /\ session[s].flow = "NotStarted" => Numbers(s) = {}
        /\ session[s].flow = "PlayerTurnListening" => 0 \in Numbers(s)
        /\ \A a, b \in turns[s] : a.n = b.n => a = b

\* The snapshot the NPC row of game turn k holds; the fresh one for k = 0.
SnapshotsAt(s, k) ==
    IF k = 0 THEN {FreshSnapshot} ELSE {row.snap : row \in {x \in turns[s] : x.n = 2 * k}}

\* `new` is one reply (or an input stop) away from `old`.
Follows(old, new) ==
    /\ old.fired \subseteq new.fired
    /\ \/ new.vars = old.vars
       \/ \A v \in Vars : /\ new.vars[v] \in Lo[v] .. Hi[v]
                          /\ new.vars[v] - Base(old.vars)[v] \in -MaxDelta[v] .. MaxDelta[v]

\* No turn is lost and none is applied twice: the simulation state of a session
\* is the snapshot of its last turn, and each turn's snapshot is one bounded
\* step from the turn before, although a turn computes its result from a state
\* read before the model was called.  (Session rows of the workbench start
\* initialised, so their empty transcript carries the initial state.)
StateIsLastTurn ==
    \A s \in rows :
        /\ session[s].count > 0 => SnapshotsAt(s, session[s].count) = {session[s].snap}
        /\ session[s].count = 0 => Base(session[s].snap.vars) = InitialState
        /\ \A k \in 1 .. session[s].count :
              \A old \in SnapshotsAt(s, k - 1), new \in SnapshotsAt(s, k) :
                 Follows(old, new)

\* No conversation passes the scenario's turn limit, and one that can still take
\* a turn has room for it and no ending: the check runs on the row read at
\* submission, the limit is enforced when the turn is stored.
TurnLimit ==
    \A s \in rows :
        /\ session[s].count <= MaxTurns
        /\ session[s].flow \in {"NotStarted", "PlayerTurnListening"} =>
              session[s].count < MaxTurns /\ session[s].ending = "none"

\* What a turn in flight remembers of its session was true once and is at worst
\* old: the session was open, below its limit, and has only moved forward.  A
\* row of a deleted session never meets another session under the same id.
CapturedTurns ==
    \A r \in Reqs : req[r].kind = "turn" =>
        /\ req[r].sid \in used
        /\ req[r].row.count < MaxTurns
        /\ req[r].sid \in rows => /\ 0 \in Numbers(req[r].sid)
                                 /\ req[r].row.count <= session[req[r].sid].count

(***************************************************************************)
(* Scenario events.                                                        *)
(***************************************************************************)
Firings(s, e) == {ev \in events[s] : ev.type = "scenario_event" /\ ev.id = e}

\* What a branch inherited as fired from its parent.
Inherited(s) ==
    IF branch[s] = NoBranch THEN {}
    ELSE UNION {snap.fired : snap \in SnapshotsAt(s, branch[s].fork - 1)}

\* "If false (default), fires at most once per session": a non-repeating event
\* is logged once, never again on a branch whose prefix fired it, and the set
\* saved in fired_events_json is exactly what the log and the prefix say.
FiredOnce ==
    \A s \in rows :
        /\ session[s].snap.fired = Inherited(s) \cup {e \in Events : Firings(s, e) # {}}
        /\ \A e \in Events \ Repeats :
              /\ Cardinality(Firings(s, e)) <= 1
              /\ e \in Inherited(s) => Firings(s, e) = {}

(***************************************************************************)
(* Tables that must agree.                                                 *)
(***************************************************************************)
\* A deleted session leaves no turn, event, debrief or branch row behind, even
\* when a turn, a debrief or speech was in flight while it was deleted.
NoOrphans ==
    \A s \in Sess \ rows :
        turns[s] = {} /\ events[s] = {} /\ debrief[s] = NoDebrief /\ branch[s] = NoBranch

\* The search index of a live session lists exactly its transcript when the
\* player saves transcripts, and nothing when not: opening, turns, input stops
\* and forks all keep it.
SearchMatchesTranscript ==
    \A s \in rows :
        {entry[2] : entry \in {x \in fts : x[1] = s}} =
            IF session[s].setup.save THEN Numbers(s) ELSE {}

\* create_debrief answers 500 "data inconsistency" when a DebriefReady session
\* has no stored debrief: overlapping generations, late turns and deletions
\* never produce that state.
ReadyHasDebrief ==
    \A s \in rows : session[s].flow = "DebriefReady" =>
                        debrief[s] # NoDebrief /\ session[s].endedAt

\* A branch starts with exactly the lines its parent has before the fork turn,
\* and still does while both exist, whatever either plays on.
BranchPrefix ==
    \A b \in rows :
        LET p == branch[b].parent IN
        branch[b] # NoBranch /\ p \in rows =>
            {row \in turns[b] : row.n <= 2 * (branch[b].fork - 1)} =
            {row \in turns[p] : row.n <= 2 * (branch[b].fork - 1)}

(***************************************************************************)
(* What a step may never do.                                               *)
(***************************************************************************)
\* A stored debrief is never replaced while its session exists, even by an
\* overlapping generation that read a different row.
DebriefImmutable ==
    [][\A s \in rows \cap rows' : debrief[s] # NoDebrief => debrief'[s] = debrief[s]]_vars

\* The NPC remembers one more session only with a debrief of a live session:
\* a generation in flight over a deletion or a wipe does not bring the memory
\* back.
MemoryFromStoredDebrief ==
    [][recap' > recap =>
         \E s \in rows : session'[s].flow = "DebriefReady" /\ debrief'[s] # NoDebrief]_vars

\* However generations overlap with each other, a deletion or a wipe, a debrief
\* stands once it is stored and the memory follows stored debriefs only.
DebriefsStand == DebriefImmutable /\ MemoryFromStoredDebrief

(***************************************************************************)
(* Progress.                                                               *)
(***************************************************************************)
PersistFor(s) == \E r \in Reqs, out \in TurnOutputs :
                    req[r].kind = "turn" /\ req[r].sid = s /\ PersistTurn(r, out)

\* A player who keeps trying and a model that answers some of the tries; every
\* request ends, because the adapters bound their waits.
Fairness ==
    /\ \A r \in Reqs : WF_vars(Complete(r))
    /\ \A s \in Sess : /\ SF_vars(\E r \in Reqs : SubmitTurn(r, s))
                       /\ SF_vars(PersistFor(s))

FairSpec == Spec /\ Fairness

\* A conversation the player keeps playing comes to an end (or is deleted): no
\* interleaving of overlapping submissions, failures and restarts leaves it
\* listening forever below its turn limit.
ConversationEnds ==
    \A s \in Sess : (s \in rows /\ session[s].flow = "PlayerTurnListening")
                        ~> (s \notin rows \/ session[s].flow # "PlayerTurnListening")

=============================================================================
