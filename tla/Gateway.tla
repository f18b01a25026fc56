------------------------------ MODULE Gateway ------------------------------
(***************************************************************************)
(* The session half of the API gateway (apps/api): the sessions table and  *)
(* its events, the request handlers of routes/sessions.ts and              *)
(* routes/privacy.ts, and the WebSocket hub of ws/session-events.ts that   *)
(* routes/session-ws.ts connects clients to.  SQLite calls are synchronous *)
(* and Node runs one handler at a time, so a handler is one action unless  *)
(* it awaits: only a turn does, and only when CONVSIM_FAKE_DELAY_MS is     *)
(* set (`delay`).                                                          *)
(***************************************************************************)
EXTENDS Naturals, Sequences, SequencesExt, FiniteSets

CONSTANTS
  Sess,        \* session ids, drawn at random and never reused
  Calls,       \* turn requests that can be waiting for their reply
  Clients,     \* browser windows, each with at most one socket
  Setups,      \* the launch forms a player may post
  Scenario,    \* what findScenarioInfo knows of the launched scenario
  MaxTurns,    \* scenario.duration.max_turns
  ReplayLimit, \* REPLAY_LIMIT
  MaxEvents,   \* bound: events per session
  MaxSeq       \* bound: messages per session

ASSUME MaxTurnsAssumption == MaxTurns \in Nat \ {0}
ASSUME NamesAssumption == "none" \notin Sess /\ \A setup \in Setups : setup.save \in BOOLEAN
ASSUME LimitsAssumption == ReplayLimit \in Nat /\ MaxEvents \in Nat /\ MaxSeq \in Nat

States == {"NotStarted", "PlayerTurnListening", "NPCTurn", "DebriefReady", "Ended", "Error"}
Endings == {"none", "player_exit", "timeout", "safety_stop"}
EventTypes == {"npc_opening", "player_turn", "npc_turn", "session_ended", "debrief_generated"}
Unborn == [at |-> "unborn", test |-> FALSE, state |-> "NotStarted", save |-> TRUE,
           count |-> 0, ending |-> "none", ended |-> FALSE]
NoCall == [sess |-> "none", count |-> 0]
NoSocket == [sess |-> "none", up |-> FALSE, last |-> 0, view |-> "none"]
Closed == [open |-> FALSE, members |-> {}, seq |-> 0]

VARIABLES
  delay,   \* CONVSIM_FAKE_DELAY_MS > 0, fixed at start-up
  row,     \* the sessions table: where the row is and its columns
  events,  \* the session_events table, by session, in event_id order
  call,    \* turns between their await and its result: what they have read
  hub,     \* the module-level Map of ws/session-events.ts
  sock     \* per window: the session it is connected to, the last seq and
           \* the last session.state it has received

vars == <<delay, row, events, call, hub, sock>>

Here(s) == row[s].at = "here"
Room(s) == Len(events[s]) + 2 <= MaxEvents /\ hub[s].seq < MaxSeq

\* Mutant: a turn is accepted from an ended session as well.
CanTransitionReopen(state, action) ==
  IF state = "Ended" THEN action \in {"debrief", "turn"} ELSE action \in {"end", "start", "turn"}

\* canTransition: is the request a legal next step from this state?
CanTransition(state, action) ==
  CASE state = "Ended" -> action = "debrief"
    [] state = "Error" -> action = "end"
    [] action = "end" -> state \notin {"Ended", "Error"}
    [] action = "start" -> state = "NotStarted"
    [] action = "turn" -> state = "PlayerTurnListening"
    [] OTHER -> state = "DebriefReady"

\* Mutant: the setup is not looked at.
SavedAlways(s, types) == events[s] \o types

\* insertEvent, called only when the setup asks for transcripts.
Saved(s, types) == IF row[s].save THEN events[s] \o types ELSE events[s]

\* Mutant: the session.state message is left out.
BroadcastStateless(s, n, state) ==
  LET seq == hub[s].seq + n IN
  IF hub[s].open
  THEN /\ hub' = [hub EXCEPT ![s].seq = seq]
       /\ sock' = [c \in Clients |->
                     IF c \in hub[s].members /\ sock[c].up
                     THEN [sock[c] EXCEPT !.last = seq] ELSE sock[c]]
  ELSE UNCHANGED <<hub, sock>>

\* broadcast, n messages of which the last session.state says `state`: no
\* entry, no message; otherwise seq advances whoever listens.  send() on a
\* socket that is closing does not throw, it is simply lost.
Broadcast(s, n, state) ==
  LET seq == hub[s].seq + n IN
  IF hub[s].open
  THEN /\ hub' = [hub EXCEPT ![s].seq = seq]
       /\ sock' = [c \in Clients |->
                     IF c \in hub[s].members /\ sock[c].up
                     THEN [sock[c] EXCEPT !.last = seq, !.view = state]
                     ELSE sock[c]]
  ELSE UNCHANGED <<hub, sock>>

\* broadcast, then closeSessionSockets: every socket is closed and the entry,
\* with its seq, is dropped.
BroadcastAndClose(s) ==
  /\ hub' = [hub EXCEPT ![s] = Closed]
  /\ sock' = [c \in Clients |-> IF c \in hub[s].members THEN NoSocket ELSE sock[c]]

\* The four checks of POST /api/sessions after its schema.
Launchable(setup) ==
  /\ setup.role # "blank"
  /\ setup.difficulty \in Scenario.difficulties
  /\ setup.language \in Scenario.languages
  /\ setup.meters => Scenario.meters

Create(s) ==
  /\ row[s].at = "unborn"
  /\ \E setup \in Setups :
       /\ Launchable(setup)
       /\ row' = [row EXCEPT ![s] =
            [Unborn EXCEPT !.at = "here", !.save = setup.save]]
  /\ UNCHANGED <<delay, events, call, hub, sock>>

\* A test session of the workbench: already started, never transcribed.
TestSession(s) ==
  /\ row[s].at = "unborn"
  /\ row' = [row EXCEPT ![s] = [Unborn EXCEPT !.at = "here", !.test = TRUE, !.save = FALSE,
                                             !.state = "PlayerTurnListening"]]
  /\ UNCHANGED <<delay, events, call, hub, sock>>

Start(s) ==
  /\ Here(s) /\ CanTransition(row[s].state, "start") /\ Room(s)
  /\ row' = [row EXCEPT ![s].state = "PlayerTurnListening"]
  /\ events' = [events EXCEPT ![s] = Saved(s, <<"npc_opening">>)]
  /\ Broadcast(s, 2, "PlayerTurnListening")
  /\ UNCHANGED <<delay, call>>

\* Mutant: one turn too many.
EndingOfLate(reply, count) == IF count > MaxTurns THEN "timeout" ELSE "none"

\* Steps 5 and 6 of a turn: the reply of the fake runtime neither stops nor
\* ends the session, so only the turn limit does.
FakeReply == [stop |-> FALSE, continue |-> TRUE]

EndingOf(reply, count) ==
  CASE reply.stop -> "safety_stop"
    [] ~reply.continue -> "player_exit"
    [] count >= MaxTurns -> "timeout"
    [] OTHER -> "none"

\* Mutant: without the foreign key.
InsertableAlways(s) == TRUE

\* The events' foreign key accepts what the turn inserts.
Insertable(s) == Here(s) \/ ~row[s].save

\* Steps 7 and 8 of a turn, from the row as it was read before the await.
\* UPDATE of a deleted row changes nothing; the events' foreign key then
\* fails the transaction of a saved session, and nothing is sent.
PersistTurn(s, read) ==
  LET count == read + 1
      ending == EndingOf(FakeReply, count)
      state == IF ending = "none" THEN "PlayerTurnListening" ELSE "Ended"
  IN
  IF Insertable(s)
  THEN /\ row' = IF Here(s)
                 THEN [row EXCEPT ![s].count = count, ![s].state = state, ![s].ending = ending]
                 ELSE row
       /\ events' = [events EXCEPT ![s] = Saved(s, <<"player_turn", "npc_turn">>)]
       /\ IF state = "Ended" THEN BroadcastAndClose(s) ELSE Broadcast(s, 3, state)
  ELSE UNCHANGED <<row, events, hub, sock>>

CanTurn(s) == Here(s) /\ CanTransition(row[s].state, "turn") /\ Room(s)

\* Without a delay the reply is there within the same turn of the event loop.
Turn(s) ==
  /\ ~delay /\ CanTurn(s)
  /\ PersistTurn(s, row[s].count)
  /\ UNCHANGED <<delay, call>>

TurnBegin(r, s) ==
  /\ delay /\ call[r] = NoCall /\ CanTurn(s)
  /\ call' = [call EXCEPT ![r] = [sess |-> s, count |-> row[s].count]]
  /\ UNCHANGED <<delay, row, events, hub, sock>>

TurnFinish(r) ==
  /\ call[r] # NoCall /\ Room(call[r].sess)
  /\ PersistTurn(call[r].sess, call[r].count)
  /\ call' = [call EXCEPT ![r] = NoCall]
  /\ UNCHANGED delay

\* withTimeout rejects with TURN_TIMEOUT: the handler answers 504 before it
\* has written anything, and the late reply is dropped.
TurnTimeout(r) ==
  /\ call[r] # NoCall
  /\ call' = [call EXCEPT ![r] = NoCall]
  /\ UNCHANGED <<delay, row, events, hub, sock>>

End(s) ==
  /\ Here(s) /\ CanTransition(row[s].state, "end") /\ Room(s)
  /\ row' = [row EXCEPT ![s].state = "Ended", ![s].ended = TRUE,
                        ![s].ending = IF @ = "none" THEN "player_exit" ELSE @]
  /\ events' = [events EXCEPT ![s] = Saved(s, <<"session_ended">>)]
  /\ BroadcastAndClose(s)
  /\ UNCHANGED <<delay, call>>

\* A debrief may be asked for again: each time it stores one more event.
Debrief(s) ==
  /\ Here(s) /\ CanTransition(row[s].state, "debrief") /\ Room(s)
  /\ row' = [row EXCEPT ![s].state = "Ended", ![s].ended = TRUE]
  /\ events' = [events EXCEPT ![s] = Saved(s, <<"debrief_generated">>)]
  /\ BroadcastAndClose(s)
  /\ UNCHANGED <<delay, call>>

\* DELETE of one session: the foreign key cascades to its events.
Delete(s) ==
  /\ Here(s)
  /\ row' = [row EXCEPT ![s].at = "gone"]
  /\ events' = [events EXCEPT ![s] = <<>>]
  /\ BroadcastAndClose(s)
  /\ UNCHANGED <<delay, call>>

\* POST /api/privacy/clear: one transaction over both tables.  The hub is not
\* told.
ClearPrivacy ==
  /\ \E s \in Sess : Here(s)
  /\ row' = [s \in Sess |-> IF Here(s) THEN [row[s] EXCEPT !.at = "gone"] ELSE row[s]]
  /\ events' = [s \in Sess |-> <<>>]
  /\ UNCHANGED <<delay, call, hub, sock>>

----------------------------------------------------------------------------
(* GET /ws/session/:session_id *)

\* mapDbEvent: what a reconnecting client is sent of a stored event.
Replayable == {"npc_opening", "npc_turn", "session_ended"}
Replayed(s) == {i \in DOMAIN events[s] : i <= ReplayLimit /\ events[s][i] \in Replayable}

\* A client without a row is refused; the others are registered, sent the
\* current state and, with after_seq=0, the stored events.
Connect(c, s, replay) ==
  LET sent == IF replay THEN Replayed(s) ELSE {}
      seq == hub[s].seq + 1 + Cardinality(sent)
      ended == \E i \in sent : events[s][i] = "session_ended"
  IN
  /\ sock[c] = NoSocket /\ Here(s) /\ Room(s)
  /\ hub' = [hub EXCEPT ![s] = [open |-> TRUE, members |-> @.members \union {c}, seq |-> seq]]
  /\ sock' = [sock EXCEPT ![c] =
        [sess |-> s, up |-> TRUE, last |-> seq,
         view |-> IF ended THEN "Ended" ELSE row[s].state]]
  /\ UNCHANGED <<delay, row, events, call>>

\* The peer goes away; the server learns of it with the close event.
Drop(c) ==
  /\ sock[c].up
  /\ sock' = [sock EXCEPT ![c].up = FALSE]
  /\ UNCHANGED <<delay, row, events, call, hub>>

\* Mutants: the close event is not handled; the entry goes with its last member.
RemovedFromNot(entry, c) == entry

RemovedFromLast(entry, c) ==
  IF entry.members = {c} THEN Closed ELSE [entry EXCEPT !.members = @ \ {c}]

RemovedFrom(entry, c) == [entry EXCEPT !.members = @ \ {c}]

OnClose(c) ==
  /\ sock[c] # NoSocket /\ ~sock[c].up
  /\ hub' = [hub EXCEPT ![sock[c].sess] = RemovedFrom(@, c)]
  /\ sock' = [sock EXCEPT ![c] = NoSocket]
  /\ UNCHANGED <<delay, row, events, call>>

\* The process is restarted: the tables survive, the Map and the calls do not.
Restart ==
  /\ call' = [r \in Calls |-> NoCall]
  /\ hub' = [s \in Sess |-> Closed]
  /\ sock' = [c \in Clients |-> NoSocket]
  /\ UNCHANGED <<delay, row, events>>

----------------------------------------------------------------------------
Init ==
  /\ delay \in BOOLEAN
  /\ row = [s \in Sess |-> Unborn]
  /\ events = [s \in Sess |-> <<>>]
  /\ call = [r \in Calls |-> NoCall]
  /\ hub = [s \in Sess |-> Closed]
  /\ sock = [c \in Clients |-> NoSocket]

Request(s) ==
  Create(s) \/ TestSession(s) \/ Start(s) \/ Turn(s) \/ End(s) \/ Debrief(s) \/ Delete(s)

Next ==
  \/ \E s \in Sess : Request(s)
  \/ \E r \in Calls, s \in Sess : TurnBegin(r, s)
  \/ \E r \in Calls : TurnFinish(r) \/ TurnTimeout(r)
  \/ \E c \in Clients, s \in Sess, replay \in BOOLEAN : Connect(c, s, replay)
  \/ \E c \in Clients : Drop(c) \/ OnClose(c)
  \/ ClearPrivacy
  \/ Restart

Spec == Init /\ [][Next]_vars

----------------------------------------------------------------------------
(* Read-only requests. *)

IsTurn(e) == e \in {"npc_opening", "player_turn", "npc_turn"}

\* GET transcript and GET export/text look at the setup first; the full JSON
\* export of routes/privacy.ts does not.
Transcript(s) == IF row[s].save THEN events[s] ELSE <<>>
TextExport(s) == {i \in DOMAIN Transcript(s) : IsTurn(Transcript(s)[i])}
FullExport(s) == events[s]

\* GET /api/sessions and the logbook's sessions: no workbench tests.
Listed == {s \in Sess : Here(s) /\ ~row[s].test}
Profiled == {s \in Listed : row[s].state = "Ended"}

\* Mutant: every debrief event is folded in.
FoldedAgain(acc, s) == [acc EXCEPT !.total = @ + 1]

\* buildProfile's loop over debrief_generated rows: only the first row that is
\* seen of a session, its newest debrief, counts.
Folded(acc, s) ==
  IF s \in acc.seen \/ s \notin Profiled THEN acc
  ELSE [seen |-> acc.seen \union {s}, total |-> acc.total + 1]

Count(s, e) == Cardinality({i \in DOMAIN events[s] : events[s][i] = e})

DebriefRows(s) == [i \in 1..Count(s, "debrief_generated") |-> s]
ScoredSessions ==
  FoldSeq(LAMBDA s, acc : Folded(acc, s), [seen |-> {}, total |-> 0],
          FlattenSeq(SetToSeq({DebriefRows(s) : s \in Listed}))).total

----------------------------------------------------------------------------
TypeOK ==
  /\ delay \in BOOLEAN
  /\ row \in [Sess -> [at : {"unborn", "here", "gone"}, test : BOOLEAN,
                       state : States, save : BOOLEAN, count : 0..MaxTurns,
                       ending : Endings, ended : BOOLEAN]]
  /\ events \in [Sess -> Seq(EventTypes)]
  /\ call \in [Calls -> {NoCall} \union [sess : Sess, count : 0..(MaxTurns - 1)]]
  /\ hub \in [Sess -> [open : BOOLEAN, members : SUBSET Clients, seq : Nat]]
  /\ sock \in [Clients -> {NoSocket} \union
                 [sess : Sess, up : BOOLEAN, last : Nat, view : States]]

\* No event outlives its session, not even one a turn that was still waiting
\* for its reply writes after a DELETE or a privacy wipe.
EventsOwned == \A s \in Sess : ~Here(s) => events[s] = <<>>

\* A session that was set up without transcripts leaves nothing behind, on
\* whichever export path it is asked for.
UnsavedLeavesNothing ==
  \A s \in Sess : FullExport(s) = Transcript(s) /\ (~row[s].save => TextExport(s) = {})

\* A session that still listens has turns left, although overlapping turns
\* write back a count they read before they waited.
TurnLimit ==
  \A s \in Sess : Here(s) /\ row[s].state = "PlayerTurnListening" => row[s].count < MaxTurns

\* While turns cannot overlap, the stored transcript has one player turn and
\* one reply per counted turn, and is opened and ended at most once.
TranscriptMatchesCount ==
  \A s \in Sess : ~delay /\ Here(s) /\ row[s].save =>
    /\ Count(s, "player_turn") = row[s].count /\ Count(s, "npc_turn") = row[s].count
    /\ Count(s, "npc_opening") <= 1 /\ Count(s, "session_ended") <= 1
    /\ row[s].state = "NotStarted" => events[s] = <<>>

\* While turns cannot overlap, a connected window shows the state the table
\* holds, whatever order it connected, was replayed to and was sent events in.
ClientsInSync ==
  \A c \in Clients :
    sock[c].up /\ ~delay /\ Here(sock[c].sess) => sock[c].view = row[sock[c].sess].state

\* A registered socket is open or about to report its close, and has never
\* been sent a number its session has not reached; a deleted session keeps none.
HubMatchesSockets ==
  /\ \A s \in Sess, c \in Clients : c \in hub[s].members <=> sock[c].sess = s
  /\ \A c \in Clients : sock[c] # NoSocket => sock[c].last <= hub[sock[c].sess].seq

\* A window shows the state the table holds, and the hub knows exactly the
\* windows that are there, in whatever order they come, go and are told.
WindowsInSync == ClientsInSync /\ HubMatchesSockets

\* The logbook counts a session's scores once however often it was debriefed,
\* never those of a workbench test or of a session that was reopened.
ScoresCountOnce ==
  ScoredSessions = Cardinality({s \in Profiled : Count(s, "debrief_generated") > 0})

\* "The seq counter must survive reconnects": for as long as a session has
\* not ended and the process lives, its numbers never start again.
Playing(s) == Here(s) /\ row[s].state # "Ended"
SeqSurvives ==
  [][~Restart => \A s \in Sess : Playing(s) /\ Playing(s)' => hub'[s].seq >= hub[s].seq]_vars

\* While turns cannot overlap, an ended session stays ended with its outcome,
\* and only a deletion removes it.
EndedStays ==
  [][\A s \in Sess : ~delay /\ Here(s) /\ row[s].state = "Ended" =>
       row'[s].state = "Ended" /\ row'[s].ending = row[s].ending]_vars
=============================================================================
