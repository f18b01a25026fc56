---------------------------- MODULE GatewayProofs ----------------------------
(* Proofs about the gateway.  Its sessions, for any number of them, of         *)
(* overlapping turns and of windows, through restarts, drops and deletions:    *)
(* the table keeps its limits, transcript and logbook count what the table     *)
(* counts, the hub knows the windows that are there, and, while turns cannot   *)
(* overlap, every window shows what the table holds.  Its downloads, for any   *)
(* number of them: what the models table says of a file is so.                 *)
EXTENDS MCGateway, FiniteSetTheorems, FunctionTheorems, WellFoundedInduction, TLAPS

Rows == [at : {"unborn", "here", "gone"}, test : BOOLEAN, state : States, save : BOOLEAN,
         count : 0..MaxTurns, ending : Endings, ended : BOOLEAN]
Waits == [sess : Sess, count : 0..(MaxTurns - 1)]
Entries == [open : BOOLEAN, members : SUBSET Clients, seq : Nat]
Sockets == [sess : Sess, up : BOOLEAN, last : Nat, view : States]

TableTypes ==
  /\ delay \in BOOLEAN /\ row \in [Sess -> Rows] /\ events \in [Sess -> Seq(EventTypes)]
  /\ call \in [Calls -> {NoCall} \cup Waits]
HubTypes == hub \in [Sess -> Entries] /\ sock \in [Clients -> {NoSocket} \cup Sockets]

\* A session that may still be played has turns left; TurnLimit says so only of
\* the one that listens, and Start leads there.
Early ==
  \A s \in Sess : Here(s) /\ row[s].state \in {"NotStarted", "PlayerTurnListening"} =>
                    row[s].count < MaxTurns
\* What is not saved has no event.
Kept == \A s \in Sess : ~row[s].save => events[s] = <<>>

\* A window is connected to a session that was created; an entry with members is open.
Known == \A c \in Clients : sock[c] # NoSocket => row[sock[c].sess].at # "unborn"
Opened == \A s \in Sess : hub[s].members # {} => hub[s].open

\* While turns cannot overlap none is waiting, and the event that tells a window
\* of the end is stored of an ended session only.
Quick == ~delay => \A r \in Calls : call[r] = NoCall
Ending(s) == \E i \in DOMAIN events[s] : events[s][i] = "session_ended"
Told == ~delay => \A s \in Sess : Here(s) /\ Ending(s) => row[s].state = "Ended"

\* The sessions that were ever created are finitely many.
Few == IsFiniteSet({s \in Sess : row[s].at # "unborn"})

TableInv == TableTypes /\ EventsOwned /\ Early /\ Kept
HubInv == HubTypes /\ HubMatchesSockets /\ Opened /\ Known
ViewInv == Quick /\ Told /\ ClientsInSync
LogInv == TranscriptMatchesCount /\ Few
Inv == TableInv /\ HubInv /\ ViewInv /\ LogInv

-----------------------------------------------------------------------------
(* The table *)

\* The fake runtime's reply ends a session at the turn limit and nowhere else.
LEMMA EndsAtLimit ==
  ASSUME NEW n \in Nat
  PROVE  EndingOf(FakeReply, n) = IF n >= MaxTurns THEN "timeout" ELSE "none"
BY MaxTurnsAssumption DEF EndingOf, FakeReply

\* What a handler adds to the events is either there or not saved.
LEMMA SavedTypes ==
  ASSUME TableTypes, NEW s \in Sess, NEW types \in Seq(EventTypes)
  PROVE  Saved(s, types) \in Seq(EventTypes) /\ (~row[s].save => Saved(s, types) = events[s])
BY DEF TableTypes, Saved

\* The events the handlers add.
LEMMA AddedTypes ==
  /\ <<"npc_opening">> \in Seq(EventTypes) /\ <<"session_ended">> \in Seq(EventTypes)
  /\ <<"debrief_generated">> \in Seq(EventTypes)
  /\ <<"player_turn", "npc_turn">> \in Seq(EventTypes)
BY DEF EventTypes

\* The table after one session's row and events were written.
LEMMA RowWritten ==
  ASSUME TableInv, NEW s \in Sess, NEW r \in Rows, NEW es \in Seq(EventTypes),
         row' = [row EXCEPT ![s] = r], events' = [events EXCEPT ![s] = es],
         delay' = delay, call' \in [Calls -> {NoCall} \cup Waits],
         r.at # "here" => es = <<>>,
         r.at = "here" /\ r.state \in {"NotStarted", "PlayerTurnListening"} => r.count < MaxTurns,
         ~r.save => es = <<>>
  PROVE  TableInv'
<1>1. TableTypes'
  BY DEF TableInv, TableTypes
<1>2. \A t \in Sess : row'[t] = (IF t = s THEN r ELSE row[t])
                   /\ events'[t] = (IF t = s THEN es ELSE events[t])
  BY DEF TableInv, TableTypes
<1>3. EventsOwned' /\ Early' /\ Kept'
  BY <1>2 DEF TableInv, EventsOwned, Early, Kept, Here
<1>4. QED BY <1>1, <1>3 DEF TableInv

\* A turn that is persisted with a count read while there were turns left.
LEMMA PersistKeepsTable ==
  ASSUME TableInv, NEW s \in Sess, NEW read \in 0..(MaxTurns - 1), PersistTurn(s, read),
         delay' = delay, call' \in [Calls -> {NoCall} \cup Waits]
  PROVE  TableInv'
<1> DEFINE ending == EndingOf(FakeReply, read + 1)
<1> DEFINE state == IF ending = "none" THEN "PlayerTurnListening" ELSE "Ended"
<1> DEFINE r == [row[s] EXCEPT !.count = read + 1, !.state = state, !.ending = ending]
<1> DEFINE es == Saved(s, <<"player_turn", "npc_turn">>)
<1>1. /\ ending = (IF read + 1 >= MaxTurns THEN "timeout" ELSE "none")
      /\ read + 1 \in 0..MaxTurns /\ row[s] \in Rows
  BY EndsAtLimit, MaxTurnsAssumption DEF TableInv, TableTypes
<1>2. es \in Seq(EventTypes) /\ (~row[s].save => es = events[s])
  BY SavedTypes, AddedTypes DEF TableInv
<1>3. CASE Insertable(s) /\ Here(s)
  <2>1. row' = [row EXCEPT ![s] = r] /\ events' = [events EXCEPT ![s] = es]
    BY <1>3 DEF PersistTurn, TableInv, TableTypes
  <2>2. /\ r \in Rows /\ r.at = "here" /\ r.save = row[s].save
        /\ r.state \in {"NotStarted", "PlayerTurnListening"} => r.count < MaxTurns
    <3>1. /\ ending \in Endings /\ state \in States \ {"NotStarted"}
          /\ state = "PlayerTurnListening" => read + 1 < MaxTurns
      BY <1>1, MaxTurnsAssumption DEF States, Endings
    <3> HIDE DEF ending, state
    <3>2. QED BY <1>1, <1>3, <3>1 DEF Rows, Here
  <2>3. ~r.save => es = <<>>
    BY <1>2, <2>2 DEF TableInv, Kept
  <2>4. QED BY <1>2, <2>1, <2>2, <2>3, RowWritten
<1>4. CASE Insertable(s) /\ ~Here(s)
  <2>1. row' = row /\ events' = [events EXCEPT ![s] = es]
    BY <1>4 DEF PersistTurn
  <2>2. ~row[s].save /\ events[s] = <<>>
    BY <1>4 DEF Insertable, TableInv, EventsOwned
  <2>3. events' = events
    BY <1>2, <2>1, <2>2 DEF TableInv, TableTypes
  <2>4. QED BY <2>1, <2>3 DEF TableInv, TableTypes, EventsOwned, Early, Kept, Here
<1>5. CASE ~Insertable(s)
  BY <1>5 DEF PersistTurn, TableInv, TableTypes, EventsOwned, Early, Kept, Here
<1>6. QED BY <1>3, <1>4, <1>5

\* The defaults of the columns are a row.
LEMMA UnbornRow == Unborn \in Rows /\ Unborn.count = 0
<1>1. 0 \in 0..MaxTurns
  BY MaxTurnsAssumption
<1>2. QED BY <1>1 DEF Unborn, Rows, States, Endings

\* Every step keeps the table's part: rows, events and waiting calls.
LEMMA TableStep ==
  ASSUME TableInv, [Next]_vars
  PROVE  TableInv'
<1> USE MaxTurnsAssumption
<1>1. ASSUME NEW s \in Sess, Create(s) PROVE TableInv'
  <2>1. PICK setup \in Setups :
          row' = [row EXCEPT ![s] = [Unborn EXCEPT !.at = "here", !.save = setup.save]]
    BY <1>1 DEF Create
  <2> DEFINE r == [Unborn EXCEPT !.at = "here", !.save = setup.save]
  <2>2. r \in Rows /\ r.count = 0
    <3>1. setup.save \in BOOLEAN
      BY NamesAssumption
    <3>2. QED BY <3>1, UnbornRow DEF Rows
  <2>3. events[s] = <<>> /\ events' = [events EXCEPT ![s] = <<>>] /\ <<>> \in Seq(EventTypes)
    BY <1>1 DEF Create, TableInv, TableTypes, EventsOwned, Here
  <2>4. delay' = delay /\ call' \in [Calls -> {NoCall} \cup Waits]
    BY <1>1 DEF Create, TableInv, TableTypes
  <2>5. r.count < MaxTurns
    BY <2>2
  <2> HIDE DEF r
  <2>6. QED BY <2>1, <2>2, <2>3, <2>4, <2>5, RowWritten DEF r
<1>2. ASSUME NEW s \in Sess, TestSession(s) PROVE TableInv'
  <2> DEFINE r == [Unborn EXCEPT !.at = "here", !.test = TRUE, !.save = FALSE,
                                 !.state = "PlayerTurnListening"]
  <2>1. r \in Rows /\ r.at = "here" /\ ~r.save /\ r.count < MaxTurns
    <3>1. r.at = "here" /\ r.save = FALSE /\ r.count = 0
      BY UnbornRow DEF Rows
    <3>2. "PlayerTurnListening" \in States
      BY DEF States
    <3>3. r \in Rows
      BY <3>2, UnbornRow DEF Rows
    <3> HIDE DEF r
    <3>4. QED BY <3>1, <3>3
  <2>2. events[s] = <<>> /\ events' = [events EXCEPT ![s] = <<>>] /\ <<>> \in Seq(EventTypes)
    BY <1>2 DEF TestSession, TableInv, TableTypes, EventsOwned, Here
  <2>3. delay' = delay /\ call' \in [Calls -> {NoCall} \cup Waits] /\ row' = [row EXCEPT ![s] = r]
    BY <1>2 DEF TestSession, TableInv, TableTypes
  <2> HIDE DEF r
  <2>4. QED BY <2>1, <2>2, <2>3, RowWritten
<1>3. ASSUME NEW s \in Sess, Start(s) PROVE TableInv'
  <2> DEFINE r == [row[s] EXCEPT !.state = "PlayerTurnListening"]
  <2> DEFINE es == Saved(s, <<"npc_opening">>)
  <2>1. /\ row' = [row EXCEPT ![s] = r] /\ events' = [events EXCEPT ![s] = es]
        /\ delay' = delay /\ call' \in [Calls -> {NoCall} \cup Waits]
    BY <1>3 DEF Start, TableInv, TableTypes
  <2>2. /\ row[s] \in Rows /\ row[s].at = "here" /\ row[s].state = "NotStarted"
        /\ row[s].count < MaxTurns
    BY <1>3 DEF Start, CanTransition, TableInv, TableTypes, Early, Here
  <2>3. r \in Rows /\ r.at = "here" /\ r.count < MaxTurns /\ r.save = row[s].save
    BY <2>2 DEF Rows, States
  <2>4. es \in Seq(EventTypes) /\ (~row[s].save => es = <<>>)
    BY SavedTypes, AddedTypes DEF TableInv, Kept
  <2> HIDE DEF r, es
  <2>5. QED BY <2>1, <2>3, <2>4, RowWritten
<1>4. ASSUME NEW s \in Sess, Turn(s) PROVE TableInv'
  <2>1. row[s].count \in 0..(MaxTurns - 1) /\ PersistTurn(s, row[s].count)
    BY <1>4 DEF Turn, CanTurn, CanTransition, TableInv, TableTypes, Rows, States, Early, Here
  <2>2. delay' = delay /\ call' \in [Calls -> {NoCall} \cup Waits]
    BY <1>4 DEF Turn, TableInv, TableTypes
  <2>3. QED BY <2>1, <2>2, PersistKeepsTable
<1>5. ASSUME NEW s \in Sess, End(s) PROVE TableInv'
  <2> DEFINE r == [row[s] EXCEPT !.state = "Ended", !.ended = TRUE,
                                 !.ending = IF @ = "none" THEN "player_exit" ELSE @]
  <2> DEFINE es == Saved(s, <<"session_ended">>)
  <2>1. /\ row' = [row EXCEPT ![s] = r] /\ events' = [events EXCEPT ![s] = es]
        /\ delay' = delay /\ call' \in [Calls -> {NoCall} \cup Waits]
    BY <1>5 DEF End, TableInv, TableTypes
  <2>2. row[s] \in Rows /\ row[s].at = "here"
    BY <1>5 DEF End, TableInv, TableTypes, Here
  <2>3. r \in Rows /\ r.at = "here" /\ r.state = "Ended" /\ r.save = row[s].save
    BY <2>2 DEF Rows, States, Endings
  <2>4. es \in Seq(EventTypes) /\ (~row[s].save => es = <<>>)
    BY SavedTypes, AddedTypes DEF TableInv, Kept
  <2> HIDE DEF r, es
  <2>5. QED BY <2>1, <2>3, <2>4, RowWritten
<1>6. ASSUME NEW s \in Sess, Debrief(s) PROVE TableInv'
  <2> DEFINE r == [row[s] EXCEPT !.state = "Ended", !.ended = TRUE]
  <2> DEFINE es == Saved(s, <<"debrief_generated">>)
  <2>1. /\ row' = [row EXCEPT ![s] = r] /\ events' = [events EXCEPT ![s] = es]
        /\ delay' = delay /\ call' \in [Calls -> {NoCall} \cup Waits]
    BY <1>6 DEF Debrief, TableInv, TableTypes
  <2>2. row[s] \in Rows /\ row[s].at = "here"
    BY <1>6 DEF Debrief, TableInv, TableTypes, Here
  <2>3. r \in Rows /\ r.at = "here" /\ r.state = "Ended" /\ r.save = row[s].save
    BY <2>2 DEF Rows, States
  <2>4. es \in Seq(EventTypes) /\ (~row[s].save => es = <<>>)
    BY SavedTypes, AddedTypes DEF TableInv, Kept
  <2> HIDE DEF r, es
  <2>5. QED BY <2>1, <2>3, <2>4, RowWritten
<1>7. ASSUME NEW s \in Sess, Delete(s) PROVE TableInv'
  <2> DEFINE r == [row[s] EXCEPT !.at = "gone"]
  <2>1. /\ row' = [row EXCEPT ![s] = r] /\ events' = [events EXCEPT ![s] = <<>>]
        /\ delay' = delay /\ call' \in [Calls -> {NoCall} \cup Waits]
    BY <1>7 DEF Delete, TableInv, TableTypes
  <2>2. r \in Rows /\ r.at = "gone" /\ <<>> \in Seq(EventTypes)
    <3>1. row[s] \in Rows
      BY DEF TableInv, TableTypes
    <3>2. QED BY <3>1 DEF Rows
  <2> HIDE DEF r
  <2>3. QED BY <2>1, <2>2, RowWritten
<1>8. ASSUME NEW q \in Calls, NEW s \in Sess, TurnBegin(q, s) PROVE TableInv'
  <2>1. [sess |-> s, count |-> row[s].count] \in Waits
    BY <1>8 DEF TurnBegin, CanTurn, CanTransition, TableInv, TableTypes, Rows, States,
                Early, Here, Waits
  <2>2. TableTypes'
    BY <1>8, <2>1 DEF TurnBegin, TableInv, TableTypes
  <2>3. QED BY <1>8, <2>2 DEF TurnBegin, TableInv, EventsOwned, Early, Kept, Here
<1>9. ASSUME NEW q \in Calls, TurnFinish(q) PROVE TableInv'
  <2>1. call[q] \in Waits
    BY <1>9 DEF TurnFinish, TableInv, TableTypes
  <2>2. call[q].sess \in Sess /\ call[q].count \in 0..(MaxTurns - 1)
    BY <2>1 DEF Waits
  <2>3. PersistTurn(call[q].sess, call[q].count) /\ delay' = delay
        /\ call' \in [Calls -> {NoCall} \cup Waits]
    BY <1>9 DEF TurnFinish, TableInv, TableTypes
  <2>4. QED BY <2>2, <2>3, PersistKeepsTable
<1>10. ASSUME NEW q \in Calls, TurnTimeout(q) PROVE TableInv'
  BY <1>10 DEF TurnTimeout, TableInv, TableTypes, EventsOwned, Early, Kept, Here
<1>11. CASE ClearPrivacy
  <2>1. \A s \in Sess : /\ events'[s] = <<>> /\ row'[s] \in Rows /\ row'[s].at # "here"
    BY <1>11 DEF ClearPrivacy, TableInv, TableTypes, Here, Rows
  <2>2. TableTypes'
    BY <1>11, <2>1 DEF ClearPrivacy, TableInv, TableTypes
  <2>3. QED BY <2>1, <2>2 DEF TableInv, EventsOwned, Early, Kept, Here
<1>12. CASE Restart
  BY <1>12 DEF Restart, TableInv, TableTypes, EventsOwned, Early, Kept, Here
<1>13. CASE UNCHANGED <<delay, row, events, call>>
  BY <1>13 DEF TableInv, TableTypes, EventsOwned, Early, Kept, Here
<1>14. QED
  BY <1>1, <1>2, <1>3, <1>4, <1>5, <1>6, <1>7, <1>8, <1>9, <1>10, <1>11, <1>12, <1>13
     DEF Next, Request, Connect, Drop, OnClose, vars

-----------------------------------------------------------------------------
(* The hub *)

\* A window without a socket is connected to no session.
LEMMA SocketFacts ==
  ASSUME HubTypes, NEW c \in Clients
  PROVE  /\ sock[c] = NoSocket <=> sock[c].sess \notin Sess
         /\ sock[c] # NoSocket => sock[c] \in Sockets
         /\ sock[c].up => sock[c] # NoSocket
         /\ NoSocket.sess = "none" /\ "none" \notin Sess
BY NamesAssumption DEF HubTypes, NoSocket, Sockets

\* What a message to the windows of a session, or the closing of them, leaves of
\* each: nothing, or the socket it was, with the state it was sent.
Carried(s, state) ==
  /\ HubTypes' /\ HubMatchesSockets' /\ Opened'
  /\ \A c \in Clients :
       \/ sock'[c] = NoSocket
       \/ /\ sock[c] # NoSocket /\ sock'[c].sess = sock[c].sess /\ sock'[c].up = sock[c].up
          /\ sock'[c].view = IF sock[c].up /\ sock[c].sess = s THEN state ELSE sock[c].view

LEMMA BroadcastCarries ==
  ASSUME HubTypes, HubMatchesSockets, Opened, NEW s \in Sess, NEW n \in Nat,
         NEW state \in States, Broadcast(s, n, state)
  PROVE  Carried(s, state)
<1> DEFINE seq == hub[s].seq + n
<1>0. hub[s] \in Entries /\ seq \in Nat /\ hub[s].seq <= seq
  BY DEF HubTypes, Entries
<1>1. CASE hub[s].open
  <2>1. /\ hub' = [hub EXCEPT ![s].seq = seq]
        /\ sock' = [c \in Clients |-> IF c \in hub[s].members /\ sock[c].up
                     THEN [sock[c] EXCEPT !.last = seq, !.view = state] ELSE sock[c]]
    BY <1>1 DEF Broadcast
  <2> HIDE DEF seq
  <2>2. ASSUME NEW c \in Clients
        PROVE  /\ sock'[c] \in {NoSocket} \cup Sockets
               /\ sock'[c].sess = sock[c].sess /\ sock'[c].up = sock[c].up
               /\ sock'[c] # NoSocket => sock[c] # NoSocket
               /\ sock'[c].view = (IF sock[c].up /\ sock[c].sess = s THEN state ELSE sock[c].view)
               /\ sock'[c].last = (IF sock[c].up /\ sock[c].sess = s THEN seq ELSE sock[c].last)
    <3>1. c \in hub[s].members <=> sock[c].sess = s
      BY DEF HubMatchesSockets
    <3>2. CASE sock[c].up /\ sock[c].sess = s
      <4>1. sock[c] \in Sockets
        BY <3>2, SocketFacts
      <4>2. sock'[c] = [sock[c] EXCEPT !.last = seq, !.view = state]
        BY <2>1, <3>1, <3>2
      <4>3. QED BY <1>0, <3>2, <4>1, <4>2, SocketFacts DEF Sockets
    <3>3. CASE ~(sock[c].up /\ sock[c].sess = s)
      BY <2>1, <3>1, <3>3 DEF HubTypes
    <3>4. QED BY <3>2, <3>3
  <2>3. \A t \in Sess : /\ hub'[t] \in Entries /\ hub'[t].members = hub[t].members
                        /\ hub'[t].open = hub[t].open
                        /\ hub'[t].seq = IF t = s THEN seq ELSE hub[t].seq
    BY <1>0, <2>1 DEF HubTypes, Entries
  <2>4. HubTypes'
    BY <2>1, <2>2, <2>3 DEF HubTypes
  <2>5. HubMatchesSockets'
    <3>1. ASSUME NEW c \in Clients, sock'[c] # NoSocket
          PROVE  sock'[c].last <= hub'[sock'[c].sess].seq
      <4>1. sock[c] \in Sockets /\ sock[c].last <= hub[sock[c].sess].seq
        BY <2>2, <3>1, SocketFacts DEF HubMatchesSockets
      <4>2. sock[c].sess \in Sess /\ sock[c].last \in Nat /\ hub[sock[c].sess].seq \in Nat
        BY <4>1 DEF Sockets, HubTypes, Entries
      <4>3. sock'[c].sess = sock[c].sess
        BY <2>2
      <4>4. CASE sock[c].sess = s
        BY <1>0, <2>2, <2>3, <4>1, <4>2, <4>3, <4>4
      <4>5. CASE sock[c].sess # s
        BY <2>2, <2>3, <4>1, <4>2, <4>3, <4>5
      <4>6. QED BY <4>4, <4>5
    <3>2. QED BY <2>2, <2>3, <3>1 DEF HubMatchesSockets
  <2>6. Opened'
    BY <2>3 DEF Opened
  <2>7. QED BY <2>2, <2>4, <2>5, <2>6 DEF Carried
<1>2. CASE ~hub[s].open
  <2>1. UNCHANGED <<hub, sock>>
    BY <1>2 DEF Broadcast
  <2>2. \A c \in Clients : sock[c].sess # s
    BY <1>2 DEF HubMatchesSockets, Opened
  <2>3. HubTypes' /\ HubMatchesSockets' /\ Opened'
    BY <2>1 DEF HubTypes, HubMatchesSockets, Opened
  <2>4. QED BY <2>1, <2>2, <2>3 DEF Carried
<1>3. QED BY <1>1, <1>2

LEMMA ClosingCarries ==
  ASSUME HubTypes, HubMatchesSockets, Opened, NEW s \in Sess, NEW state, BroadcastAndClose(s)
  PROVE  Carried(s, state) /\ \A c \in Clients : sock'[c].sess # s
<1>1. \A t \in Sess : hub'[t] = IF t = s THEN Closed ELSE hub[t]
  BY DEF BroadcastAndClose, HubTypes
<1>2. \A c \in Clients : sock'[c] = IF sock[c].sess = s THEN NoSocket ELSE sock[c]
  BY DEF BroadcastAndClose, HubMatchesSockets
<1>3. Closed \in Entries
  BY DEF Closed, Entries
<1>4. HubTypes'
  BY <1>1, <1>2, <1>3 DEF HubTypes, BroadcastAndClose
<1>5. \A c \in Clients : sock'[c].sess # s
  BY <1>2, SocketFacts
<1>6. HubMatchesSockets'
  <2>1. ASSUME NEW t \in Sess, NEW c \in Clients
        PROVE  c \in hub'[t].members <=> sock'[c].sess = t
    BY <1>1, <1>2, <1>5, SocketFacts DEF HubMatchesSockets, Closed
  <2>2. ASSUME NEW c \in Clients, sock'[c] # NoSocket
        PROVE  sock'[c].last <= hub'[sock'[c].sess].seq
    BY <1>1, <1>2, <2>2, SocketFacts DEF HubMatchesSockets
  <2>3. QED BY <2>1, <2>2 DEF HubMatchesSockets
<1>7. Opened'
  BY <1>1 DEF Opened, Closed
<1>8. QED BY <1>2, <1>4, <1>5, <1>6, <1>7 DEF Carried


\* A turn that is persisted tells the windows the state it leaves in the row.
LEMMA PersistCarries ==
  ASSUME TableTypes, HubTypes, HubMatchesSockets, Opened, NEW s \in Sess,
         NEW read \in 0..(MaxTurns - 1), PersistTurn(s, read)
  PROVE  \/ UNCHANGED <<row, events, hub, sock>>
         \/ /\ \A t \in Sess \ {s} : row'[t] = row[t]
            /\ row'[s].at = row[s].at
            /\ \E v \in States : Carried(s, v) /\ (Here(s) => v = row'[s].state)
<1> DEFINE ending == EndingOf(FakeReply, read + 1)
<1> DEFINE state == IF ending = "none" THEN "PlayerTurnListening" ELSE "Ended"
<1>1. CASE Insertable(s)
  <2>1. state \in States
    BY DEF States
  <2>2. /\ row' = IF Here(s) THEN [row EXCEPT ![s].count = read + 1, ![s].state = state,
                                             ![s].ending = ending]
                  ELSE row
        /\ IF state = "Ended" THEN BroadcastAndClose(s) ELSE Broadcast(s, 3, state)
    BY <1>1 DEF PersistTurn
  <2> HIDE DEF ending, state
  <2>3. /\ \A t \in Sess \ {s} : row'[t] = row[t]
        /\ row'[s].at = row[s].at
        /\ Here(s) => row'[s].state = state
    BY <2>2 DEF TableTypes, Rows
  <2>4. Carried(s, state)
    BY <2>1, <2>2, BroadcastCarries, ClosingCarries
  <2>5. QED BY <2>1, <2>3, <2>4
<1>2. CASE ~Insertable(s)
  BY <1>2 DEF PersistTurn
<1>3. QED BY <1>1, <1>2

\* What a request does to its session and to the windows of it.
Spoken(s) ==
  /\ \A t \in Sess \ {s} : row'[t] = row[t]
  /\ row[s].at # "unborn" => row'[s].at # "unborn"
  /\ \/ \E v \in States : Carried(s, v) /\ (Here(s)' => v = row'[s].state)
     \/ UNCHANGED <<hub, sock>> /\ row'[s] = row[s]
     \/ UNCHANGED <<hub, sock>> /\ row[s].at = "unborn"

LEMMA RequestSpeaks ==
  ASSUME TableInv, HubTypes, HubMatchesSockets, Opened, NEW s \in Sess,
         \/ Request(s)
         \/ \E q \in Calls : TurnFinish(q) /\ call[q].sess = s
  PROVE  Spoken(s)
<1>1. CASE Create(s) \/ TestSession(s)
  BY <1>1 DEF Create, TestSession, Spoken, TableInv, TableTypes
<1>2. CASE Start(s)
  <2>1. Carried(s, "PlayerTurnListening") /\ "PlayerTurnListening" \in States
    BY <1>2, BroadcastCarries DEF Start, States
  <2>2. /\ \A t \in Sess \ {s} : row'[t] = row[t]
        /\ row'[s].at = row[s].at /\ row'[s].state = "PlayerTurnListening"
    BY <1>2 DEF Start, TableInv, TableTypes, Rows
  <2>3. QED BY <2>1, <2>2 DEF Spoken
<1>3. ASSUME NEW read \in 0..(MaxTurns - 1), PersistTurn(s, read) PROVE Spoken(s)
  <2>1. \/ UNCHANGED <<row, events, hub, sock>>
        \/ /\ \A t \in Sess \ {s} : row'[t] = row[t]
           /\ row'[s].at = row[s].at
           /\ \E v \in States : Carried(s, v) /\ (Here(s) => v = row'[s].state)
    BY <1>3, PersistCarries DEF TableInv
  <2>2. QED BY <2>1 DEF Spoken, Here
<1>4. CASE Turn(s)
  <2>1. row[s].count \in 0..(MaxTurns - 1)
    BY <1>4, MaxTurnsAssumption DEF Turn, CanTurn, CanTransition, TableInv, TableTypes, Rows,
            States, Early, Here
  <2>2. QED BY <1>3, <1>4, <2>1 DEF Turn
<1>5. CASE End(s) \/ Debrief(s)
  <2>1. BroadcastAndClose(s) /\ "Ended" \in States
    BY <1>5 DEF End, Debrief, States
  <2>2. /\ \A t \in Sess \ {s} : row'[t] = row[t]
        /\ row'[s].at = row[s].at /\ row'[s].state = "Ended"
    BY <1>5 DEF End, Debrief, TableInv, TableTypes, Rows
  <2>3. QED BY <2>1, <2>2, ClosingCarries DEF Spoken
<1>6. CASE Delete(s)
  <2>1. BroadcastAndClose(s) /\ "Ended" \in States
    BY <1>6 DEF Delete, States
  <2>2. /\ \A t \in Sess \ {s} : row'[t] = row[t]
        /\ row'[s].at = "gone"
    BY <1>6 DEF Delete, TableInv, TableTypes, Rows
  <2>3. QED BY <2>1, <2>2, ClosingCarries DEF Spoken, Here
<1>7. ASSUME NEW q \in Calls, TurnFinish(q), call[q].sess = s PROVE Spoken(s)
  <2>1. call[q] \in Waits
    BY <1>7 DEF TurnFinish, TableInv, TableTypes
  <2>2. call[q].count \in 0..(MaxTurns - 1) /\ PersistTurn(s, call[q].count)
    BY <1>7, <2>1 DEF TurnFinish, Waits
  <2>3. QED BY <1>3, <2>2
<1>8. QED BY <1>1, <1>2, <1>4, <1>5, <1>6, <1>7 DEF Request

\* The hub after such a step: of a window that was told nothing, nothing changed.
LEMMA SpokenKeepsHub ==
  ASSUME HubInv, NEW s \in Sess, Spoken(s)
  PROVE  HubInv'
<1>1. \A t \in Sess : row[t].at # "unborn" => row'[t].at # "unborn"
  BY DEF Spoken
<1>2. CASE UNCHANGED <<hub, sock>>
  <2>1. HubTypes' /\ HubMatchesSockets' /\ Opened'
    BY <1>2 DEF HubInv, HubTypes, HubMatchesSockets, Opened
  <2>2. Known'
    BY <1>1, <1>2, SocketFacts DEF HubInv, Known
  <2>3. QED BY <2>1, <2>2 DEF HubInv
<1>3. ASSUME NEW v, Carried(s, v) PROVE HubInv'
  <2>1. Known'
    BY <1>1, <1>3, SocketFacts DEF HubInv, Known, Carried
  <2>2. QED BY <1>3, <2>1 DEF HubInv, Carried
<1>4. QED BY <1>2, <1>3 DEF Spoken

LEMMA SpokenKeepsSync ==
  ASSUME HubInv, ClientsInSync, NEW s \in Sess, Spoken(s), delay' = delay
  PROVE  ClientsInSync'
<1> SUFFICES ASSUME NEW c \in Clients, sock'[c].up, ~delay, row'[sock'[c].sess].at = "here"
             PROVE  sock'[c].view = row'[sock'[c].sess].state
  BY DEF ClientsInSync, Here
<1>1. ASSUME sock[c].up, row[sock[c].sess].at = "here"
      PROVE  sock[c].view = row[sock[c].sess].state
  BY <1>1 DEF ClientsInSync, Here
<1>2. ASSUME UNCHANGED <<hub, sock>>, row'[s] = row[s] \/ row[s].at = "unborn"
      PROVE  sock'[c].view = row'[sock'[c].sess].state
  <2>1. sock[c].up /\ sock[c].sess \in Sess /\ row[sock[c].sess].at # "unborn"
    BY <1>2, SocketFacts DEF HubInv, Known
  <2>2. row'[sock[c].sess] = row[sock[c].sess]
    BY <1>2, <2>1 DEF Spoken
  <2>3. QED BY <1>1, <1>2, <2>1, <2>2
<1>3. ASSUME NEW v, Carried(s, v), Here(s)' => v = row'[s].state
      PROVE  sock'[c].view = row'[sock'[c].sess].state
  <2>1. sock'[c] # NoSocket
    BY DEF NoSocket
  <2>2. /\ sock[c] # NoSocket /\ sock'[c].sess = sock[c].sess /\ sock[c].up
        /\ sock'[c].view = IF sock[c].sess = s THEN v ELSE sock[c].view
    BY <1>3, <2>1 DEF Carried
  <2>3. CASE sock[c].sess = s
    BY <1>3, <2>2, <2>3 DEF Here
  <2>4. CASE sock[c].sess # s
    <3>1. row'[sock[c].sess] = row[sock[c].sess]
      BY <2>2, <2>4, SocketFacts DEF Spoken, HubInv
    <3>2. QED BY <1>1, <2>2, <2>4, <3>1
  <2>5. QED BY <2>3, <2>4
<1>4. QED BY <1>2, <1>3 DEF Spoken

\* A window that connects is counted in, and is shown what the row says: an event
\* of the end is replayed of an ended session only.
LEMMA ReplayFinite ==
  ASSUME TableTypes, NEW s \in Sess, NEW R \in SUBSET Replayed(s)
  PROVE  Cardinality(R) \in Nat
<1>1. R \subseteq 1..Len(events[s]) /\ Len(events[s]) \in Nat
  BY DEF Replayed, TableTypes
<1>2. IsFiniteSet(1..Len(events[s]))
  BY <1>1, FS_Interval
<1>3. IsFiniteSet(R)
  BY <1>1, <1>2, FS_Subset
<1>4. QED BY <1>3, FS_CardinalityType

LEMMA ConnectKeeps ==
  ASSUME TableTypes, HubInv, Told, ClientsInSync, NEW c \in Clients, NEW s \in Sess,
         NEW replay \in BOOLEAN, Connect(c, s, replay)
  PROVE  HubInv' /\ ClientsInSync' /\ \A t \in Sess : hub'[t].seq >= hub[t].seq
<1> DEFINE sent == IF replay THEN Replayed(s) ELSE {}
<1> DEFINE seq == hub[s].seq + 1 + Cardinality(sent)
<1> DEFINE ended == \E i \in sent : events[s][i] = "session_ended"
<1> DEFINE view == IF ended THEN "Ended" ELSE row[s].state
<1> DEFINE new == [sess |-> s, up |-> TRUE, last |-> seq, view |-> view]
<1>1. /\ sock[c] = NoSocket /\ Here(s)
      /\ hub' = [hub EXCEPT ![s] = [open |-> TRUE, members |-> @.members \union {c}, seq |-> seq]]
      /\ sock' = [sock EXCEPT ![c] = new]
      /\ UNCHANGED <<delay, row, events, call>>
  BY DEF Connect
<1>2. hub[s] \in Entries /\ seq \in Nat /\ hub[s].seq <= seq
  <2>1. Cardinality(sent) \in Nat
    BY ReplayFinite
  <2>2. QED BY <2>1 DEF HubInv, HubTypes, Entries
<1>3. ended => Ending(s)
  BY DEF Ending, Replayed
<1>4. view \in States /\ (~delay => view = row[s].state)
  BY <1>1, <1>3 DEF Told, TableTypes, Rows, States
<1> HIDE DEF seq, view
<1>5. new \in Sockets
  BY <1>2, <1>4 DEF Sockets
<1>6. /\ \A t \in Sess : hub'[t] = IF t = s
           THEN [open |-> TRUE, members |-> hub[s].members \union {c}, seq |-> seq] ELSE hub[t]
      /\ \A d \in Clients : sock'[d] = IF d = c THEN new ELSE sock[d]
  BY <1>1 DEF HubInv, HubTypes
<1> HIDE DEF new
<1>7. new.sess = s /\ new.last = seq /\ new.view = view /\ new # NoSocket
  BY SocketFacts DEF new, HubInv
<1>8. HubTypes'
  BY <1>1, <1>2, <1>5, <1>6 DEF HubInv, HubTypes, Entries
<1>9. HubMatchesSockets'
  <2>1. ASSUME NEW t \in Sess, NEW d \in Clients
        PROVE  d \in hub'[t].members <=> sock'[d].sess = t
    BY <1>1, <1>6, <1>7, SocketFacts DEF HubInv, HubMatchesSockets
  <2>2. ASSUME NEW d \in Clients, sock'[d] # NoSocket
        PROVE  sock'[d].last <= hub'[sock'[d].sess].seq
    <3>1. CASE d = c
      BY <1>2, <1>6, <1>7, <3>1
    <3>2. CASE d # c /\ sock[d].sess = s
      <4>1. sock[d] \in Sockets /\ sock[d].last <= hub[s].seq
        BY <1>6, <2>2, <3>2, SocketFacts DEF HubInv, HubMatchesSockets
      <4>2. sock[d].last \in Nat /\ hub[s].seq \in Nat
        BY <1>2, <4>1 DEF Sockets, Entries
      <4>3. QED BY <1>2, <1>6, <3>2, <4>1, <4>2
    <3>3. CASE d # c /\ sock[d].sess # s
      BY <1>6, <2>2, <3>3, SocketFacts DEF HubInv, HubMatchesSockets
    <3>4. QED BY <3>1, <3>2, <3>3
  <2>3. QED BY <2>1, <2>2 DEF HubMatchesSockets
<1>10. Opened' /\ Known'
  BY <1>1, <1>6, <1>7, SocketFacts DEF HubInv, Opened, Known, Here
<1>11. ClientsInSync'
  BY <1>1, <1>4, <1>6, <1>7 DEF ClientsInSync, Here
<1>12. \A t \in Sess : hub'[t].seq >= hub[t].seq
  BY <1>2, <1>6 DEF HubInv, HubTypes, Entries
<1>13. QED BY <1>8, <1>9, <1>10, <1>11, <1>12 DEF HubInv

\* A peer that goes away shows nothing any more; its close event takes it out of the hub.
LEMMA LeavingKeeps ==
  ASSUME HubInv, ClientsInSync, NEW c \in Clients, Drop(c) \/ OnClose(c)
  PROVE  HubInv' /\ ClientsInSync' /\ \A t \in Sess : hub'[t].seq = hub[t].seq
<1>1. CASE Drop(c)
  <2>1. /\ sock[c] \in Sockets
        /\ \A d \in Clients : sock'[d] = IF d = c THEN [sock[c] EXCEPT !.up = FALSE] ELSE sock[d]
        /\ hub' = hub /\ row' = row /\ delay' = delay
    BY <1>1, SocketFacts DEF Drop, HubInv, HubTypes
  <2>2. /\ sock'[c] \in Sockets /\ sock'[c].sess = sock[c].sess /\ sock'[c].last = sock[c].last
        /\ ~sock'[c].up
    BY <2>1 DEF Sockets
  <2>3. HubTypes'
    BY <1>1, <2>1, <2>2 DEF Drop, HubInv, HubTypes
  <2>4. HubMatchesSockets' /\ Opened' /\ Known'
    <3>1. \A d \in Clients : /\ sock'[d].sess = sock[d].sess /\ sock'[d].last = sock[d].last
                             /\ sock'[d] # NoSocket => sock[d] # NoSocket
      <4>1. sock[c] # NoSocket
        BY <1>1, SocketFacts DEF Drop, HubInv
      <4>2. QED BY <2>1, <2>2, <4>1
    <3>2. HubMatchesSockets'
      BY <2>1, <3>1 DEF HubInv, HubMatchesSockets
    <3>3. Opened' /\ Known'
      BY <2>1, <3>1 DEF HubInv, Opened, Known
    <3>4. QED BY <3>2, <3>3
  <2>5. ClientsInSync'
    BY <2>1, <2>2 DEF ClientsInSync, Here
  <2>6. QED BY <2>1, <2>3, <2>4, <2>5 DEF HubInv
<1>2. CASE OnClose(c)
  <2> DEFINE s == sock[c].sess
  <2>1. /\ sock[c] # NoSocket /\ s \in Sess /\ hub[s] \in Entries
        /\ \A d \in Clients : sock'[d] = IF d = c THEN NoSocket ELSE sock[d]
        /\ \A t \in Sess : hub'[t] = IF t = s THEN RemovedFrom(hub[s], c) ELSE hub[t]
        /\ row' = row /\ delay' = delay
    BY <1>2, SocketFacts DEF OnClose, HubInv, HubTypes
  <2>2. /\ RemovedFrom(hub[s], c) \in Entries
        /\ RemovedFrom(hub[s], c).members = hub[s].members \ {c}
        /\ RemovedFrom(hub[s], c).seq = hub[s].seq /\ RemovedFrom(hub[s], c).open = hub[s].open
    BY <2>1 DEF RemovedFrom, Entries
  <2>3. HubTypes'
    BY <1>2, <2>1, <2>2 DEF OnClose, HubInv, HubTypes
  <2>4. HubMatchesSockets'
    <3>1. ASSUME NEW t \in Sess, NEW d \in Clients
          PROVE  d \in hub'[t].members <=> sock'[d].sess = t
      BY <2>1, <2>2, SocketFacts DEF HubInv, HubMatchesSockets
    <3>2. ASSUME NEW d \in Clients, sock'[d] # NoSocket
          PROVE  sock'[d].last <= hub'[sock'[d].sess].seq
      BY <2>1, <2>2, <3>2, SocketFacts DEF HubInv, HubMatchesSockets
    <3>3. QED BY <3>1, <3>2 DEF HubMatchesSockets
  <2>5. Opened' /\ Known'
    BY <2>1, <2>2 DEF HubInv, Opened, Known
  <2>6. ClientsInSync'
    BY <2>1, SocketFacts DEF ClientsInSync, Here, NoSocket
  <2>7. QED BY <2>1, <2>2, <2>3, <2>4, <2>5, <2>6 DEF HubInv
<1>3. QED BY <1>1, <1>2

\* Every step keeps the hub's part.
LEMMA HubStep ==
  ASSUME TableInv, HubInv, Told, ClientsInSync, [Next]_vars
  PROVE  HubInv'
<1>1. ASSUME NEW s \in Sess, Request(s) PROVE HubInv'
  BY <1>1, RequestSpeaks, SpokenKeepsHub DEF HubInv
<1>2. ASSUME NEW q \in Calls, TurnFinish(q) PROVE HubInv'
  <2>1. call[q].sess \in Sess
    BY <1>2 DEF TurnFinish, TableInv, TableTypes, Waits
  <2>2. QED BY <1>2, <2>1, RequestSpeaks, SpokenKeepsHub DEF HubInv
<1>3. ASSUME NEW q \in Calls, NEW s \in Sess, TurnBegin(q, s) \/ TurnTimeout(q) PROVE HubInv'
  BY <1>3 DEF TurnBegin, TurnTimeout, HubInv, HubTypes, HubMatchesSockets, Opened, Known
<1>4. ASSUME NEW c \in Clients, NEW s \in Sess, NEW replay \in BOOLEAN, Connect(c, s, replay)
      PROVE  HubInv'
  BY <1>4, ConnectKeeps DEF TableInv
<1>5. ASSUME NEW c \in Clients, Drop(c) \/ OnClose(c) PROVE HubInv'
  BY <1>5, LeavingKeeps
<1>6. CASE ClearPrivacy
  <2>1. UNCHANGED <<hub, sock>>
        /\ \A s \in Sess : row[s].at # "unborn" => row'[s].at # "unborn"
    BY <1>6 DEF ClearPrivacy, TableInv, TableTypes, Rows
  <2>2. QED BY <2>1, SocketFacts DEF HubInv, HubTypes, HubMatchesSockets, Opened, Known
<1>7. CASE Restart
  <2>1. /\ \A s \in Sess : hub'[s] = Closed
        /\ \A c \in Clients : sock'[c] = NoSocket
        /\ hub' \in [Sess -> Entries] /\ sock' \in [Clients -> {NoSocket}]
    BY <1>7 DEF Restart, Closed, Entries
  <2>2. QED BY <2>1, NamesAssumption
           DEF HubInv, HubTypes, HubMatchesSockets, Opened, Known, Closed, NoSocket
<1>8. CASE UNCHANGED vars
  BY <1>8 DEF vars, HubInv, HubTypes, HubMatchesSockets, Opened, Known
<1>9. CASE \E q \in Calls : TurnTimeout(q)
  BY <1>9 DEF TurnTimeout, HubInv, HubTypes, HubMatchesSockets, Opened, Known
<1>10. QED
  BY <1>1, <1>2, <1>3, <1>4, <1>5, <1>6, <1>7, <1>8, <1>9 DEF Next

\* What is appended to the events is one of the old or one of the new.
LEMMA EndingOnlyAdded ==
  ASSUME TableTypes, NEW s \in Sess, NEW types \in Seq(EventTypes),
         \A i \in DOMAIN types : types[i] # "session_ended",
         \E i \in DOMAIN Saved(s, types) : Saved(s, types)[i] = "session_ended"
  PROVE  Ending(s)
<1>1. CASE row[s].save
  <2>1. PICK i \in DOMAIN (events[s] \o types) : (events[s] \o types)[i] = "session_ended"
    BY <1>1 DEF Saved
  <2>2. events[s] \in Seq(EventTypes) /\ i \in 1..(Len(events[s]) + Len(types))
    BY <2>1 DEF TableTypes
  <2>3. CASE i <= Len(events[s])
    BY <2>1, <2>2, <2>3 DEF Ending
  <2>4. CASE i > Len(events[s])
    <3>1. i - Len(events[s]) \in DOMAIN types
          /\ (events[s] \o types)[i] = types[i - Len(events[s])]
      BY <2>2, <2>4
    <3>2. QED BY <2>1, <3>1
  <2>5. QED BY <2>2, <2>3, <2>4
<1>2. CASE ~row[s].save
  BY <1>2 DEF Saved, Ending
<1>3. QED BY <1>1, <1>2

\* Neither a start nor a turn adds the event of the end.
LEMMA NoneEnds ==
  /\ \A i \in DOMAIN <<"npc_opening">> : <<"npc_opening">>[i] # "session_ended"
  /\ \A i \in DOMAIN <<"player_turn", "npc_turn">> :
       <<"player_turn", "npc_turn">>[i] # "session_ended"
OBVIOUS

\* One session's row and events were written: the others keep what was told of them.
LEMMA ToldOfOne ==
  ASSUME Told, NEW s \in Sess, delay' = delay,
         \A t \in Sess \ {s} : row'[t] = row[t] /\ events'[t] = events[t],
         Here(s)' /\ Ending(s)' => row'[s].state = "Ended"
  PROVE  Told'
BY DEF Told, Ending, Here

LEMMA RequestTells ==
  ASSUME TableInv, Told, NEW s \in Sess, ~delay, Request(s)
  PROVE  Told'
<1>1. CASE Create(s) \/ TestSession(s)
  <2>1. events'[s] = <<>> /\ delay' = delay
        /\ \A t \in Sess \ {s} : row'[t] = row[t] /\ events'[t] = events[t]
    BY <1>1 DEF Create, TestSession, TableInv, TableTypes, EventsOwned, Here
  <2>2. ~Ending(s)'
    BY <2>1 DEF Ending
  <2>3. QED BY <2>1, <2>2, ToldOfOne
<1>2. CASE Start(s)
  <2>1. /\ events'[s] = Saved(s, <<"npc_opening">>) /\ delay' = delay
        /\ Here(s) /\ row[s].state = "NotStarted"
        /\ \A t \in Sess \ {s} : row'[t] = row[t] /\ events'[t] = events[t]
    BY <1>2 DEF Start, CanTransition, TableInv, TableTypes
  <2>2. Ending(s)' => Ending(s)
    BY <2>1, EndingOnlyAdded, AddedTypes, NoneEnds DEF Ending, TableInv
  <2>3. QED BY <2>1, <2>2, ToldOfOne DEF Told
<1>3. CASE Turn(s)
  <2>1. /\ PersistTurn(s, row[s].count) /\ delay' = delay
        /\ Here(s) /\ row[s].state = "PlayerTurnListening"
    BY <1>3 DEF Turn, CanTurn, CanTransition
  <2>2. /\ \A t \in Sess \ {s} : row'[t] = row[t] /\ events'[t] = events[t]
        /\ events'[s] = events[s] \/ events'[s] = Saved(s, <<"player_turn", "npc_turn">>)
    BY <2>1 DEF PersistTurn, TableInv, TableTypes
  <2>3. Ending(s)' => Ending(s)
    <3>1. CASE events'[s] = events[s]
      BY <3>1 DEF Ending
    <3>2. CASE events'[s] = Saved(s, <<"player_turn", "npc_turn">>)
      BY <3>2, EndingOnlyAdded, AddedTypes, NoneEnds DEF Ending, TableInv
    <3>3. QED BY <2>2, <3>1, <3>2
  <2>4. QED BY <2>1, <2>2, <2>3, ToldOfOne DEF Told
<1>4. CASE End(s) \/ Debrief(s)
  <2>1. row'[s].state = "Ended" /\ delay' = delay
        /\ \A t \in Sess \ {s} : row'[t] = row[t] /\ events'[t] = events[t]
    BY <1>4 DEF End, Debrief, TableInv, TableTypes, Rows
  <2>2. QED BY <2>1, ToldOfOne
<1>5. CASE Delete(s)
  <2>1. row'[s].at = "gone" /\ delay' = delay
        /\ \A t \in Sess \ {s} : row'[t] = row[t] /\ events'[t] = events[t]
    BY <1>5 DEF Delete, TableInv, TableTypes, Rows
  <2>2. QED BY <2>1, ToldOfOne DEF Here
<1>6. QED BY <1>1, <1>2, <1>3, <1>4, <1>5 DEF Request

\* Every step keeps what the windows are shown, while turns cannot overlap.
LEMMA ViewStep ==
  ASSUME TableInv, HubInv, ViewInv, [Next]_vars
  PROVE  ViewInv'
<1>1. delay' = delay
  BY DEF Next, Request, vars, Create, TestSession, Start, Turn, TurnBegin, TurnFinish,
         TurnTimeout, End, Debrief, Delete, ClearPrivacy, Connect, Drop, OnClose, Restart
<1>2. CASE delay
  BY <1>1, <1>2 DEF ViewInv, Quick, Told, ClientsInSync
<1> SUFFICES ASSUME ~delay PROVE ViewInv'
  BY <1>2
<1>3. \A q \in Calls : call[q] = NoCall
  BY DEF ViewInv, Quick
<1>4. ASSUME NEW s \in Sess, Request(s) PROVE ViewInv'
  <2>1. Told'
    BY <1>4, RequestTells DEF ViewInv
  <2>2. ClientsInSync'
    BY <1>1, <1>4, RequestSpeaks, SpokenKeepsSync DEF HubInv, ViewInv
  <2>3. call' = call
    BY <1>4 DEF Request, Create, TestSession, Start, Turn, End, Debrief, Delete
  <2>4. QED BY <1>3, <2>1, <2>2, <2>3 DEF ViewInv, Quick
<1>5. ASSUME NEW q \in Calls, NEW s \in Sess, TurnBegin(q, s) PROVE FALSE
  BY <1>5 DEF TurnBegin
<1>6. ASSUME NEW q \in Calls, TurnFinish(q) \/ TurnTimeout(q) PROVE FALSE
  BY <1>3, <1>6 DEF TurnFinish, TurnTimeout
<1>7. ASSUME NEW c \in Clients, NEW s \in Sess, NEW replay \in BOOLEAN, Connect(c, s, replay)
      PROVE  ViewInv'
  <2>1. ClientsInSync'
    BY <1>7, ConnectKeeps DEF TableInv, ViewInv
  <2>2. QED BY <1>3, <1>7, <2>1 DEF Connect, ViewInv, Quick, Told, Ending, Here
<1>8. ASSUME NEW c \in Clients, Drop(c) \/ OnClose(c) PROVE ViewInv'
  <2>1. ClientsInSync'
    BY <1>8, LeavingKeeps DEF ViewInv
  <2>2. UNCHANGED <<delay, row, events, call>>
    BY <1>8 DEF Drop, OnClose
  <2>3. QED BY <1>3, <2>1, <2>2 DEF ViewInv, Quick, Told, Ending, Here
<1>9. CASE ClearPrivacy
  <2>1. \A s \in Sess : row'[s].at # "here"
    BY <1>9 DEF ClearPrivacy, Here, TableInv, TableTypes, Rows
  <2>2. sock' = sock /\ call' = call
    BY <1>9 DEF ClearPrivacy
  <2>3. \A c \in Clients : sock[c].up => sock[c].sess \in Sess
    BY SocketFacts DEF HubInv
  <2>4. QED BY <1>3, <2>1, <2>2, <2>3 DEF ViewInv, Quick, Told, ClientsInSync, Here
<1>10. CASE Restart
  BY <1>10 DEF Restart, ViewInv, Quick, Told, Ending, ClientsInSync, Here, NoSocket
<1>11. CASE UNCHANGED vars
  BY <1>11 DEF vars, ViewInv, Quick, Told, Ending, ClientsInSync, Here
<1>12. QED BY <1>4, <1>5, <1>6, <1>7, <1>8, <1>9, <1>10, <1>11 DEF Next

-----------------------------------------------------------------------------
(* The transcript *)

\* How often an event is among others.
CountIn(es, e) == Cardinality({i \in DOMAIN es : es[i] = e})

\* One more event counts once, as what it is.
LEMMA CountedMore ==
  ASSUME NEW es \in Seq(EventTypes), NEW x \in EventTypes, NEW e \in EventTypes
  PROVE  /\ CountIn(es, e) \in Nat
         /\ CountIn(es \o <<x>>, e) = IF x = e THEN CountIn(es, e) + 1 ELSE CountIn(es, e)
<1> DEFINE Old == {i \in DOMAIN es : es[i] = e}
<1> DEFINE New == {i \in DOMAIN (es \o <<x>>) : (es \o <<x>>)[i] = e}
<1> DEFINE n == Len(es) + 1
<1>1. IsFiniteSet(Old)
  <2>1. Old \subseteq 1..Len(es) /\ Len(es) \in Int
    OBVIOUS
  <2>2. IsFiniteSet(1..Len(es))
    BY <2>1, FS_Interval
  <2>3. QED BY <2>1, <2>2, FS_Subset
<1>2. New = (IF x = e THEN Old \cup {n} ELSE Old) /\ n \notin Old
  <2>1. /\ DOMAIN (es \o <<x>>) = DOMAIN es \cup {n} /\ n \notin DOMAIN es
        /\ (es \o <<x>>)[n] = x /\ \A i \in DOMAIN es : (es \o <<x>>)[i] = es[i]
    OBVIOUS
  <2> HIDE DEF n
  <2>2. QED BY <2>1
<1> HIDE DEF Old, New, n
<1>3. Cardinality(Old) \in Nat /\ Cardinality(Old \cup {n}) = Cardinality(Old) + 1
  BY <1>1, <1>2, FS_CardinalityType, FS_AddElement
<1>4. CountIn(es, e) = Cardinality(Old) /\ CountIn(es \o <<x>>, e) = Cardinality(New)
  BY DEF CountIn, Old, New
<1>5. QED BY <1>2, <1>3, <1>4

\* No events, nothing to count.
LEMMA NothingCounted == \A e : CountIn(<<>>, e) = 0
<1>1. \A e : {i \in DOMAIN <<>> : <<>>[i] = e} = {}
  OBVIOUS
<1>2. QED BY <1>1, FS_EmptySet DEF CountIn

\* What TranscriptMatchesCount says of one session's row and events.
Scripted(r, es) ==
  r.at = "here" /\ r.save =>
    /\ CountIn(es, "player_turn") = r.count /\ CountIn(es, "npc_turn") = r.count
    /\ CountIn(es, "npc_opening") <= 1 /\ CountIn(es, "session_ended") <= 1
    /\ r.state = "NotStarted" => es = <<>>

\* Which is what it says of all of them.
LEMMA ScriptedOfEach ==
  TranscriptMatchesCount <=> (~delay => \A s \in Sess : Scripted(row[s], events[s]))
BY DEF TranscriptMatchesCount, Scripted, Here, Count, CountIn

\* What a turn adds to the counts.
LEMMA TurnCounted ==
  ASSUME NEW es \in Seq(EventTypes), NEW e \in EventTypes
  PROVE  CountIn(es \o <<"player_turn", "npc_turn">>, e)
           = IF e \in {"player_turn", "npc_turn"} THEN CountIn(es, e) + 1 ELSE CountIn(es, e)
<1>1. "player_turn" \in EventTypes /\ "npc_turn" \in EventTypes
  BY DEF EventTypes
<1>2. PICK more : more = es \o <<"player_turn">>
  OBVIOUS
<1>3. more \in Seq(EventTypes) /\ es \o <<"player_turn", "npc_turn">> = more \o <<"npc_turn">>
  BY <1>1, <1>2
<1>4. CountIn(es \o <<"player_turn">>, e)
        = IF "player_turn" = e THEN CountIn(es, e) + 1 ELSE CountIn(es, e)
  BY <1>1, CountedMore
<1>5. CountIn(more \o <<"npc_turn">>, e)
        = IF "npc_turn" = e THEN CountIn(more, e) + 1 ELSE CountIn(more, e)
  BY <1>1, <1>3, CountedMore
<1>6. QED BY <1>2, <1>3, <1>4, <1>5

\* No event of the end is counted unless there is one.
LEMMA EndingCounted ==
  ASSUME NEW s \in Sess, ~Ending(s)
  PROVE  CountIn(events[s], "session_ended") = 0
<1>1. {i \in DOMAIN events[s] : events[s][i] = "session_ended"} = {}
  BY DEF Ending
<1>2. QED BY <1>1, FS_EmptySet DEF CountIn

\* A request keeps the transcript in step with the row.
LEMMA RequestScripts ==
  ASSUME TableInv, ~delay, Told, NEW s \in Sess, Scripted(row[s], events[s]), Request(s)
  PROVE  Scripted(row'[s], events'[s])
<1>1. /\ row[s] \in Rows /\ row \in [Sess -> Rows] /\ events[s] \in Seq(EventTypes)
      /\ events \in [Sess -> Seq(EventTypes)]
  BY DEF TableInv, TableTypes
<1>2. EventTypes = {"npc_opening", "player_turn", "npc_turn", "session_ended", "debrief_generated"}
  BY DEF EventTypes
<1>3. CASE Create(s) \/ TestSession(s)
  <2>1. events'[s] = <<>> /\ row'[s].count = 0
    BY <1>1, <1>3 DEF Create, TestSession, TableInv, EventsOwned, Here, Unborn
  <2>2. QED BY <2>1, NothingCounted DEF Scripted
<1>4. CASE Start(s)
  <2>1. /\ row[s].at = "here" /\ row[s].state = "NotStarted"
        /\ row'[s] = [row[s] EXCEPT !.state = "PlayerTurnListening"]
        /\ row[s].save => events'[s] = events[s] \o <<"npc_opening">>
    BY <1>1, <1>4 DEF Start, CanTransition, Here, Saved
  <2>2. row'[s].save = row[s].save /\ row'[s].count = row[s].count
        /\ row'[s].state = "PlayerTurnListening"
    BY <1>1, <2>1 DEF Rows
  <2>3. CASE row[s].save
    <3>1. /\ events[s] = <<>> /\ row[s].count = 0
          /\ \A e \in EventTypes : CountIn(events[s], e) = 0
      BY <2>1, <2>3, NothingCounted DEF Scripted
    <3>2. ASSUME NEW e \in EventTypes
          PROVE  CountIn(events'[s], e) = IF e = "npc_opening" THEN 1 ELSE 0
      <4>1. "npc_opening" \in EventTypes
        BY <1>2
      <4>2. CountIn(events[s] \o <<"npc_opening">>, e)
              = IF "npc_opening" = e THEN CountIn(events[s], e) + 1 ELSE CountIn(events[s], e)
        BY <1>1, <4>1, CountedMore
      <4>3. QED BY <2>1, <2>3, <3>1, <4>2
    <3>3. QED BY <1>2, <2>2, <3>1, <3>2 DEF Scripted
  <2>4. CASE ~row[s].save
    BY <2>2, <2>4 DEF Scripted
  <2>5. QED BY <2>3, <2>4
<1>5. CASE Turn(s)
  <2>1. /\ row[s].at = "here" /\ PersistTurn(s, row[s].count) /\ row[s].count \in Nat
    BY <1>1, <1>5 DEF Turn, CanTurn, Here, Rows
  <2>2. /\ row'[s].save = row[s].save /\ row'[s].count = row[s].count + 1
        /\ row'[s].state # "NotStarted"
        /\ row[s].save => events'[s] = events[s] \o <<"player_turn", "npc_turn">>
    BY <1>1, <2>1 DEF PersistTurn, Insertable, Here, Rows, Saved
  <2>3. CASE row[s].save
    <3>1. ASSUME NEW e \in EventTypes
          PROVE  CountIn(events'[s], e) = IF e \in {"player_turn", "npc_turn"}
                                          THEN CountIn(events[s], e) + 1 ELSE CountIn(events[s], e)
      BY <1>1, <2>2, <2>3, TurnCounted
    <3>2. QED BY <1>2, <2>1, <2>2, <2>3, <3>1 DEF Scripted
  <2>4. CASE ~row[s].save
    BY <2>2, <2>4 DEF Scripted
  <2>5. QED BY <2>3, <2>4
<1>6. CASE End(s) \/ Debrief(s)
  <2>1. PICK x \in {"session_ended", "debrief_generated"} :
          /\ row[s].save => events'[s] = events[s] \o <<x>>
          /\ x = "session_ended" => row[s].state # "Ended"
    BY <1>1, <1>6 DEF End, Debrief, CanTransition, Saved
  <2>2. /\ row'[s].save = row[s].save /\ row'[s].count = row[s].count /\ row'[s].state = "Ended"
        /\ row[s].at = "here"
    BY <1>1, <1>6 DEF End, Debrief, Here, Rows
  <2>3. CASE row[s].save
    <3>1. x = "session_ended" => CountIn(events[s], "session_ended") = 0
      BY <2>1, <2>2, EndingCounted DEF Told, Here
    <3>2. ASSUME NEW e \in EventTypes
          PROVE  CountIn(events'[s], e)
                   = IF x = e THEN CountIn(events[s], e) + 1 ELSE CountIn(events[s], e)
      <4>1. x \in EventTypes
        BY <1>2
      <4>2. CountIn(events[s] \o <<x>>, e)
              = IF x = e THEN CountIn(events[s], e) + 1 ELSE CountIn(events[s], e)
        BY <1>1, <4>1, CountedMore
      <4>3. QED BY <2>1, <2>3, <4>2
    <3>3. QED BY <1>2, <2>2, <2>3, <3>1, <3>2 DEF Scripted
  <2>4. CASE ~row[s].save
    BY <2>2, <2>4 DEF Scripted
  <2>5. QED BY <2>3, <2>4
<1>7. CASE Delete(s)
  BY <1>1, <1>7 DEF Delete, Rows, Scripted
<1>8. QED BY <1>3, <1>4, <1>5, <1>6, <1>7 DEF Request

\* A request creates at most one more session.
LEMMA FewMore ==
  ASSUME Few, NEW s \in Sess, \A t \in Sess \ {s} : row'[t] = row[t]
  PROVE  Few'
<1> DEFINE Born == {t \in Sess : row[t].at # "unborn"}
<1>1. {t \in Sess : row'[t].at # "unborn"} \subseteq Born \cup {s}
  OBVIOUS
<1>2. IsFiniteSet(Born \cup {s})
  BY FS_AddElement DEF Few
<1>3. QED BY <1>1, <1>2, FS_Subset DEF Few

\* Every step keeps the log's part.
LEMMA LogStep ==
  ASSUME TableInv, HubInv, ViewInv, LogInv, [Next]_vars
  PROVE  LogInv'
<1>1. delay' = delay
  BY DEF Next, Request, vars, Create, TestSession, Start, Turn, TurnBegin, TurnFinish,
         TurnTimeout, End, Debrief, Delete, ClearPrivacy, Connect, Drop, OnClose, Restart
<1>2. /\ ~delay => \A s \in Sess : Scripted(row[s], events[s])
      /\ ~delay => \A q \in Calls : call[q] = NoCall
      /\ Few
  BY ScriptedOfEach DEF LogInv, ViewInv, Quick
<1>3. (~delay => \A s \in Sess : Scripted(row'[s], events'[s])) /\ Few' => LogInv'
  BY <1>1 DEF LogInv, TranscriptMatchesCount, Scripted, Here, Count, CountIn
<1>4. ASSUME NEW s \in Sess, Request(s) PROVE LogInv'
  <2>1. \A t \in Sess \ {s} : row'[t] = row[t]
    BY <1>4, RequestSpeaks DEF HubInv, Spoken
  <2>2. \A t \in Sess \ {s} : events'[t] = events[t]
    BY <1>4 DEF Request, Create, TestSession, Start, Turn, PersistTurn, End, Debrief, Delete,
                TableInv, TableTypes
  <2>3. ~delay => Scripted(row'[s], events'[s])
    BY <1>2, <1>4, RequestScripts DEF ViewInv
  <2>4. QED BY <1>2, <1>3, <2>1, <2>2, <2>3, FewMore
<1>5. ASSUME NEW q \in Calls, TurnFinish(q) PROVE LogInv'
  <2>1. delay /\ call[q].sess \in Sess
    BY <1>2, <1>5 DEF TurnFinish, TableInv, TableTypes, Waits
  <2>2. \A t \in Sess \ {call[q].sess} : row'[t] = row[t]
    BY <1>5, <2>1, RequestSpeaks DEF HubInv, Spoken
  <2>3. QED BY <1>2, <1>3, <2>1, <2>2, FewMore
<1>6. CASE ClearPrivacy
  <2>1. \A s \in Sess : /\ row'[s].at # "here"
                        /\ row'[s].at # "unborn" => row[s].at # "unborn"
    BY <1>6 DEF ClearPrivacy, Here, TableInv, TableTypes, Rows
  <2>2. {s \in Sess : row'[s].at # "unborn"} \subseteq {s \in Sess : row[s].at # "unborn"}
    BY <2>1
  <2>3. Few'
    BY <1>2, <2>2, FS_Subset DEF Few
  <2>4. QED BY <1>3, <2>1, <2>3 DEF Scripted
<1>7. CASE UNCHANGED <<row, events>>
  BY <1>2, <1>3, <1>7 DEF Few
<1>8. QED
  BY <1>4, <1>5, <1>6, <1>7
     DEF Next, TurnBegin, TurnTimeout, Connect, Drop, OnClose, Restart, vars

-----------------------------------------------------------------------------
(* The logbook's fold *)

\* The sessions a set of rows is to be counted for, and buildProfile's accumulator then.
Got(f, S) == {f[i] : i \in S} \cap Profiled
Tally(f, S) == [seen |-> Got(f, S), total |-> Cardinality(Got(f, S))]
\* The recursion FoldSeq unfolds to.
Tallies(f, it) ==
  it = [S \in SUBSET DOMAIN f |->
          IF S = {} THEN [seen |-> {}, total |-> 0]
          ELSE Folded(it[S \ {CHOOSE i \in S : TRUE}], f[CHOOSE i \in S : TRUE])]

\* One more row of a session that is or is not in the tally.
LEMMA OneMore ==
  ASSUME NEW f, IsFiniteSet(DOMAIN f), NEW S \in SUBSET DOMAIN f, NEW i \in S
  PROVE  Tally(f, S) = Folded(Tally(f, S \ {i}), f[i])
<1> DEFINE Old == Got(f, S \ {i})
<1>1. IsFiniteSet(Old)
  <2>1. IsFiniteSet(S \ {i})
    BY FS_Subset
  <2> DEFINE g == [j \in S \ {i} |-> f[j]]
  <2>2. IsFiniteSet({f[j] : j \in S \ {i}})
    <3>1. g \in Surjection(S \ {i}, {f[j] : j \in S \ {i}})
      BY DEF Surjection
    <3>2. QED BY <2>1, <3>1, FS_Surjection
  <2>3. Old \subseteq {f[j] : j \in S \ {i}}
    BY DEF Got
  <2>4. QED BY <2>2, <2>3, FS_Subset
<1>2. Got(f, S) = IF f[i] \in Profiled THEN Old \cup {f[i]} ELSE Old
  BY DEF Got
<1>3. Tally(f, S \ {i}) = [seen |-> Old, total |-> Cardinality(Old)]
  BY DEF Tally
<1> HIDE DEF Old
<1>4. CASE f[i] \in Old
  <2>1. f[i] \in Profiled /\ Old \cup {f[i]} = Old
    BY <1>4 DEF Old, Got
  <2>2. QED BY <1>2, <2>1, <1>3, <1>4 DEF Folded, Tally
<1>5. CASE f[i] \notin Old
  <2>1. f[i] \in Profiled => Cardinality(Old \cup {f[i]}) = Cardinality(Old) + 1
    BY <1>1, <1>5, FS_AddElement
  <2>2. QED BY <1>2, <1>3, <1>5, <2>1 DEF Folded, Tally
<1>6. QED BY <1>4, <1>5

\* Nothing read, nothing counted.
LEMMA EmptyTally ==
  ASSUME NEW f
  PROVE  Tally(f, {}) = [seen |-> {}, total |-> 0]
<1>1. Got(f, {}) = {}
  BY DEF Got
<1>2. QED BY <1>1, FS_EmptySet DEF Tally

\* The tally of each set of rows solves the fold's recursion, whichever row it takes.
LEMMA TallyWorks ==
  ASSUME NEW f, IsFiniteSet(DOMAIN f)
  PROVE  Tallies(f, [S \in SUBSET DOMAIN f |-> Tally(f, S)])
<1> DEFINE it == [S \in SUBSET DOMAIN f |-> Tally(f, S)]
<1>1. ASSUME NEW S \in SUBSET DOMAIN f, S = {} PROVE Tally(f, S) = [seen |-> {}, total |-> 0]
  BY <1>1, EmptyTally
<1>2. ASSUME NEW S \in SUBSET DOMAIN f, S # {}
      PROVE  Tally(f, S) = Folded(it[S \ {CHOOSE i \in S : TRUE}], f[CHOOSE i \in S : TRUE])
  <2>1. (CHOOSE i \in S : TRUE) \in S
    BY <1>2
  <2> DEFINE j == CHOOSE i \in S : TRUE
  <2>2. it[S \ {j}] = Tally(f, S \ {j})
    OBVIOUS
  <2> HIDE DEF j, it
  <2>3. QED BY <2>1, <2>2, OneMore DEF j
<1> HIDE DEF it
<1>3. QED BY <1>1, <1>2 DEF Tallies, it

\* And nothing else does: a smallest set on which a solution differs is not empty, and
\* it is one row more than a set on which the two agree.
LEMMA TallyOnly ==
  ASSUME NEW f, IsFiniteSet(DOMAIN f), NEW it, Tallies(f, it), NEW S \in SUBSET DOMAIN f
  PROVE  it[S] = Tally(f, S)
<1> DEFINE Bad == {T \in SUBSET DOMAIN f : it[T] # Tally(f, T)}
<1> SUFFICES ASSUME Bad # {} PROVE FALSE
  OBVIOUS
<1>1. PICK T \in Bad : \A U \in Bad : ~(U \subseteq T /\ U # T)
  <2>1. IsWellFoundedOn(StrictSubsetOrdering(DOMAIN f), SUBSET DOMAIN f)
    BY FS_StrictSubsetOrderingWellFounded, FS_FiniteSubsetsOfFinite
  <2>2. \E T \in Bad : \A U \in Bad : ~(<<U, T>> \in StrictSubsetOrdering(DOMAIN f))
    BY <2>1, WFMin
  <2>3. QED BY <2>2 DEF StrictSubsetOrdering
<1>2. T \in SUBSET DOMAIN f /\ it[T] # Tally(f, T)
  OBVIOUS
<1>3. CASE T = {}
  BY <1>2, <1>3, EmptyTally DEF Tallies
<1>4. CASE T # {}
  <2> DEFINE j == CHOOSE i \in T : TRUE
  <2>1. j \in T
    BY <1>4
  <2>2. it[T] = Folded(it[T \ {j}], f[j])
    BY <1>2, <1>4 DEF Tallies
  <2> HIDE DEF j
  <2>3. it[T \ {j}] = Tally(f, T \ {j})
    BY <1>1, <1>2, <2>1
  <2>4. QED BY <1>2, <2>1, <2>2, <2>3, OneMore
<1>5. QED BY <1>3, <1>4

\* The loop over a sequence of rows.
TallyOf(f) == FoldSeq(LAMBDA s, acc : Folded(acc, s), [seen |-> {}, total |-> 0], f)

\* The loop over a sequence of rows comes to their tally.
LEMMA FoldCounts ==
  ASSUME NEW f, IsFiniteSet(DOMAIN f)
  PROVE  TallyOf(f) = Tally(f, DOMAIN f)
<1>1. \E it : Tallies(f, it)
  BY TallyWorks
<1>2. Tallies(f, CHOOSE it : Tallies(f, it))
  BY <1>1
<1>3. (CHOOSE it : Tallies(f, it))[DOMAIN f] = Tally(f, DOMAIN f)
  BY <1>2, TallyOnly
<1>4. QED BY <1>3 DEF TallyOf, FoldSeq, FoldFunction, FoldFunctionOnSet, MapThenFoldSet, Tallies

\* A set of numbers that is not empty has a least one.
LEMMA LeastNumber ==
  ASSUME NEW T \in SUBSET Nat, T # {}
  PROVE  \E x \in T : \A y \in T : x <= y
<1>1. \E x \in T : \A y \in T : ~(<<y, x>> \in OpToRel(<, Nat))
  BY NatLessThanWellFounded, WFMin
<1>2. \A x, y \in T : ~(<<y, x>> \in OpToRel(<, Nat)) => x <= y
  BY DEF OpToRel
<1> QED BY <1>1, <1>2

\* Induction, for a set instead of a predicate.
LEMMA Induction ==
  ASSUME NEW G, 0 \in G, \A n \in Nat : n \in G => n + 1 \in G
  PROVE  Nat \subseteq G
<1> DEFINE T == Nat \ G
<1> SUFFICES ASSUME T # {} PROVE FALSE
  OBVIOUS
<1>1. PICK x \in T : \A y \in T : x <= y
  BY LeastNumber
<1>2. x - 1 \in Nat /\ x - 1 \notin T
  BY <1>1
<1> QED BY <1>1, <1>2

\* The recursion FlattenSeq unfolds to, and what is in a sequence.
Flat(ss, n, g) == g = [i \in 1..n |-> IF i = 1 THEN ss[i] ELSE g[i - 1] \o ss[i]]
Occurs(x, f) == \E i \in DOMAIN f : f[i] = x

\* FlattenSeq's recursion has a solution of every length.
LEMMA FlatExists ==
  ASSUME NEW ss, NEW n \in Nat
  PROVE  \E g : Flat(ss, n, g)
<1> DEFINE G == {k \in Nat : \E g : Flat(ss, k, g)}
<1>1. 0 \in G
  <2>1. Flat(ss, 0, [i \in {} |-> i])
    BY DEF Flat
  <2>2. QED BY <2>1
<1>2. ASSUME NEW k \in Nat, k \in G PROVE k + 1 \in G
  <2>1. PICK g : Flat(ss, k, g)
    BY <1>2
  <2> DEFINE h == [i \in 1..(k + 1) |->
                     IF i <= k THEN g[i] ELSE IF i = 1 THEN ss[i] ELSE g[i - 1] \o ss[i]]
  <2>2. \A i \in 1..k : g[i] = IF i = 1 THEN ss[i] ELSE g[i - 1] \o ss[i]
    BY <2>1 DEF Flat
  <2>3. \A i \in 1..(k + 1) : i # 1 => i - 1 \in 1..(k + 1) /\ i - 1 <= k
    OBVIOUS
  <2>4. \A i \in 1..(k + 1) : h[i] = IF i = 1 THEN ss[i] ELSE h[i - 1] \o ss[i]
    BY <2>2, <2>3
  <2>5. Flat(ss, k + 1, h)
    BY <2>4 DEF Flat
  <2>6. QED BY <2>5
<1> HIDE DEF G
<1>3. Nat \subseteq G
  BY <1>1, <1>2, Induction
<1>4. QED BY <1>3 DEF G

\* An element of a concatenation is one of either part.
LEMMA OccursConcat ==
  ASSUME NEW T, NEW a \in Seq(T), NEW b \in Seq(T), NEW x
  PROVE  Occurs(x, a \o b) <=> Occurs(x, a) \/ Occurs(x, b)
<1>1. ASSUME NEW i \in DOMAIN a PROVE i \in DOMAIN (a \o b) /\ (a \o b)[i] = a[i]
  OBVIOUS
<1>2. ASSUME NEW i \in DOMAIN b
      PROVE  Len(a) + i \in DOMAIN (a \o b) /\ (a \o b)[Len(a) + i] = b[i]
  OBVIOUS
<1>3. ASSUME NEW i \in DOMAIN (a \o b), i > Len(a)
      PROVE  i - Len(a) \in DOMAIN b /\ (a \o b)[i] = b[i - Len(a)]
  BY <1>3
<1>4. ASSUME NEW i \in DOMAIN (a \o b), ~(i > Len(a))
      PROVE  i \in DOMAIN a /\ (a \o b)[i] = a[i]
  BY <1>4
<1>5. QED BY <1>1, <1>2, <1>3, <1>4 DEF Occurs

\* What the solution holds, up to each place.
LEMMA FlatHolds ==
  ASSUME NEW T, NEW ss \in Seq(Seq(T)), NEW g, Flat(ss, Len(ss), g), NEW n \in 1..Len(ss)
  PROVE  /\ g[n] \in Seq(T)
         /\ \A x : Occurs(x, g[n]) <=> \E j \in 1..n : Occurs(x, ss[j])
<1> DEFINE Fine(k) == /\ g[k] \in Seq(T)
                      /\ \A x : Occurs(x, g[k]) <=> \E j \in 1..k : Occurs(x, ss[j])
<1>1. \A k \in 1..Len(ss) : g[k] = IF k = 1 THEN ss[k] ELSE g[k - 1] \o ss[k]
  BY DEF Flat
<1>2. Len(ss) \in Nat /\ \A k \in 1..Len(ss) : ss[k] \in Seq(T)
  OBVIOUS
<1>3. 1 <= Len(ss) => Fine(1)
  <2>1. 1 <= Len(ss) => g[1] = ss[1] /\ g[1] \in Seq(T)
    BY <1>1, <1>2
  <2>2. 1..1 = {1}
    OBVIOUS
  <2>3. QED BY <2>1, <2>2
<1>4. ASSUME NEW k \in 1..Len(ss), k + 1 <= Len(ss), Fine(k) PROVE Fine(k + 1)
  <2>1. g[k + 1] = g[k] \o ss[k + 1] /\ ss[k + 1] \in Seq(T)
    <3>1. k + 1 \in 1..Len(ss) /\ k + 1 # 1 /\ (k + 1) - 1 = k
      BY <1>2, <1>4
    <3>2. QED BY <1>1, <1>2, <3>1
  <2>2. \A x : Occurs(x, g[k + 1]) <=> Occurs(x, g[k]) \/ Occurs(x, ss[k + 1])
    BY <1>4, <2>1, OccursConcat
  <2>3. 1..(k + 1) = 1..k \cup {k + 1}
    BY <1>2
  <2>4. g[k + 1] \in Seq(T)
    BY <1>4, <2>1
  <2>5. \A x : Occurs(x, g[k + 1]) <=> \E j \in 1..(k + 1) : Occurs(x, ss[j])
    BY <1>4, <2>2, <2>3, Zenon
  <2>6. QED BY <2>4, <2>5
<1> HIDE DEF Fine
<1> DEFINE G == {k \in Nat : 1 <= k /\ k <= Len(ss) => Fine(k)}
<1>5. 0 \in G
  OBVIOUS
<1>6. ASSUME NEW k \in Nat, k \in G PROVE k + 1 \in G
  <2>1. CASE k = 0
    BY <1>3, <2>1
  <2>2. CASE 1 <= k /\ k + 1 <= Len(ss)
    BY <1>2, <1>4, <1>6, <2>2
  <2>3. CASE ~(k + 1 <= Len(ss))
    BY <2>3
  <2>4. QED BY <2>1, <2>2, <2>3
<1> HIDE DEF G
<1>7. Nat \subseteq G
  BY <1>5, <1>6, Induction
<1>8. Fine(n)
  BY <1>2, <1>7 DEF G
<1>9. QED BY <1>8 DEF Fine

\* A flattened sequence holds what the sequences in it hold.
LEMMA FlattenHolds ==
  ASSUME NEW T, NEW ss \in Seq(Seq(T))
  PROVE  /\ FlattenSeq(ss) \in Seq(T)
         /\ \A x : Occurs(x, FlattenSeq(ss)) <=> \E j \in DOMAIN ss : Occurs(x, ss[j])
<1>0. Len(ss) \in Nat /\ DOMAIN ss = 1..Len(ss)
  OBVIOUS
<1>1. CASE Len(ss) = 0
  BY <1>1 DEF FlattenSeq, Occurs
<1>2. CASE Len(ss) # 0
  <2>0. PICK g : g = CHOOSE h : Flat(ss, Len(ss), h)
    OBVIOUS
  <2>1. Flat(ss, Len(ss), g)
    <3>1. \E h : Flat(ss, Len(ss), h)
      BY <1>0, FlatExists
    <3>2. QED BY <2>0, <3>1
  <2>2. FlattenSeq(ss) = g[Len(ss)]
    BY <1>2, <2>0 DEF FlattenSeq, Flat
  <2>3. Len(ss) \in 1..Len(ss)
    BY <1>0, <1>2
  <2>4. PICK n \in 1..Len(ss) : n = Len(ss)
    BY <2>3
  <2>5. /\ g[n] \in Seq(T)
        /\ \A x : Occurs(x, g[n]) <=> \E j \in 1..n : Occurs(x, ss[j])
    BY <2>1, FlatHolds
  <2>6. /\ FlattenSeq(ss) \in Seq(T)
        /\ \A x : Occurs(x, FlattenSeq(ss)) <=> \E j \in DOMAIN ss : Occurs(x, ss[j])
    BY <1>0, <2>2, <2>4, <2>5
  <2>7. QED BY <2>6
<1>3. QED BY <1>1, <1>2

\* SetToSeq leaves no element of the set out.
LEMMA SequenceOfSet ==
  ASSUME NEW S, IsFiniteSet(S)
  PROVE  SetToSeq(S) \in Seq(S) /\ \A x \in S : Occurs(x, SetToSeq(S))
<1> DEFINE n == Cardinality(S)
<1>1. n \in Nat /\ ExistsBijection(1..n, S)
  BY FS_CardinalityType
<1>2. SetToSeq(S) \in [1..n -> S] /\ IsInjective(SetToSeq(S))
  <2>1. \E f \in [1..n -> S] : IsInjective(f)
    BY <1>1 DEF ExistsBijection, Bijection, Injection
  <2>2. QED BY <2>1 DEF SetToSeq
<1> DEFINE f == SetToSeq(S)
<1> HIDE DEF f, n
<1>3. f \in Injection(1..n, S)
  BY <1>2 DEF f, Injection
<1>4. f \in Bijection(1..n, Range(f))
  BY <1>3, Fun_InjMeansBijImage
<1>5. IsFiniteSet(1..n) /\ Cardinality(1..n) = n
  BY <1>1, FS_Interval
<1>6. Cardinality(Range(f)) = Cardinality(S)
  BY <1>4, <1>5, FS_Bijection DEF n, ExistsBijection
<1>7. Range(f) \subseteq S
  BY <1>3 DEF Range, Injection
<1>8. Range(f) = S
  BY <1>6, <1>7, FS_Subset
<1>9. QED BY <1>1, <1>2, <1>8 DEF f, Range, Occurs

\* The rows the logbook reads, put in a sequence, hold exactly the debriefed sessions.
LEMMA RowsRead ==
  ASSUME TableTypes, Few
  PROVE  LET f == FlattenSeq(SetToSeq({DebriefRows(s) : s \in Listed}))
         IN  /\ f \in Seq(Sess)
             /\ \A s \in Listed : Occurs(s, f) <=> Count(s, "debrief_generated") > 0
<1> DEFINE n(s) == Count(s, "debrief_generated")
<1> DEFINE R == {DebriefRows(s) : s \in Listed}
<1>1. \A s \in Listed : n(s) \in Nat /\ s \in Sess
  <2>1. \A s \in Sess : events[s] \in Seq(EventTypes) /\ "debrief_generated" \in EventTypes
    BY DEF TableTypes, EventTypes
  <2>2. \A s \in Sess : CountIn(events[s], "debrief_generated") \in Nat
    BY <2>1, CountedMore
  <2>3. QED BY <2>2 DEF Listed, Count, CountIn
<1> HIDE DEF n
<1>2. \A s \in Listed : DebriefRows(s) = [i \in 1..n(s) |-> s]
  BY DEF DebriefRows, n
<1>3. \A s \in Listed : /\ DebriefRows(s) \in Seq(Sess)
                        /\ \A t : Occurs(t, DebriefRows(s)) <=> t = s /\ n(s) > 0
  <2> SUFFICES ASSUME NEW s \in Listed
               PROVE  /\ DebriefRows(s) \in Seq(Sess)
                      /\ \A t : Occurs(t, DebriefRows(s)) <=> t = s /\ n(s) > 0
    OBVIOUS
  <2>1. DebriefRows(s) \in Seq(Sess)
    BY <1>1, <1>2
  <2>2. ASSUME NEW t PROVE Occurs(t, DebriefRows(s)) <=> t = s /\ n(s) > 0
    <3>1. n(s) > 0 <=> 1 \in 1..n(s)
      BY <1>1
    <3>2. \A i \in 1..n(s) : n(s) > 0
      BY <1>1
    <3>3. QED BY <1>2, <3>1, <3>2 DEF Occurs
  <2>3. QED BY <2>1, <2>2
<1>4. IsFiniteSet(R)
  <2>1. IsFiniteSet(Listed)
    BY FS_Subset DEF Listed, Here, Few
  <2> DEFINE g == [s \in Listed |-> DebriefRows(s)]
  <2>2. g \in Surjection(Listed, R)
    BY DEF Surjection
  <2>3. QED BY <2>1, <2>2, FS_Surjection
<1>5. R \subseteq Seq(Sess) /\ \A s \in Listed : DebriefRows(s) \in R
  BY <1>3
<1>6. \A d \in R : \E s \in Listed : d = DebriefRows(s)
  OBVIOUS
<1> HIDE DEF R
<1>7. PICK ss : ss = SetToSeq(R)
  OBVIOUS
<1>8. ss \in Seq(R) /\ \A d \in R : Occurs(d, ss)
  BY <1>4, <1>7, SequenceOfSet
<1>9. ss \in Seq(Seq(Sess)) /\ \A j \in DOMAIN ss : ss[j] \in R
  BY <1>5, <1>8
<1>10. /\ FlattenSeq(ss) \in Seq(Sess)
       /\ \A s : Occurs(s, FlattenSeq(ss)) <=> \E j \in DOMAIN ss : Occurs(s, ss[j])
  BY <1>9, FlattenHolds
<1>11. ASSUME NEW s \in Listed PROVE Occurs(s, FlattenSeq(ss)) <=> n(s) > 0
  <2>1. ASSUME NEW j \in DOMAIN ss, Occurs(s, ss[j]) PROVE n(s) > 0
    <3>1. PICK t \in Listed : ss[j] = DebriefRows(t)
      BY <1>6, <1>9
    <3>2. QED BY <1>3, <2>1, <3>1
  <2>2. ASSUME n(s) > 0 PROVE \E j \in DOMAIN ss : Occurs(s, ss[j])
    <3>1. PICK j \in DOMAIN ss : ss[j] = DebriefRows(s)
      BY <1>5, <1>8 DEF Occurs
    <3>2. Occurs(s, DebriefRows(s))
      BY <1>3, <2>2
    <3>3. QED BY <3>1, <3>2
  <2>3. QED BY <1>10, <2>1, <2>2
<1>12. QED BY <1>7, <1>10, <1>11 DEF R, n

\* The loop's total is what ScoresCountOnce says it is.
LEMMA ScoresFold ==
  ASSUME TableTypes, Few
  PROVE  ScoresCountOnce
<1>1. PICK f : f = FlattenSeq(SetToSeq({DebriefRows(s) : s \in Listed}))
  OBVIOUS
<1>2. f \in Seq(Sess) /\ \A s \in Listed : Occurs(s, f) <=> Count(s, "debrief_generated") > 0
  BY <1>1, RowsRead
<1>3. IsFiniteSet(DOMAIN f)
  <2>1. DOMAIN f = 1..Len(f) /\ Len(f) \in Int
    BY <1>2
  <2>2. QED BY <2>1, FS_Interval
<1>4. Got(f, DOMAIN f) = {s \in Profiled : Count(s, "debrief_generated") > 0}
  BY <1>2 DEF Got, Occurs, Profiled
<1>5. ScoredSessions = Cardinality(Got(f, DOMAIN f))
  <2>1. ScoredSessions = TallyOf(f).total
    BY <1>1 DEF ScoredSessions, TallyOf
  <2>2. TallyOf(f) = Tally(f, DOMAIN f)
    BY <1>3, FoldCounts
  <2>3. QED BY <2>1, <2>2 DEF Tally
<1>6. QED BY <1>4, <1>5 DEF ScoresCountOnce
-----------------------------------------------------------------------------
(* Downloads *)

Sources == [at : {"idle", "fetch", "stream"}, done : 0..2, aborted : BOOLEAN,
            good : BOOLEAN, file : Dl \cup {Models!NoFile}]
Right == [h \in 1..2 |-> "right"]

\* While downloads run one at a time: who has not been answered names no file, the
\* .part file is the one that the stream writes, as far as it has come, and the
\* finished file is another one, whole.
Alone ==
  /\ \A d, e \in Models!Running : d = e
  /\ \A d \in Dl : status[d] = "none" \/ task[d].at = "fetch" => d \notin {part, final}
  /\ part = Models!NoFile \/ part # final
  /\ final # Models!NoFile => inode[final] = Right
  /\ \A d \in Dl : task[d].at = "fetch" => task[d].done = 0
  /\ \A d \in Dl : task[d].at = "stream" =>
       /\ task[d].file = part /\ part \in Dl
       /\ task[d].good => \A h \in 1..task[d].done : inode[part][h] = "right"

ModelInv ==
  /\ serial \in BOOLEAN /\ Models!TypeOK /\ Models!RowsAreDriven /\ Models!ActiveHasFile
  /\ serial => Alone

\* No download has begun.
LEMMA ModelInit == Models!Init => ModelInv
<1> SUFFICES ASSUME Models!Init PROVE ModelInv
  OBVIOUS
<1>1. /\ \A d \in Dl : status[d] = "none" /\ task[d] = Models!Idle
      /\ part = Models!NoFile /\ final = Models!NoFile
      /\ Models!Idle.at = "idle" /\ Models!Running = {}
  BY DEF Models!Init, Models!Idle, Models!Running
<1>2. Models!TypeOK
  <2>1. Models!Idle \in Sources
    BY DEF Models!Idle, Sources
  <2>2. QED
    BY <2>1 DEF Models!Init, Models!TypeOK, Models!Blank, Models!Terminal, Models!Loadable, Sources
<1>3. Models!RowsAreDriven /\ Models!ActiveHasFile /\ Alone
  BY <1>1, DlAssumption DEF Models!Init, Models!RowsAreDriven, Models!ActiveHasFile, Alone
<1>4. QED BY <1>2, <1>3 DEF ModelInv, Models!Init

\* The types of what downloads write, and of the rest.
ModelTypes == status \in [Dl -> Models!Terminal \cup {"none", "downloading"}]
              /\ task \in [Dl -> Sources] /\ inode \in [Dl -> [1..2 -> {"hole", "right", "wrong"}]]
              /\ part \in Dl \cup {Models!NoFile} /\ final \in Dl \cup {Models!NoFile}
ModelFrame == active \in Models!Loadable /\ bench \in [of : Models!Loadable, last : Models!Loadable]

\* TypeOK is these two.
LEMMA ModelTypesTogether == Models!TypeOK <=> ModelTypes /\ ModelFrame
BY DEF Models!TypeOK, ModelTypes, ModelFrame, Sources

\* A download ends: its row is final, its call is forgotten, and the file that was
\* written, if it is kept, becomes the finished one.
LEMMA SettleKeeps ==
  ASSUME ModelInv, NEW d \in Models!Running, NEW outcome \in Models!Terminal,
         Models!Settle(d, outcome), UNCHANGED <<serial, inode, bench>>,
         part' = Models!NoFile,
         \/ final' = final /\ active' = active /\ outcome # "ready"
         \/ /\ final' = part /\ active' = "downloaded" /\ part # Models!NoFile
            /\ serial => inode[part] = Right
  PROVE  ModelInv'
<1>1. /\ d \in Dl /\ ModelTypes /\ ModelFrame
      /\ \A e \in Dl : /\ status'[e] = IF e = d THEN outcome ELSE status[e]
                       /\ task'[e] = IF e = d THEN Models!Idle ELSE task[e]
  BY ModelTypesTogether DEF ModelInv, Models!Running, Models!Settle, ModelTypes
<1>2. Models!Idle \in Sources /\ Models!Idle.at = "idle" /\ outcome \notin {"none", "downloading"}
  BY DEF Models!Idle, Sources, Models!Terminal
<1>3. Models!TypeOK'
  <2>1. ModelTypes'
    BY <1>1, <1>2 DEF Models!Settle, ModelTypes
  <2>2. active' \in Models!Loadable /\ bench' = bench
    BY <1>1 DEF ModelFrame, Models!Loadable
  <2>3. ModelFrame'
    BY <1>1, <2>2 DEF ModelFrame
  <2>4. QED BY <2>1, <2>3, ModelTypesTogether, PTL
<1>4. Models!RowsAreDriven'
  BY <1>1, <1>2 DEF ModelInv, Models!RowsAreDriven, Models!Running
<1>5. Models!ActiveHasFile'
  BY <1>1 DEF ModelInv, Models!ActiveHasFile
<1>6. serial => Alone'
  <2> SUFFICES ASSUME serial, Alone PROVE Alone'
    BY DEF ModelInv
  <2>1. \A e \in Dl : task'[e].at = "idle"
    BY <1>1, <1>2 DEF Alone, Models!Running
  <2>2. \A e \in Dl : status'[e] = "none" => status[e] = "none"
    BY <1>1, <1>2
  <2>3. QED BY <1>1, <2>1, <2>2, DlAssumption DEF Alone, Models!Running
<1>7. QED BY <1>3, <1>4, <1>5, <1>6 DEF ModelInv

\* Every step keeps what the models table says true.
LEMMA ModelStep ==
  ASSUME ModelInv, [Models!Next]_(Models!vars)
  PROVE  ModelInv'
<1>0. ModelTypes /\ ModelFrame
  BY ModelTypesTogether DEF ModelInv
<1>1. ASSUME NEW d \in Dl, Models!Install(d) PROVE ModelInv'
  <2>1. PICK good \in BOOLEAN :
          task' = [task EXCEPT ![d] = [Models!Idle EXCEPT !.at = "fetch", !.good = good]]
    BY <1>1 DEF Models!Install
  <2> DEFINE new == [Models!Idle EXCEPT !.at = "fetch", !.good = good]
  <2>2. new \in Sources /\ new.at = "fetch" /\ new.done = 0
    <3>1. Models!Idle \in Sources /\ Models!Idle.done = 0
      BY DEF Models!Idle, Sources
    <3>2. QED BY <3>1 DEF Sources
  <2> HIDE DEF new
  <2>3. /\ \A e \in Dl : /\ status'[e] = IF e = d THEN "downloading" ELSE status[e]
                         /\ task'[e] = IF e = d THEN new ELSE task[e]
        /\ UNCHANGED <<serial, inode, part, final, active, bench>>
        /\ status[d] = "none"
    BY <1>0, <1>1, <2>1 DEF Models!Install, ModelTypes, new
  <2>4. Models!TypeOK'
    <3>1. ModelTypes' /\ ModelFrame'
      BY <1>0, <1>1, <2>1, <2>2, <2>3 DEF Models!Install, ModelTypes, ModelFrame, new
    <3>2. QED BY <3>1, ModelTypesTogether, PTL
  <2>5. Models!RowsAreDriven' /\ Models!ActiveHasFile'
    BY <2>2, <2>3 DEF ModelInv, Models!RowsAreDriven, Models!Running, Models!ActiveHasFile
  <2>6. serial => Alone'
    <3> SUFFICES ASSUME serial, Alone PROVE Alone'
      BY DEF ModelInv
    <3>1. \A e \in Dl : task[e].at = "idle"
      BY <1>1 DEF Models!Install, Models!Running
    <3>2. QED BY <2>2, <2>3, <3>1 DEF Alone, Models!Running
  <2>7. QED BY <2>3, <2>4, <2>5, <2>6 DEF ModelInv
<1>2. ASSUME NEW d \in Dl, Models!Respond(d) PROVE ModelInv'
  <2>1. PICK file \in Dl : /\ file = IF part = Models!NoFile THEN d ELSE part
                           /\ task' = [task EXCEPT ![d].at = "stream", ![d].file = file]
                           /\ part' = file /\ inode' = [inode EXCEPT ![file] = Models!Blank]
    BY <1>0, <1>2 DEF Models!Respond, ModelTypes
  <2>2. /\ UNCHANGED <<serial, status, final, active, bench>>
        /\ task[d].at = "fetch"
    BY <1>2 DEF Models!Respond
  <2>3. /\ task' \in [Dl -> Sources] /\ task[d] \in Sources
        /\ task'[d].at = "stream" /\ task'[d].file = file /\ task'[d].done = task[d].done
        /\ task'[d].good = task[d].good
        /\ \A e \in Dl \ {d} : task'[e] = task[e]
    BY <1>0, <2>1 DEF ModelTypes, Sources
  <2>4. Models!TypeOK'
    <3>1. ModelTypes' /\ ModelFrame'
      BY <1>0, <2>1, <2>2, <2>3 DEF ModelTypes, ModelFrame, Models!Blank
    <3>2. QED BY <3>1, ModelTypesTogether, PTL
  <2>5. Models!RowsAreDriven' /\ Models!ActiveHasFile'
    BY <2>2, <2>3 DEF ModelInv, Models!RowsAreDriven, Models!Running, Models!ActiveHasFile
  <2>6. serial => Alone'
    <3> SUFFICES ASSUME serial, Alone PROVE Alone'
      BY DEF ModelInv
    <3>1. \A e \in Dl \ {d} : task[e].at = "idle"
      BY <2>2 DEF Alone, Models!Running
    <3>2. file # final /\ (final # Models!NoFile => inode'[final] = Right)
      BY <1>0, <2>1, <2>2 DEF Alone, ModelTypes
    <3>3. task[d].done = 0
      BY <2>2 DEF Alone
    <3>4. \A e \in Dl : status'[e] = "none" => e # file
      BY <2>1, <2>2 DEF Alone, ModelInv, Models!RowsAreDriven, Models!Running
    <3>5. QED BY <2>1, <2>2, <2>3, <3>1, <3>2, <3>3, <3>4 DEF Alone, Models!Running
  <2>7. QED BY <2>2, <2>4, <2>5, <2>6 DEF ModelInv
<1>3. ASSUME NEW d \in Dl, Models!Chunk(d) PROVE ModelInv'
  <2> DEFINE half == IF task[d].good THEN "right" ELSE "wrong"
  <2>1. /\ task[d] \in Sources /\ task[d].at = "stream" /\ task[d].done \in 0..1
        /\ UNCHANGED <<serial, status, part, final, active, bench>>
        /\ task' = [task EXCEPT ![d].done = task[d].done + 1]
        /\ inode' = [inode EXCEPT ![task[d].file][task[d].done + 1] = half]
    BY <1>0, <1>3 DEF Models!Chunk, ModelTypes, Sources
  <2>2. /\ task' \in [Dl -> Sources]
        /\ task'[d].at = "stream" /\ task'[d].file = task[d].file
        /\ task'[d].done = task[d].done + 1 /\ task'[d].good = task[d].good
        /\ \A e \in Dl \ {d} : task'[e] = task[e]
    BY <1>0, <2>1 DEF ModelTypes, Sources
  <2>3. Models!TypeOK'
    <3>1. half \in {"hole", "right", "wrong"}
      OBVIOUS
    <3> HIDE DEF half
    <3>2. inode' \in [Dl -> [1..2 -> {"hole", "right", "wrong"}]]
      BY <1>0, <2>1, <3>1 DEF ModelTypes
    <3>3. ModelTypes' /\ ModelFrame'
      BY <1>0, <2>1, <2>2, <3>2 DEF ModelTypes, ModelFrame
    <3>4. QED BY <3>3, ModelTypesTogether, PTL
  <2>4. Models!RowsAreDriven' /\ Models!ActiveHasFile'
    BY <2>1, <2>2 DEF ModelInv, Models!RowsAreDriven, Models!Running, Models!ActiveHasFile
  <2>5. serial => Alone'
    <3> SUFFICES ASSUME serial, Alone PROVE Alone'
      BY DEF ModelInv
    <3>1. \A e \in Dl \ {d} : task[e].at = "idle"
      BY <2>1 DEF Alone, Models!Running
    <3>2. task[d].file = part /\ part \in Dl /\ part # final
      BY <2>1, DlAssumption DEF Alone
    <3>3. final # Models!NoFile => inode'[final] = Right
      BY <1>0, <2>1, <3>2 DEF Alone, ModelTypes
    <3>4. task'[d].good => \A h \in 1..task'[d].done : inode'[part][h] = "right"
      BY <1>0, <2>1, <2>2, <3>2 DEF Alone, ModelTypes
    <3>5. QED BY <2>1, <2>2, <3>1, <3>2, <3>3, <3>4 DEF Alone, Models!Running
  <2>6. QED BY <2>1, <2>3, <2>4, <2>5 DEF ModelInv
<1>4. ASSUME NEW d \in Dl, Models!Finish(d) PROVE ModelInv'
  <2>1. d \in Models!Running /\ task[d].at = "stream" /\ task[d].done = 2
        /\ UNCHANGED <<serial, inode, bench>>
    BY <1>4 DEF Models!Finish, Models!Running
  <2>2. CASE ~Models!Verified(d) \/ ~Models!Renamed
    <3>1. PICK outcome \in {"checksum_mismatch", "cancelled", "failed"} :
            Models!Settle(d, outcome) /\ part' = Models!NoFile /\ final' = final
            /\ active' = active
      BY <1>4, <2>2 DEF Models!Finish, Models!Caught
    <3>2. outcome \in Models!Terminal /\ outcome # "ready"
      BY DEF Models!Terminal
    <3>3. QED BY <2>1, <3>1, <3>2, SettleKeeps
  <2>3. CASE Models!Verified(d) /\ Models!Renamed
    <3>1. /\ Models!Settle(d, "ready") /\ final' = part /\ part' = Models!NoFile
          /\ active' = "downloaded" /\ part # Models!NoFile /\ task[d].good
      BY <1>4, <2>3 DEF Models!Finish, Models!Verified, Models!Renamed
    <3>2. serial => inode[part] = Right
      BY <1>0, <2>1, <3>1 DEF ModelInv, Alone, ModelTypes, Right
    <3>3. "ready" \in Models!Terminal
      BY DEF Models!Terminal
    <3>4. QED BY <2>1, <3>1, <3>2, <3>3, SettleKeeps
  <2>4. QED BY <2>2, <2>3
<1>5. ASSUME NEW d \in Dl, Models!Fail(d) PROVE ModelInv'
  <2>1. PICK outcome \in {"cancelled", "failed"} :
          Models!Settle(d, outcome) /\ part' = Models!NoFile
    BY <1>5 DEF Models!Fail, Models!Caught
  <2>2. /\ outcome \in Models!Terminal /\ outcome # "ready" /\ d \in Models!Running
        /\ UNCHANGED <<serial, inode, final, active, bench>>
    BY <1>5 DEF Models!Fail, Models!Terminal, Models!Running
  <2>3. QED BY <2>1, <2>2, SettleKeeps
<1>6. ASSUME NEW d \in Dl, Models!Cancel(d) PROVE ModelInv'
  <2>1. d \in Models!Running
    BY <1>0, <1>6 DEF Models!Cancel, Models!Finished, ModelTypes, ModelInv, Models!RowsAreDriven
  <2>2. /\ task' = [task EXCEPT ![d].aborted = TRUE]
        /\ UNCHANGED <<serial, status, inode, part, final, active, bench>>
    BY <1>6, <2>1 DEF Models!Cancel
  <2>3. task' \in [Dl -> Sources]
        /\ \A e \in Dl : /\ task'[e].at = task[e].at /\ task'[e].done = task[e].done
                         /\ task'[e].good = task[e].good /\ task'[e].file = task[e].file
    BY <1>0, <2>2 DEF ModelTypes, Sources
  <2>4. Models!TypeOK'
    <3>1. ModelTypes' /\ ModelFrame'
      BY <1>0, <2>2, <2>3 DEF ModelTypes, ModelFrame
    <3>2. QED BY <3>1, ModelTypesTogether, PTL
  <2>5. Models!RowsAreDriven' /\ Models!ActiveHasFile'
    BY <2>2, <2>3 DEF ModelInv, Models!RowsAreDriven, Models!Running, Models!ActiveHasFile
  <2>6. serial => Alone'
    BY <2>2, <2>3 DEF ModelInv, Alone, Models!Running
  <2>7. QED BY <2>2, <2>4, <2>5, <2>6 DEF ModelInv
<1>7. CASE \/ \E m \in {"registered", "ollama"} : Models!Use(m)
           \/ Models!BenchBegin \/ Models!BenchEnd
  <2>1. /\ UNCHANGED <<serial, status, task, inode, part, final>>
        /\ active' # "downloaded" \/ active' = active
    BY <1>7 DEF Models!Use, Models!BenchBegin, Models!BenchEnd
  <2>2. ModelFrame'
    BY <1>0, <1>7 DEF Models!Use, Models!BenchBegin, Models!BenchEnd, ModelFrame, Models!Loadable
  <2>3. Models!TypeOK'
    <3>1. ModelTypes'
      BY <1>0, <2>1 DEF ModelTypes
    <3>2. QED BY <2>2, <3>1, ModelTypesTogether, PTL
  <2>4. Models!RowsAreDriven' /\ Models!ActiveHasFile' /\ (serial => Alone')
    BY <2>1 DEF ModelInv, Models!RowsAreDriven, Models!Running, Models!ActiveHasFile, Alone
  <2>5. QED BY <2>1, <2>3, <2>4 DEF ModelInv
<1>8. CASE Models!Restart
  <2>1. /\ \A d \in Dl : /\ task'[d] = Models!Idle
                         /\ status'[d] = IF status[d] = "downloading" THEN "failed" ELSE status[d]
        /\ UNCHANGED <<serial, inode, part, final, active>>
    BY <1>0, <1>8 DEF Models!Restart, Models!Interrupted, ModelTypes, Models!Terminal
  <2>2. Models!Idle \in Sources /\ Models!Idle.at = "idle"
    BY DEF Models!Idle, Sources
  <2>3. Models!TypeOK'
    <3>1. ModelTypes'
      BY <1>0, <1>8, <2>1, <2>2 DEF Models!Restart, ModelTypes, Models!Terminal
    <3>2. ModelFrame'
      BY <1>0, <1>8, <2>1 DEF Models!Restart, ModelFrame, Models!Loadable
    <3>3. QED BY <3>1, <3>2, ModelTypesTogether, PTL
  <2>4. Models!RowsAreDriven' /\ Models!ActiveHasFile'
    BY <2>1, <2>2 DEF ModelInv, Models!RowsAreDriven, Models!Running, Models!ActiveHasFile
  <2>5. serial => Alone'
    BY <2>1, <2>2 DEF ModelInv, Alone, Models!Running
  <2>6. QED BY <2>1, <2>3, <2>4, <2>5 DEF ModelInv
<1>9. CASE UNCHANGED Models!vars
  <2>1. ModelTypes' /\ ModelFrame'
    BY <1>0, <1>9 DEF Models!vars, ModelTypes, ModelFrame
  <2>2. Models!TypeOK'
    BY <2>1, ModelTypesTogether, PTL
  <2>3. QED
    BY <1>9, <2>2 DEF Models!vars, ModelInv, Models!RowsAreDriven, Models!Running,
                      Models!ActiveHasFile, Alone
<1>10. QED
  BY <1>1, <1>2, <1>3, <1>4, <1>5, <1>6, <1>7, <1>8, <1>9 DEF Models!Next

-----------------------------------------------------------------------------
(* The theorems *)

\* The inductive invariant, for any number of sessions, calls and windows.
THEOREM GatewayInv == Spec => []Inv
<1>1. Init => Inv
  <2> SUFFICES ASSUME Init PROVE Inv
    OBVIOUS
  <2>1. /\ \A s \in Sess : row[s] = Unborn /\ events[s] = <<>> /\ hub[s] = Closed
        /\ \A c \in Clients : sock[c] = NoSocket
        /\ \A q \in Calls : call[q] = NoCall
    BY DEF Init
  <2>2. <<>> \in Seq(EventTypes) /\ Closed \in Entries
    BY DEF Closed, Entries
  <2>3. TableInv
    <3>1. TableTypes
      BY <2>2, UnbornRow DEF Init, TableTypes
    <3>2. EventsOwned /\ Kept
      BY <2>1 DEF EventsOwned, Kept
    <3>3. Early
      BY <2>1 DEF Early, Here, Unborn
    <3>4. QED BY <3>1, <3>2, <3>3 DEF TableInv
  <2>4. HubInv
    <3>1. HubTypes
      BY <2>2 DEF Init, HubTypes
    <3>2. HubMatchesSockets /\ Opened /\ Known
      BY <2>1, NamesAssumption DEF HubMatchesSockets, Opened, Known, Closed, NoSocket
    <3>3. QED BY <3>1, <3>2 DEF HubInv
  <2>5. ViewInv
    BY <2>1 DEF ViewInv, Quick, Told, Here, Unborn, ClientsInSync, NoSocket
  <2>6. LogInv
    <3>1. TranscriptMatchesCount
      BY <2>1 DEF TranscriptMatchesCount, Here, Unborn
    <3>2. {s \in Sess : row[s].at # "unborn"} = {}
      BY <2>1 DEF Unborn
    <3>3. QED BY <3>1, <3>2, FS_EmptySet DEF LogInv, Few
  <2>7. QED BY <2>3, <2>4, <2>5, <2>6 DEF Inv
<1>2. Inv /\ [Next]_vars => Inv'
  BY TableStep, HubStep, ViewStep, LogStep DEF Inv, ViewInv
<1>3. QED BY <1>1, <1>2, PTL DEF Spec

\* Type correctness.
THEOREM GatewayTypes == Spec => []TypeOK
<1>1. Inv => TypeOK
  BY DEF Inv, TableInv, HubInv, TableTypes, HubTypes, Rows, Waits, Entries, Sockets, TypeOK
<1>2. QED BY <1>1, GatewayInv, PTL

\* In whatever order windows connect, drop, are replayed to and are told, the hub
\* knows exactly those that are there and none is ahead of its session's numbers;
\* while turns cannot overlap each shows what the table holds (ws/session-events.ts).
THEOREM WindowsStayInSync == Spec => []WindowsInSync
<1>1. Inv => WindowsInSync
  BY DEF Inv, HubInv, ViewInv, WindowsInSync
<1>2. QED BY <1>1, GatewayInv, PTL

\* A session set up without transcripts leaves no event, although a turn may have
\* been waiting for its reply when anything else happened (insertEvent, exports).
THEOREM UnsavedStaysEmpty == Spec => []UnsavedLeavesNothing
<1>1. Inv => UnsavedLeavesNothing
  BY DEF Inv, TableInv, Kept, UnsavedLeavesNothing, FullExport, TextExport, Transcript
<1>2. QED BY <1>1, GatewayInv, PTL

\* Table, events and logbook agree, whatever turns overlap: no event outlives its
\* session, one that listens has turns left, while turns cannot overlap the transcript
\* has the turns the row counts, and buildProfile's loop over the debrief rows counts
\* each finished session once, in whatever order it sees them.
THEOREM TableAndEventsAgree == Spec => []SessionsAgree
<1>1. Inv => EventsOwned /\ TurnLimit /\ TranscriptMatchesCount
  BY DEF Inv, TableInv, Early, TurnLimit, LogInv
<1>2. Inv => ScoresCountOnce
  BY ScoresFold DEF Inv, TableInv, LogInv
<1>3. QED BY <1>1, <1>2, GatewayInv, GatewayTypes, PTL DEF SessionsAgree

\* "The seq counter must survive reconnects" (ws/session-events.ts): while a session
\* is played and the process lives, its numbers never start again.
THEOREM NumbersSurvive == Spec => SeqSurvives
<1> DEFINE Onward == \A s \in Sess : Playing(s) /\ Playing(s)' => hub'[s].seq >= hub[s].seq
<1>1. Inv /\ [Next]_vars => [~Restart => Onward]_vars
  <2> SUFFICES ASSUME Inv, Next, ~Restart, NEW s \in Sess, Playing(s), Playing(s)'
               PROVE  hub'[s].seq >= hub[s].seq
    OBVIOUS
  <2>0. hub[s] \in Entries /\ hub[s].seq \in Nat
    BY DEF Inv, HubInv, HubTypes, Entries
  <2>1. ASSUME NEW t \in Sess, NEW n \in Nat, NEW v, Broadcast(t, n, v)
        PROVE  hub'[s].seq >= hub[s].seq
    <3>1. CASE hub[t].open
      <4>1. hub' = [hub EXCEPT ![t].seq = hub[t].seq + n]
        BY <2>1, <3>1 DEF Broadcast
      <4>2. hub \in [Sess -> Entries] /\ hub[t] \in Entries
        BY DEF Inv, HubInv, HubTypes
      <4>3. CASE t = s
        <5>1. hub'[s].seq = hub[s].seq + n
          BY <4>1, <4>2, <4>3 DEF Entries
        <5>2. QED BY <2>0, <5>1
      <4>4. CASE t # s
        BY <2>0, <4>1, <4>2, <4>4
      <4>5. QED BY <4>3, <4>4
    <3>2. CASE ~hub[t].open
      BY <2>0, <2>1, <3>2 DEF Broadcast
    <3>3. QED BY <3>1, <3>2
  <2>2. ASSUME NEW t \in Sess, BroadcastAndClose(t), Here(t)' => row'[t].state = "Ended"
        PROVE  hub'[s].seq >= hub[s].seq
    BY <2>0, <2>2 DEF BroadcastAndClose, Playing, Inv, HubInv, HubTypes
  <2>3. ASSUME NEW t \in Sess, NEW read \in 0..(MaxTurns - 1), PersistTurn(t, read)
        PROVE  hub'[s].seq >= hub[s].seq
    <3>1. \/ UNCHANGED hub
          \/ \E v : Broadcast(t, 3, v)
          \/ BroadcastAndClose(t) /\ (Here(t)' => row'[t].state = "Ended")
      BY <2>3 DEF PersistTurn, Inv, TableInv, TableTypes, Rows, Here
    <3>2. QED BY <2>0, <2>1, <2>2, <3>1
  <2>4. ASSUME NEW t \in Sess, Request(t) PROVE hub'[s].seq >= hub[s].seq
    <3>1. CASE Create(t) \/ TestSession(t)
      <4>1. hub' = hub
        BY <3>1 DEF Create, TestSession
      <4>2. QED BY <2>0, <4>1
    <3>2. CASE Start(t)
      BY <2>1, <3>2 DEF Start
    <3>3. CASE Turn(t)
      <4>1. row[t].count \in 0..(MaxTurns - 1)
        BY <3>3, MaxTurnsAssumption DEF Turn, CanTurn, CanTransition, Inv, TableInv, TableTypes,
                Rows, States, Early, Here
      <4>2. QED BY <2>3, <3>3, <4>1 DEF Turn
    <3>4. CASE End(t) \/ Debrief(t)
      <4>1. BroadcastAndClose(t) /\ row'[t].state = "Ended"
        BY <3>4 DEF End, Debrief, Inv, TableInv, TableTypes, Rows
      <4>2. QED BY <2>2, <4>1
    <3>5. CASE Delete(t)
      <4>1. BroadcastAndClose(t) /\ ~Here(t)'
        BY <3>5 DEF Delete, Inv, TableInv, TableTypes, Rows, Here
      <4>2. QED BY <2>2, <4>1
    <3>6. QED BY <2>4, <3>1, <3>2, <3>3, <3>4, <3>5 DEF Request
  <2>5. ASSUME NEW q \in Calls, TurnFinish(q) PROVE hub'[s].seq >= hub[s].seq
    <3>1. call[q] \in Waits
      BY <2>5 DEF TurnFinish, Inv, TableInv, TableTypes
    <3>2. QED BY <2>3, <2>5, <3>1 DEF TurnFinish, Waits
  <2>6. ASSUME NEW c \in Clients, NEW t \in Sess, NEW replay \in BOOLEAN, Connect(c, t, replay)
        PROVE  hub'[s].seq >= hub[s].seq
    BY <2>6, ConnectKeeps DEF Inv, TableInv, ViewInv
  <2>7. ASSUME NEW c \in Clients, Drop(c) \/ OnClose(c) PROVE hub'[s].seq >= hub[s].seq
    BY <2>0, <2>7, LeavingKeeps DEF Inv, ViewInv
  <2>8. CASE UNCHANGED hub
    BY <2>0, <2>8
  <2>9. QED
    BY <2>4, <2>5, <2>6, <2>7, <2>8 DEF Next, TurnBegin, TurnTimeout, ClearPrivacy
<1>2. QED BY <1>1, GatewayInv, PTL DEF Spec, SeqSurvives

\* While turns cannot overlap, an ended session stays ended with its outcome.
THEOREM EndingsStay == Spec => EndedStays
<1> DEFINE Stays == \A s \in Sess : ~delay /\ Here(s) /\ row[s].state = "Ended" =>
                      row'[s].state = "Ended" /\ row'[s].ending = row[s].ending
<1>1. Inv /\ [Next]_vars => [Stays]_vars
  <2> SUFFICES ASSUME Inv, Next, NEW s \in Sess, ~delay, Here(s), row[s].state = "Ended"
               PROVE  row'[s].state = "Ended" /\ row'[s].ending = row[s].ending
    OBVIOUS
  <2>1. row \in [Sess -> Rows] /\ \A q \in Calls : call[q] = NoCall
    BY DEF Inv, TableInv, TableTypes, ViewInv, Quick
  <2>2. ASSUME NEW t \in Sess, Request(t)
        PROVE  row'[s].state = "Ended" /\ row'[s].ending = row[s].ending
    <3>1. CASE Create(t) \/ TestSession(t)
      BY <2>1, <3>1 DEF Create, TestSession, Here
    <3>2. CASE Start(t) \/ Turn(t) \/ End(t)
      <4>1. t # s
        BY <3>2 DEF Start, Turn, CanTurn, End, CanTransition
      <4>2. CASE Start(t) \/ End(t)
        BY <2>1, <4>1, <4>2 DEF Start, End
      <4>3. CASE Turn(t)
        BY <2>1, <4>1, <4>3 DEF Turn, PersistTurn
      <4>4. QED BY <3>2, <4>2, <4>3
    <3>3. CASE Debrief(t) \/ Delete(t)
      BY <2>1, <3>3 DEF Debrief, Delete, Rows
    <3>4. QED BY <2>2, <3>1, <3>2, <3>3 DEF Request
  <2>3. CASE ClearPrivacy
    BY <2>1, <2>3 DEF ClearPrivacy, Here, Rows
  <2>4. CASE UNCHANGED row
    BY <2>4
  <2>5. QED
    BY <2>1, <2>2, <2>3, <2>4
       DEF Next, TurnBegin, TurnFinish, TurnTimeout, Connect, Drop, OnClose, Restart
<1>2. QED BY <1>1, GatewayInv, PTL DEF Spec, EndedStays

\* What the models table says is so, for any number of downloads: a row shows progress
\* exactly while a call works on it, a model that is ready or active has its file, and,
\* while the player runs one download at a time, that file is the one that was verified
\* (runDownload, DELETE, initDb).
THEOREM ModelsStayHonest == Models!Spec => []ModelsAreHonest
<1>1. ModelInv => ModelsAreHonest
  <2>1. ModelInv => Models!ReadyIsIntact
    BY DEF ModelInv, Alone, Right, Models!ActiveHasFile, Models!ReadyIsIntact, Models!Intact
  <2>2. QED BY <2>1 DEF ModelInv, ModelsAreHonest
<1>2. Models!Spec => []ModelInv
  BY ModelInit, ModelStep, PTL DEF Models!Spec
<1>3. QED BY <1>1, <1>2, PTL

\* The outcome of a download is not rewritten, neither by a late cancellation nor by a
\* restart.
LEMMA OutcomesStay == Models!Spec => Models!OutcomeStays
<1> DEFINE Stays == \A d \in Dl : status[d] \in Models!Terminal => status'[d] = status[d]
<1>1. ModelInv /\ [Models!Next]_(Models!vars) => [Stays]_(Models!vars)
  <2> SUFFICES ASSUME ModelInv, Models!Next, NEW d \in Dl, status[d] \in Models!Terminal
               PROVE  status'[d] = status[d]
    OBVIOUS
  <2>0. ModelTypes /\ status[d] \notin {"none", "downloading"} /\ d \notin Models!Running
    BY ModelTypesTogether DEF ModelInv, Models!RowsAreDriven, Models!Terminal
  <2>1. ASSUME NEW e \in Dl, Models!Install(e) PROVE status'[d] = status[d]
    BY <2>0, <2>1 DEF Models!Install, ModelTypes
  <2>2. ASSUME NEW e \in Dl, Models!Finish(e) \/ Models!Fail(e) PROVE status'[d] = status[d]
    <3>1. e # d /\ \E outcome : status' = [status EXCEPT ![e] = outcome]
      BY <2>0, <2>2
         DEF Models!Finish, Models!Fail, Models!Caught, Models!Settle, Models!Running
    <3>2. QED BY <2>0, <3>1 DEF ModelTypes
  <2>3. ASSUME NEW e \in Dl, Models!Cancel(e) PROVE status'[d] = status[d]
    <3>1. ~Models!Finished(status[e]) /\ e # d
      BY <2>3 DEF Models!Cancel, Models!Finished
    <3>2. QED BY <2>0, <2>3, <3>1 DEF Models!Cancel, ModelTypes
  <2>4. CASE Models!Restart
    BY <2>0, <2>4 DEF Models!Restart, Models!Interrupted, Models!Terminal
  <2>5. CASE UNCHANGED status
    BY <2>5
  <2>6. QED
    BY <2>1, <2>2, <2>3, <2>4, <2>5
       DEF Models!Next, Models!Respond, Models!Chunk, Models!Use, Models!BenchBegin, Models!BenchEnd
<1>2. Models!Spec => []ModelInv
  BY ModelInit, ModelStep, PTL DEF Models!Spec
<1>3. QED BY <1>1, <1>2, PTL DEF Models!Spec, Models!OutcomeStays

\* A changed setting that needs a restart is never answered as live, and a refused
\* form changes nothing.
LEMMA RestartsAnnounced == Settings!Spec => Settings!RestartAnnounced
<1> DEFINE Announced ==
      /\ (\E k \in Keys \cap Settings!RestartRequired : stored'[k] # stored[k])
           => answer' = "restart"
      /\ answer' = "refused" => UNCHANGED stored
<1>1. Settings!Next => Announced
  <2> SUFFICES ASSUME Settings!Next PROVE Announced
    OBVIOUS
  <2>1. CASE Settings!Reset
    BY <2>1 DEF Settings!Reset
  <2>2. ASSUME NEW patch \in Settings!Patches, Settings!Put(patch) PROVE Announced
    <3>1. CASE answer' = "refused" /\ UNCHANGED stored
      BY <3>1
    <3>2. CASE /\ stored' = Settings!Saved(patch)
               /\ answer' = IF Settings!NeedsRestart(patch, stored) THEN "restart" ELSE "live"
      <4>1. ASSUME NEW k \in Keys \cap Settings!RestartRequired, stored'[k] # stored[k]
            PROVE  Settings!NeedsRestart(patch, stored)
        BY <3>2, <4>1 DEF Settings!Saved, Settings!NeedsRestart
      <4>2. QED BY <3>2, <4>1
    <3>3. QED BY <2>2, <3>1, <3>2 DEF Settings!Put
  <2>3. QED BY <2>1, <2>2 DEF Settings!Next
<1>2. [Settings!Next]_(Settings!vars) => [Announced]_(Settings!vars)
  BY <1>1
<1>3. QED BY <1>2, PTL DEF Settings!Spec, Settings!RestartAnnounced

\* What a client was told stays true, in the three groups of routes at once.
THEOREM AnswersKeepStanding == Spec /\ Models!Spec /\ Settings!Spec => AnswersStand
BY EndingsStay, NumbersSurvive, OutcomesStay, RestartsAnnounced DEF AnswersStand

\* The process that is model-checked, with its groups of routes side by side, is each
\* of the three specifications, so all of the above holds of it.
THEOREM GroupsAreSpecs == MCSpec => Spec /\ Models!Spec /\ Settings!Spec
<1>1. MCInit => Init /\ Models!Init /\ Settings!Init
  BY DEF MCInit
<1>2. [MCNext]_MCvars
        => [Next]_vars /\ [Models!Next]_(Models!vars) /\ [Settings!Next]_(Settings!vars)
  BY DEF MCNext, MCvars, ModelVars, SettingVars, Models!vars, Settings!vars
<1>3. QED BY <1>1, <1>2, PTL DEF MCSpec, Spec, Models!Spec, Settings!Spec
=============================================================================
