------------------------------- MODULE TestChat -------------------------------
(* The test chat of the workbench (TestChatPanel of CreatorWorkbench.tsx):    *)
(* temporary sessions of a pack, and an inspector that follows the session's  *)
(* state by adding up the changes each turn reports.                          *)
(*                                                                            *)
(* Requests take effect when they are sent; answers come later, may be lost,  *)
(* and come in any order.  The panel is mounted anew for each pack.           *)
EXTENDS Integers, FiniteSets

CONSTANTS Deltas,      \* what the model asks a turn to change
          StartValue,  \* the variable at the start
          MaxPanels,   \* bound: panels
          MaxSessions, \* bound: sessions started
          MaxTurns     \* bound: turns of a session

VARIABLES panel,     \* the mounted panel
          invalid,   \* the pack has validation errors
          sessions,  \* external: test sessions on the server
          calls,     \* requests under way
          hist       \* history
vars == <<panel, invalid, sessions, calls, hist>>

None == 0
Fresh(no) ==
  [no |-> no, status |-> "idle", id |-> None, value |-> 0,
   ending |-> FALSE, startErr |-> FALSE, turnErr |-> FALSE]

Clamped(n) == IF n < 0 THEN 0 ELSE IF n > 100 THEN 100 ELSE n

Init ==
  /\ panel = Fresh(1) /\ invalid \in BOOLEAN /\ sessions = <<>> /\ calls = {}
  /\ hist = [lost |-> {}]

Live(id) == id \in DOMAIN sessions /\ sessions[id].live
Killed(id) == IF Live(id) THEN [sessions EXCEPT ![id].live = FALSE] ELSE sessions

-----------------------------------------------------------------------------
(* Starting *)

\* startSession: the server makes a session, or refuses.
Started(ss) ==
  \/ /\ Cardinality(DOMAIN ss) < MaxSessions
     /\ LET id == Cardinality(DOMAIN ss) + 1 IN
        /\ sessions' = [i \in 1..id |-> IF i < id THEN ss[i]
                          ELSE [live |-> TRUE, value |-> StartValue, turns |-> 0, ended |-> FALSE]]
        /\ calls' = calls \cup {[k |-> "start", id |-> id, panel |-> panel.no, value |-> StartValue]}
  \/ /\ sessions' = ss
     /\ calls' = calls \cup {[k |-> "start", id |-> None, panel |-> panel.no, value |-> 0]}

Starting == [Fresh(panel.no) EXCEPT !.status = "starting"]

HandleStart ==
  /\ panel.status = "idle" /\ ~invalid /\ panel' = Starting
  /\ Started(sessions) /\ UNCHANGED <<invalid, hist>>

StartAnswered ==
  \E c \in calls :
    /\ c.k = "start" /\ calls' = calls \ {c}
    /\ \/ /\ c.id # None
          /\ IF c.panel = panel.no
             THEN /\ panel' = [panel EXCEPT !.status = "active", !.id = c.id, !.value = c.value]
                  /\ UNCHANGED hist
             ELSE hist' = [lost |-> hist.lost \cup {c.id}] /\ UNCHANGED panel
       \/ /\ panel' = IF c.panel = panel.no
                      THEN [panel EXCEPT !.status = "idle", !.startErr = TRUE] ELSE panel
          /\ hist' = [lost |-> hist.lost \cup {c.id}]
    /\ UNCHANGED <<invalid, sessions>>

-----------------------------------------------------------------------------
(* Discarding, resetting, leaving: the session is deleted on the server, and  *)
(* nobody waits for the answer *)

Idle == panel.status \in {"active", "ended"}

HandleDiscard ==
  /\ Idle /\ panel' = Fresh(panel.no) /\ sessions' = Killed(panel.id)
  /\ UNCHANGED <<invalid, calls, hist>>

\* Mutant: the session before is left on the server.
ResetFromKept == sessions

ResetFrom == Killed(panel.id)

HandleReset ==
  /\ Idle /\ panel' = Starting /\ Started(ResetFrom) /\ UNCHANGED <<invalid, hist>>

\* Another pack, or another screen: the effect's cleanup.
Unmount ==
  /\ panel.no < MaxPanels /\ panel' = Fresh(panel.no + 1) /\ sessions' = Killed(panel.id)
  /\ invalid' \in BOOLEAN /\ UNCHANGED <<calls, hist>>

\* The pack is validated again after an edit.
Validated ==
  /\ invalid' = ~invalid /\ UNCHANGED <<panel, sessions, calls, hist>>

-----------------------------------------------------------------------------
(* Turns *)

\* The server reports the change it made, not the one that was asked for.
HandleSend ==
  /\ panel.status = "active" /\ panel.id # None
  /\ panel' = [panel EXCEPT !.status = "sending", !.turnErr = FALSE]
  /\ LET s == sessions[panel.id] IN
     \/ /\ Live(panel.id) /\ s.turns < MaxTurns
        /\ \E d \in Deltas, over \in BOOLEAN :
             LET value == Clamped(s.value + d) IN
             /\ sessions' = [sessions EXCEPT ![panel.id] =
                               [s EXCEPT !.value = value, !.turns = @ + 1, !.ended = over]]
             /\ calls' = calls \cup {[k |-> "turn", id |-> panel.id, panel |-> panel.no,
                                      ok |-> TRUE, delta |-> value - s.value, ended |-> over]}
     \/ /\ calls' = calls \cup {[k |-> "turn", id |-> panel.id, panel |-> panel.no,
                                 ok |-> FALSE, delta |-> 0, ended |-> FALSE]}
        /\ UNCHANGED sessions
  /\ UNCHANGED <<invalid, hist>>

\* Mutant: the change is set, not added.
InspectedSet(delta) == delta

\* The inspector adds the change, within 0..100.
Inspected(delta) == Clamped(panel.value + delta)

\* An answer that was lost after the turn leaves the inspector behind (history).
TurnAnswered ==
  \E c \in calls :
    /\ c.k = "turn" /\ calls' = calls \ {c}
    /\ \/ /\ c.ok /\ UNCHANGED hist
          /\ panel' = IF c.panel # panel.no THEN panel
                      ELSE [panel EXCEPT !.value = Inspected(c.delta),
                              !.status = IF c.ended THEN "ended" ELSE "active",
                              !.ending = c.ended]
       \/ /\ panel' = IF c.panel # panel.no THEN panel
                      ELSE [panel EXCEPT !.turnErr = TRUE, !.status = "active"]
          /\ hist' = [lost |-> IF c.ok THEN hist.lost \cup {c.id} ELSE hist.lost]
    /\ UNCHANGED <<invalid, sessions>>

Next ==
  \/ HandleStart \/ StartAnswered \/ HandleDiscard \/ HandleReset \/ Unmount \/ Validated
  \/ HandleSend \/ TurnAnswered

Spec == Init /\ [][Next]_vars

-----------------------------------------------------------------------------
\* Between turns the inspector shows the session's state, unless an answer was lost.
InspectorShowsState ==
  panel.status \in {"active", "ended"} /\ panel.id \notin hist.lost
    => /\ Live(panel.id) /\ panel.value = sessions[panel.id].value
       /\ panel.status = "ended" <=> sessions[panel.id].ended

\* Of the sessions the panel heard of, the server keeps the one on the page only.
OneTestSession ==
  \A id \in DOMAIN sessions \ hist.lost :
    Live(id) => id = panel.id \/ \E c \in calls : c.k = "start" /\ c.id = id

-----------------------------------------------------------------------------
(* The inductive invariant behind them *)

Session == [live : BOOLEAN, value : 0..100, turns : Nat, ended : BOOLEAN]
Shape ==
  /\ Cardinality(DOMAIN sessions) \in Nat
  /\ sessions \in [1..Cardinality(DOMAIN sessions) -> Session]
  /\ panel = [no |-> panel.no, status |-> panel.status, id |-> panel.id, value |-> panel.value,
              ending |-> panel.ending, startErr |-> panel.startErr, turnErr |-> panel.turnErr]
  /\ panel.no \in Nat /\ panel.value \in Int /\ hist = [lost |-> hist.lost]
  /\ \A c \in calls : c.k \in {"start", "turn"} /\ c.panel \in 0..panel.no

\* The panel has a session from the answer to the start on.
HasSession ==
  IF panel.status \in {"idle", "starting"} THEN panel.id = None
  ELSE panel.status \in {"active", "sending", "ended"} /\ panel.id \in DOMAIN sessions

\* A session whose start is not answered yet is as the server made it, and no
\* other start made it; the panel waits for one start.
StartKept(c) ==
  /\ c.panel = panel.no => panel.status = "starting"
  /\ c.id # None => /\ Live(c.id) /\ c.id # panel.id
                    /\ sessions[c.id].value = c.value /\ ~sessions[c.id].ended
StartsDiffer(c, d) ==
  /\ c.id = d.id => c.id = None
  /\ c.panel = panel.no => d.panel # panel.no

\* The inspector is behind the session by the turn on its way.
TurnKept(c) ==
  c.panel = panel.no =>
    /\ panel.status = "sending" /\ c.id = panel.id
    /\ c.ok => c.delta \in Int
    /\ c.id \notin hist.lost =>
         /\ Live(c.id)
         /\ sessions[c.id].value = IF c.ok THEN panel.value + c.delta ELSE panel.value
         /\ sessions[c.id].ended <=> c.ok /\ c.ended
    /\ \A d \in calls \ {c} : d.k = "turn" => d.panel # panel.no

CallsKept ==
  \A c \in calls :
    /\ c.k = "turn" => TurnKept(c)
    /\ c.k = "start" => /\ StartKept(c)
                        /\ \A d \in calls \ {c} : d.k = "start" => StartsDiffer(c, d)

Inv == Shape /\ HasSession /\ CallsKept /\ InspectorShowsState /\ OneTestSession
=============================================================================
