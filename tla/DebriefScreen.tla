---------------------------- MODULE DebriefScreen ----------------------------
(* The debrief of a conversation (Debrief.tsx): generating it, falling back   *)
(* to the bare transcript, replaying, exporting, and the card that invites to *)
(* voice once, whose state is kept in local storage (privacyPrefs.ts).        *)
(*                                                                            *)
(* Two servers answer the page, one of them in a behaviour: convsim-core,     *)
(* which the app ships and the client's port is of, and the gateway, which    *)
(* stands in for it in development.  Their exports of a session differ.  The  *)
(* page reads that of the gateway, which is as packages/shared declares it.   *)
EXTENDS Naturals, FiniteSets

CONSTANTS Servers,     \* those that may answer, of "core" and "gateway"
          MaxVisits,   \* bound: visits to the page
          MaxRetries   \* bound: debriefs asked for again in one visit

VARIABLES page,     \* "away", "debrief", "brief", "library" or "conversation"
          edition,  \* [demo, saved, server]: demo edition; the session keeps a
                    \* transcript; who answers
          invite,   \* local storage: "pending", "dismissed" or "setup"
          ui,       \* the page's state
          calls,    \* requests under way
          hist      \* history
vars == <<page, edition, invite, ui, calls, hist>>

None == "none"
Fresh(n) == [phase |-> "loading", err |-> None, run |-> 0, card |-> invite = "pending",
             setup |-> FALSE, scenario |-> FALSE, turns |-> FALSE,
             replaying |-> FALSE, exporting |-> FALSE, visit |-> n]

Init ==
  /\ page = "away" /\ invite = "pending"
  /\ edition \in [demo : BOOLEAN, saved : BOOLEAN, server : Servers]
  /\ ui = Fresh(0) /\ calls = {}
  /\ hist = [shownIn |-> {}, failed |-> None, read |-> FALSE, varied |-> FALSE]

-----------------------------------------------------------------------------
(* What an export answers and what the page finds in it *)

Spoken == IF edition.saved THEN {"npc_opening", "player_turn", "npc_turn"} ELSE {}

GatewayExport == [session |-> {"setup", "scenario_id"}, events |-> Spoken]

\* The setup stands at the top and the turns beside the events, which are those
\* of the scenario.
CoreExport ==
  [setup |-> {"setup"}, scenario |-> {"id"}, turns |-> Spoken, events |-> {"scenario_event"}]

Export == IF edition.server = "gateway" THEN GatewayExport ELSE CoreExport

Finds(e, field) == "session" \in DOMAIN e /\ field \in e.session

\* Mutant: the setup is not taken from the export.
ReadsTurnsOnly(e) ==
  [ui EXCEPT !.scenario = @ \/ Finds(e, "scenario_id"),
             !.turns = e.events \cap {"player_turn", "npc_turn", "npc_opening"} # {}]

Reads(e) ==
  [ui EXCEPT !.setup = @ \/ Finds(e, "setup"), !.scenario = @ \/ Finds(e, "scenario_id"),
             !.turns = e.events \cap {"player_turn", "npc_turn", "npc_opening"} # {}]

-----------------------------------------------------------------------------
(* Generating the debrief *)

Ask(kind) == [k |-> kind, visit |-> ui'.visit, run |-> ui'.run]
\* The effect that asked was cleaned up: by a retry or by leaving the page.
Cancelled(c) == page # "debrief" \/ c.visit # ui.visit \/ c.run # ui.run
Gone(c) == page # "debrief" \/ c.visit # ui.visit

Open ==
  /\ page # "debrief" /\ ui.visit < MaxVisits /\ page' = "debrief"
  /\ ui' = Fresh(ui.visit + 1) /\ calls' = calls \cup {Ask("generate")}
  /\ hist' = [hist EXCEPT !.failed = None, !.read = FALSE] /\ UNCHANGED <<edition, invite>>

\* The card is on the page.
CardShown(u) == u.phase = "loaded" /\ u.card /\ ~edition.demo

\* Mutant: only the card's own buttons are remembered.
SeenNotKept(u) == invite

\* Mutant: what the page would show outside the demo counts as shown.
SeenInDemo(u) == IF u.phase = "loaded" /\ u.card THEN "dismissed" ELSE invite

\* The moment the card is shown it is remembered.
Seen(u) == IF CardShown(u) THEN "dismissed" ELSE invite

\* The debrief of the core does not say that the transcript is not saved.
AsksTranscript == edition.saved \/ edition.server = "core"

GenerateAnswered ==
  \E c \in calls :
    /\ c.k = "generate"
    /\ \/ Cancelled(c) /\ calls' = calls \ {c} /\ UNCHANGED <<ui, invite, hist>>
       \/ /\ ~Cancelled(c) /\ calls' = calls \ {c}
          /\ ui' = [ui EXCEPT !.phase = "error", !.err = "generate"]
          /\ hist' = [hist EXCEPT !.failed = "generate"] /\ UNCHANGED invite
       \/ /\ ~Cancelled(c)
          /\ ui' = [ui EXCEPT !.phase = "loaded"]
          /\ calls' = (calls \ {c}) \cup IF AsksTranscript THEN {Ask("load")} ELSE {}
          /\ hist' = [hist EXCEPT !.shownIn = IF CardShown(ui') THEN @ \cup {ui.visit} ELSE @]
          /\ invite' = Seen(ui')
    /\ UNCHANGED <<page, edition>>

\* The transcript of a debrief is extra: an export that fails is not shown.
LoadAnswered ==
  \E c \in calls :
    /\ c.k = "load" /\ calls' = calls \ {c}
    /\ \/ UNCHANGED <<ui, hist>>
       \/ /\ ~Cancelled(c)
          /\ ui' = Reads(Export)
          /\ hist' = [hist EXCEPT !.read = TRUE]
    /\ UNCHANGED <<page, edition, invite>>

Retry ==
  /\ page = "debrief" /\ ui.phase \in {"error", "transcript_only"} /\ ui.run < MaxRetries
  /\ ui' = [ui EXCEPT !.phase = "loading", !.err = None, !.run = @ + 1]
  /\ calls' = calls \cup {Ask("generate")}
  /\ UNCHANGED <<page, edition, invite, hist>>

-----------------------------------------------------------------------------
(* The transcript without a debrief *)

ShowTranscriptOnly ==
  /\ page = "debrief" /\ ui.phase = "error" /\ ui' = [ui EXCEPT !.phase = "loading"]
  /\ calls' = calls \cup {Ask("only")} /\ UNCHANGED <<page, edition, invite, hist>>

\* Mutant: the error of the debrief stays.
OnlyFailedStale == [ui EXCEPT !.phase = "error"]

OnlyFailed == [ui EXCEPT !.phase = "error", !.err = "export"]

OnlyAnswered ==
  \E c \in calls :
    /\ c.k = "only" /\ calls' = calls \ {c}
    /\ \/ Gone(c) /\ UNCHANGED <<ui, hist>>
       \/ ~Gone(c) /\ ui' = OnlyFailed /\ hist' = [hist EXCEPT !.failed = "export"]
       \/ /\ ~Gone(c) /\ hist' = [hist EXCEPT !.read = TRUE]
          /\ ui' = [Reads(Export) EXCEPT !.phase = "transcript_only"]
    /\ UNCHANGED <<page, edition, invite>>

-----------------------------------------------------------------------------
(* Replaying, exporting, leaving *)

OnPage == page = "debrief" /\ ui.phase \in {"loaded", "transcript_only"}
KnowsScenario == ui.phase = "loaded" \/ ui.scenario
Variation == IF KnowsScenario THEN "brief" ELSE "library"

\* A replay that is not the one its button names, though an export was read (history).
Varied == [hist EXCEPT !.varied = @ \/ hist.read]

ReplayVariation ==
  /\ OnPage /\ page' = Variation
  /\ hist' = IF page' = "brief" THEN hist ELSE Varied
  /\ UNCHANGED <<edition, invite, ui, calls>>

\* Without a setup this is a variation.
ReplaySame ==
  /\ page = "debrief" /\ ui.phase = "loaded" /\ ~ui.replaying
  /\ IF ui.setup
     THEN /\ ui' = [ui EXCEPT !.replaying = TRUE] /\ calls' = calls \cup {Ask("replay")}
          /\ UNCHANGED <<page, hist>>
     ELSE page' = Variation /\ hist' = Varied /\ UNCHANGED <<ui, calls>>
  /\ UNCHANGED <<edition, invite>>

\* The new conversation opens, or the brief, wherever the player is by now.
ReplayAnswered ==
  \E c \in calls :
    /\ c.k = "replay" /\ calls' = calls \ {c}
    /\ page' \in {"conversation", Variation}
    /\ ui' = IF Gone(c) THEN ui ELSE [ui EXCEPT !.replaying = FALSE]
    /\ UNCHANGED <<edition, invite, hist>>

\* Both exports are best effort: a failure is not shown.
ExportFile ==
  /\ OnPage /\ ~ui.exporting /\ ui' = [ui EXCEPT !.exporting = TRUE]
  /\ calls' = calls \cup {Ask("export")} /\ UNCHANGED <<page, edition, invite, hist>>
Exported ==
  \E c \in calls :
    /\ c.k = "export" /\ calls' = calls \ {c}
    /\ ui' = IF Gone(c) THEN ui ELSE [ui EXCEPT !.exporting = FALSE]
    /\ UNCHANGED <<page, edition, invite, hist>>

\* "Set up voice" leads to the settings, "Maybe later" closes the card.
AnswerInvite ==
  /\ page = "debrief" /\ CardShown(ui) /\ ui' = [ui EXCEPT !.card = FALSE]
  /\ \/ invite' = "setup" /\ page' = "away"
     \/ invite' = "dismissed" /\ page' = page
  /\ UNCHANGED <<edition, calls, hist>>

Leave ==
  /\ page = "debrief" /\ page' = "library" /\ UNCHANGED <<edition, invite, ui, calls, hist>>

Next ==
  \/ Open \/ GenerateAnswered \/ LoadAnswered \/ Retry
  \/ ShowTranscriptOnly \/ OnlyAnswered
  \/ ReplayVariation \/ ReplaySame \/ ReplayAnswered
  \/ ExportFile \/ Exported \/ AnswerInvite \/ Leave

Spec == Init /\ [][Next]_vars

-----------------------------------------------------------------------------
\* The invitation to voice is shown in one visit only, also if it is ignored.
InvitedOnce == Cardinality(hist.shownIn) <= 1

\* The demo, which never shows it, leaves it to be shown by the full edition.
DemoLeavesInvite == edition.demo => invite = "pending"

\* The error on the page is that of the request that failed last.
ErrorIsLast ==
  page = "debrief" /\ ui.phase = "error" => ui.err = hist.failed

\* Where the gateway answers: once the page has read an export, a replay with the
\* same setup is one, and a variation opens the brief of the same scenario.  Of the
\* core nothing is claimed: in its export the page finds neither setup nor scenario, a
\* replay with the same setup opens the brief of a new one, and a variation beside the
\* bare transcript opens the library.
ReplaysTheScenario == edition.server = "gateway" => ~hist.varied

-----------------------------------------------------------------------------
(* The inductive invariant behind them *)

Shape ==
  /\ ui = [phase |-> ui.phase, err |-> ui.err, run |-> ui.run, card |-> ui.card,
           setup |-> ui.setup, scenario |-> ui.scenario, turns |-> ui.turns,
           replaying |-> ui.replaying, exporting |-> ui.exporting, visit |-> ui.visit]
  /\ hist = [shownIn |-> hist.shownIn, failed |-> hist.failed, read |-> hist.read,
             varied |-> hist.varied]

\* After the visit that showed the card no page is opened with it.
ShownOnce ==
  /\ hist.shownIn # {} => invite # "pending"
  /\ \A v \in hist.shownIn : ui.card => v = ui.visit
  /\ \A v, w \in hist.shownIn : v = w
ErrorOfPage == ui.phase = "error" => ui.err = hist.failed
ReadsKeep == edition.server = "gateway" /\ hist.read => ui.setup /\ ui.scenario

Inv == Shape /\ ShownOnce /\ ErrorOfPage /\ ReadsKeep /\ DemoLeavesInvite /\ ReplaysTheScenario
=============================================================================
