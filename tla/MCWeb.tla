-------------------------------- MODULE MCWeb --------------------------------
(* The pages of the web client, one of them (part) in each behaviour: they    *)
(* share no state but the server and a few keys of local storage.  One set of *)
(* variables serves them all; those a page has no use for stay 0.             *)
EXTENDS SetupFlow, Integers, Sequences

CONSTANTS
  Null,                                      \* an empty field of the runtime panel
  Voices, MaxStarts,                         \* of the brief
  Packs, Workshop, Traits,                   \* of the library
  Dims, Scores, Catalog, Places, Records,    \* of the recommender
  Keys, Inputs, Offered,                     \* of the runtime panel
  Content, NewPack,                          \* of the settings
  Official, Local, Copy, Imported, Files,    \* of the workbench's editor
  Fields, InForm, Values,                    \* of its form
  Deltas, StartValue,                        \* of its test chat
  MaxPanels, MaxSessions, MaxTurns,          \* bounds of the test chat
  MaxVisits, MaxRetries,                     \* bounds: visits of a page, debriefs asked for again
  MaxChanges, MaxUpdates,                    \* bounds of the home page
  MaxAnswers,                                \* bound: requests of a page under way
  Sends                                      \* bound: by page, requests sent in all

ASSUME WebAssumption ==
  /\ IsFiniteSet(Voices) /\ Workshop \subseteq Packs
  /\ IsFiniteSet(Dims) /\ Dims \subseteq Int /\ Scores \subseteq Int
  /\ IsFiniteSet(Places) /\ Places \subseteq Nat
  /\ \A s \in Catalog : s.levels \subseteq 1..4
  /\ {"sessions", "recaps", "packs"} \subseteq DOMAIN Content
  /\ "absent" \notin Values
  /\ Deltas \subseteq Int /\ StartValue \in 0..100

VARIABLE part

Brief == INSTANCE BriefScreen WITH
  stored <- mirror, shown <- shot, form <- flow, panel <- guard, starts <- calls

Library == INSTANCE LibraryScreen WITH
  MaxCalls <- MaxAnswers, MaxSends <- Sends.library,
  list <- page, checks <- flow, sync <- shot, filter <- guard

Debrief == INSTANCE DebriefScreen WITH
  Servers <- {"core", "gateway"}, edition <- guard, invite <- mirror, ui <- flow

Advice == INSTANCE Recommender WITH profile <- page, shelf <- flow

Runtime == INSTANCE RuntimePanel WITH
  MaxCalls <- MaxAnswers, MaxSends <- Sends.runtime, panel <- page, form <- flow

Settings == INSTANCE SettingsScreen WITH
  MaxCalls <- MaxAnswers, MaxSends <- Sends.settings,
  rows <- page, ui <- flow, samples <- mirror

Bench == INSTANCE WorkbenchEditor WITH
  MaxCalls <- MaxAnswers, MaxSends <- Sends.bench, ui <- flow, edits <- mirror

Form == INSTANCE FormSync WITH
  content <- page, ed <- flow, seen <- shot, mute <- mirror

Test == INSTANCE TestChat WITH
  panel <- page, invalid <- mirror, sessions <- srv

Home == INSTANCE HomeScreen WITH
  MaxSends <- Sends.home, home <- page, timers <- ticking

-----------------------------------------------------------------------------
(* A small instance *)

\* Introductory, unrated, trained and advanced scenarios of three packs; one has a
\* default that is none of its levels.
Scenario(pack, drills, ladder, levels) ==
  [pack |-> pack, drills |-> drills, ladder |-> ladder, levels |-> levels, default |-> 2]
MCCatalog ==
  {Scenario("a", {}, "intro", {}), Scenario("a", {1}, "none", {2, 3}),
   Scenario("b", {1, 2, 3}, "practice", {3}), Scenario("c", {}, "stretch", {1, 2, 3, 4})}
MCInputs == {-15, -1, 0, 2570}
MCOffered == [llama_cpp |-> {"gguf"}, fake |-> {}]
MCContent == [sessions |-> {"s1", "s2"}, recaps |-> {"r1"}, packs |-> {"p1"}]
MCDeltas == {-60, 30}
MCSends == [library |-> 3, runtime |-> 2, settings |-> 2, bench |-> 4, home |-> 3]

-----------------------------------------------------------------------------
MCInit ==
  \/ part = "setup" /\ Init
  \/ part = "brief" /\ Brief!Init /\ polls = 0 /\ ticking = 0 /\ srv = 0
  \/ part = "library" /\ Library!Init /\ polls = 0 /\ ticking = 0 /\ mirror = 0
  \/ part = "debrief" /\ Debrief!Init /\ shot = 0 /\ polls = 0 /\ ticking = 0 /\ srv = 0
  \/ /\ part = "advice" /\ Advice!Init
     /\ shot = 0 /\ polls = 0 /\ ticking = 0 /\ calls = 0 /\ guard = 0 /\ mirror = 0
     /\ srv = 0 /\ hist = 0
  \/ /\ part = "runtime" /\ Runtime!Init
     /\ shot = 0 /\ polls = 0 /\ ticking = 0 /\ guard = 0 /\ mirror = 0
  \/ part = "settings" /\ Settings!Init /\ shot = 0 /\ polls = 0 /\ ticking = 0 /\ guard = 0
  \/ /\ part = "bench" /\ Bench!Init
     /\ page = 0 /\ shot = 0 /\ polls = 0 /\ ticking = 0 /\ guard = 0
  \/ /\ part = "form" /\ Form!Init
     /\ polls = 0 /\ ticking = 0 /\ calls = 0 /\ guard = 0 /\ srv = 0
  \/ /\ part = "test" /\ Test!Init
     /\ flow = 0 /\ shot = 0 /\ polls = 0 /\ ticking = 0 /\ guard = 0
  \/ part = "home" /\ Home!Init /\ flow = 0 /\ shot = 0 /\ polls = 0 /\ guard = 0 /\ mirror = 0

MCNext ==
  /\ UNCHANGED part
  /\ \/ part = "setup" /\ Next
     \/ part = "brief" /\ Brief!Next /\ UNCHANGED <<polls, ticking, srv>>
     \/ part = "library" /\ Library!Next /\ UNCHANGED <<polls, ticking, mirror>>
     \/ part = "debrief" /\ Debrief!Next /\ UNCHANGED <<shot, polls, ticking, srv>>
     \/ /\ part = "advice" /\ Advice!Next
        /\ UNCHANGED <<shot, polls, ticking, calls, guard, mirror, srv, hist>>
     \/ part = "runtime" /\ Runtime!Next /\ UNCHANGED <<shot, polls, ticking, guard, mirror>>
     \/ part = "settings" /\ Settings!Next /\ UNCHANGED <<shot, polls, ticking, guard>>
     \/ part = "bench" /\ Bench!Next /\ UNCHANGED <<page, shot, polls, ticking, guard>>
     \/ part = "form" /\ Form!Next /\ UNCHANGED <<polls, ticking, calls, guard, srv>>
     \/ part = "test" /\ Test!Next /\ UNCHANGED <<flow, shot, polls, ticking, guard>>
     \/ part = "home" /\ Home!Next /\ UNCHANGED <<flow, shot, polls, guard, mirror>>
MCSpec == MCInit /\ [][MCNext]_<<part, vars>>

-----------------------------------------------------------------------------
(* What every page keeps, said of the one that is explored. *)

\* A page catches up: with nothing under way it shows what the server, or the
\* other pane, holds, and says done or saved only where it is so.
PagesCatchUp ==
  /\ part = "library" => Library!ListCatchesUp
  /\ part = "debrief" => Debrief!ErrorIsLast
  /\ part = "runtime" => Runtime!ShownIsStored
  /\ part = "settings" => Settings!ListsCatchUp /\ Settings!DoneMeansGone
  /\ part = "bench" => Bench!CleanMeansSaved /\ Bench!VerdictIsOwn
  /\ part = "form" => Form!InSync
  /\ part = "test" => Test!InspectorShowsState

\* No page is stuck: what is busy has a call, a poll or a timer out, an error
\* can be mended, guard and wizard do not chase each other, and a restart of
\* the engine that went through brings it back.
NoPageIsStuck ==
  /\ part = "setup" => BusyIsCalled /\ PolledUntilDone /\ NoLoop
  /\ part = "brief" => Brief!ErrorsCanBeMended
  /\ part = "library" => Library!WaitingIsAsked
  /\ part = "settings" => Settings!BusyIsAnswered
  /\ part = "home" => Home!AsksUntilHealthy /\ Home!RestartBringsBack

\* No page does or undoes what the player did not ask for: a second session, a
\* pack deleted under its session, a set-up begun again, an invitation or a notice
\* repeated; in the workbench, edits dropped without a question that were there when
\* the pack or file was opened, or the read, copy or import asked for (edits begun
\* while such an answer is under way are dropped by it); and, where the gateway
\* answers, a replay other than the one asked for once an export was read (where the
\* core answers it is another one).
NothingUnasked ==
  /\ part = "setup" => FinishedStays
  /\ part = "brief" => Brief!SecondOnlyAfterFailure
  /\ part = "library" => Library!SessionsKeepTheirFiles
  /\ part = "debrief" => /\ Debrief!InvitedOnce /\ Debrief!DemoLeavesInvite
                         /\ Debrief!ReplaysTheScenario
  /\ part = "bench" => Bench!StandingEditsAreAsked
  /\ part = "form" => Form!FormEditKeepsRest
  /\ part = "test" => Test!OneTestSession
  /\ part = "home" => Home!DismissedStays

\* What is offered can be had: voices the server has, filters that find, levels
\* a scenario has and in the order the player needs, settings in range.
OffersHold ==
  /\ part = "brief" => Brief!OfferedVoice /\ Brief!PreferredIsUsed
  /\ part = "library" => Library!OptionsFind
  /\ part = "advice" => /\ Advice!AdvisedIsOffered /\ Advice!DrillsComeFirst
                        /\ Advice!BeginnersGetIntros
  /\ part = "runtime" => Runtime!ServerTakesIt
=============================================================================
