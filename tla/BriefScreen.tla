----------------------------- MODULE BriefScreen -----------------------------
(* The page between a scenario and its conversation (pages/ScenarioSetup.tsx):*)
(* how the form gets its defaults, what the player may change, and the        *)
(* request that creates the session.  The panel of the settings that stores   *)
(* the preferred voice (VoiceSettingsPanel.tsx) is here for what it shows.    *)
(*                                                                            *)
(* What is ready and which voices are approved differs from visit to visit;   *)
(* the stored preference may name a voice that is no longer offered.          *)
EXTENDS Naturals, Sequences, SequencesExt

CONSTANTS Voices,     \* voices that may be approved
          MaxStarts   \* bound: presses of the start button

VARIABLES page,      \* "library", "brief", "settings" or "conversation"
          stored,    \* local storage: the preferred voice, or None
          shown,     \* what the page has loaded, or None
          form,      \* the settings of the conversation to be
          panel,     \* the voice panel: the voice selected, or None
          starts,    \* requests to create a session under way
          hist       \* history: [pressed, refused, made, touched]
vars == <<page, stored, shown, form, panel, starts, hist>>

None == "none"
Lists == {SetToSeq(S) : S \in SUBSET Voices}
First(list) == IF list = <<>> THEN None ELSE list[1]

\* The brief and what is ready, as one load sees them.
Loads == [meters : BOOLEAN, voiced : BOOLEAN, llm : BOOLEAN, stt : BOOLEAN, tts : BOOLEAN,
          voices : Lists]
NotLoaded == [voices |-> <<>>, loaded |-> FALSE]

Blank(voice) ==
  [name |-> "blank", input |-> "text-only", tts |-> FALSE, voice |-> voice,
   meters |-> FALSE, seed |-> "auto"]
Fresh == [pressed |-> 0, refused |-> FALSE, made |-> {}, touched |-> FALSE]

Init ==
  /\ page = "library" /\ stored \in Voices \cup {None}
  /\ shown = NotLoaded /\ form = Blank(None) /\ panel = None
  /\ starts = {} /\ hist = Fresh

\* The page is left and its state dropped.
Unmounted == shown' = NotLoaded /\ form' = Blank(None)

-----------------------------------------------------------------------------
(* Loading the page *)

\* Bound: no start of an earlier visit is still under way.
OpenBrief ==
  /\ page \in {"library", "settings"} /\ starts = {} /\ page' = "brief"
  /\ shown' = NotLoaded /\ form' = Blank(stored) /\ hist' = Fresh /\ panel' = None
  /\ UNCHANGED <<stored, starts>>

\* Mutant: the voice of local storage is kept unchecked.
VoiceKept(prev, list) == IF prev # None THEN prev ELSE First(list)

\* The voice the form had if it is offered, else the stored one, else the first.
DefaultVoice(prev, list) ==
  IF prev \in ToSet(list) THEN prev
  ELSE IF stored \in ToSet(list) THEN stored ELSE First(list)

\* Mutant: the voice is on for every scenario written for it.
DefaultsVoiced(f, l) ==
  [f EXCEPT !.name = "role", !.tts = l.voiced, !.voice = DefaultVoice(f.voice, l.voices),
            !.input = IF l.stt THEN "voice" ELSE "text-only",
            !.meters = l.meters /\ @]

\* What the scenario and the runtime make of the form.
Defaults(f, l) ==
  [f EXCEPT !.name = "role", !.tts = l.tts /\ l.voiced, !.voice = DefaultVoice(f.voice, l.voices),
            !.input = IF l.stt THEN "voice" ELSE "text-only",
            !.meters = l.meters /\ @]

\* Scenario, health and voices have answered; health or voices that failed count
\* as not ready and as no voices.
Loaded ==
  /\ page = "brief" /\ shown = NotLoaded
  /\ \E l \in Loads :
       /\ shown' = [meters |-> l.meters, llm |-> l.llm, stt |-> l.stt, tts |-> l.tts,
                    voices |-> l.voices, loaded |-> TRUE]
       /\ form' = Defaults(form, l)
  /\ UNCHANGED <<page, stored, panel, starts, hist>>

-----------------------------------------------------------------------------
(* The controls *)

OnForm == page = "brief" /\ shown.loaded

Set(f) ==
  /\ OnForm /\ form' = f /\ hist' = [hist EXCEPT !.touched = TRUE]
  /\ UNCHANGED <<page, stored, shown, panel, starts>>

TypeName == \E n \in {"blank", "named"} : Set([form EXCEPT !.name = n])
PickInput ==
  OnForm /\ \E m \in {"text-only", "voice"} :
    (m = "text-only" \/ shown.stt) /\ Set([form EXCEPT !.input = m])
ToggleVoice == OnForm /\ shown.tts /\ Set([form EXCEPT !.tts = ~@])
PickVoice ==
  OnForm /\ form.tts /\ \E v \in ToSet(shown.voices) : Set([form EXCEPT !.voice = v])
ToggleMeters == OnForm /\ shown.meters /\ Set([form EXCEPT !.meters = ~@])
\* Difficulty, language and saving: whatever they are, the form is as valid as before.
PickRest == Set(form)
\* Typed, randomised or cleared; what is typed may be no whole number in range.
PickSeed == \E s \in {"auto", "whole", "outside"} : Set([form EXCEPT !.seed = s])

-----------------------------------------------------------------------------
(* Starting *)

\* validateSetup: the fields in error.
Errors(f, l) ==
  {e \in {"_form", "tts_enabled", "input_mode", "show_state_meters", "player_role_name", "seed"} :
     \/ e = "_form" /\ ~l.llm
     \/ e = "tts_enabled" /\ f.tts /\ ~l.tts
     \/ e = "input_mode" /\ f.input # "text-only" /\ ~l.stt
     \/ e = "show_state_meters" /\ f.meters /\ ~l.meters
     \/ e = "player_role_name" /\ f.name = "blank"
     \/ e = "seed" /\ f.seed = "outside"}

\* The controls that are not disabled.
Changeable(l) ==
  {"player_role_name", "seed", "input_mode"}
    \cup {c \in {"tts_enabled"} : l.tts} \cup {c \in {"show_state_meters"} : l.meters}

\* Mutant: the button stays enabled while a start is under way.
CanStartAgain == OnForm /\ Errors(form, shown) = {}

CanStart == OnForm /\ Errors(form, shown) = {} /\ starts = {}

\* A session request, with the voice only if there is one; it reaches the core
\* service at once, its answer comes later.
Start ==
  /\ CanStart /\ hist.pressed < MaxStarts
  /\ \E done \in BOOLEAN :
       /\ starts' = starts \cup {[n |-> hist.pressed + 1, done |-> done]}
       /\ hist' = [hist EXCEPT !.pressed = @ + 1,
                     !.made = IF done THEN @ \cup 
                       {[n |-> hist.pressed + 1,
                         fits |-> form.voice \in ToSet(shown.voices) \cup {None}]} ELSE @]
  /\ UNCHANGED <<page, stored, shown, form, panel>>

\* The conversation opens, wherever the player is by now; or the start failed,
\* perhaps only in its answer, and may be repeated.
StartAnswered ==
  \E s \in starts :
    /\ starts' = starts \ {s}
    /\ \/ s.done /\ page' = "conversation" /\ Unmounted /\ UNCHANGED hist
       \/ hist' = [hist EXCEPT !.refused = TRUE] /\ UNCHANGED <<page, shown, form>>
    /\ UNCHANGED <<stored, panel>>

Back ==
  /\ page = "brief" /\ page' = "library" /\ Unmounted
  /\ UNCHANGED <<stored, panel, starts, hist>>

-----------------------------------------------------------------------------
(* The voice panel of the settings *)

OpenSettings ==
  /\ page = "library" /\ page' = "settings" /\ panel' = None
  /\ UNCHANGED <<stored, shown, form, starts, hist>>

\* The voice the panel shows as preferred.
Preferred(list) == IF stored \in ToSet(list) THEN stored ELSE First(list)

VoicesListed ==
  /\ page = "settings" /\ panel = None
  /\ \E list \in Lists \ {<<>>} : panel' = Preferred(list)
  /\ UNCHANGED <<page, stored, shown, form, starts, hist>>

PreferVoice ==
  /\ page = "settings" /\ panel # None
  /\ \E v \in Voices : stored' = v /\ panel' = v
  /\ UNCHANGED <<page, shown, form, starts, hist>>

Next ==
  \/ OpenBrief \/ Loaded
  \/ TypeName \/ PickInput \/ ToggleVoice \/ PickVoice \/ ToggleMeters \/ PickSeed
  \/ PickRest
  \/ Start \/ StartAnswered \/ Back
  \/ OpenSettings \/ VoicesListed \/ PreferVoice

Spec == Init /\ [][Next]_vars

-----------------------------------------------------------------------------
\* A session is asked for with a voice that the page was offered, or with none:
\* a preference for a voice that is no longer approved never reaches the server.
OfferedVoice == \A m \in hist.made : m.fits

\* What the player has not touched is what the settings would show: the brief
\* and the voice panel agree on the preferred voice.
PreferredIsUsed ==
  OnForm /\ ~hist.touched => form.voice = Preferred(shown.voices)

\* No dead end: a control that is in error can be changed.  Only a missing model
\* has to be mended elsewhere.
ErrorsCanBeMended ==
  OnForm => Errors(form, shown) \subseteq Changeable(shown) \cup {"_form"}

\* One visit makes a second session only after a start that was reported failed.
SecondOnlyAfterFailure ==
  \A m, n \in hist.made : m.n # n.n => hist.refused

-----------------------------------------------------------------------------
(* The inductive invariant behind them *)

Forms == [name : {"blank", "role", "named"}, input : {"text-only", "voice"}, tts : BOOLEAN,
          voice : Voices \cup {None}, meters : BOOLEAN, seed : {"auto", "whole", "outside"}]
Shown == [meters : BOOLEAN, llm : BOOLEAN, stt : BOOLEAN, tts : BOOLEAN,
          voices : Lists, loaded : {TRUE}]
Typed ==
  /\ stored \in Voices \cup {None} /\ panel \in Voices \cup {None}
  /\ shown \in {NotLoaded} \cup Shown
  /\ form \in Forms
  /\ hist \in [pressed : Nat, refused : BOOLEAN, touched : BOOLEAN,
                made : SUBSET [n : Nat, fits : BOOLEAN]]

\* What cannot be changed is off, and the voice is an offered one.
FormFits ==
  OnForm => /\ form.tts => shown.tts
            /\ form.meters => shown.meters
            /\ form.voice \in ToSet(shown.voices) \cup {None}

\* A form without its defaults has the stored voice.
Unloaded == page = "brief" /\ shown = NotLoaded => form.voice = stored

\* A visit that saw no refusal has at most one session, and a form that could
\* start another has none.
OneMade ==
  /\ ~hist.refused => \A m, n \in hist.made : m.n = n.n
  /\ page = "brief" /\ starts = {} /\ ~hist.refused => hist.made = {}

Inv == Typed /\ FormFits /\ Unloaded /\ OneMade /\ OfferedVoice /\ PreferredIsUsed
=============================================================================
