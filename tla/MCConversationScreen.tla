----------------------- MODULE MCConversationScreen -------------------------
(* The conversation screen and the parts mounted on it, explored side by side *)
(* in one run: each behaviour exercises one of them (part) while the others   *)
(* rest in an initial state.                                                  *)
EXTENDS ConversationScreen

CONSTANTS Chunks, MaxFades, Models, Lengths, MaxSamples, Longest

ASSUME ChunksAssumption == Chunks \in Nat
ASSUME WaitAssumption   == /\ Lengths \subseteq Nat /\ Longest \in Nat
                           /\ Models \cap {"none", "unknown"} = {}

VARIABLES part, page, tts, audio, mic, box, ear, mounted, leftAsking,
          store, key, estimate, elapsed

Voice == INSTANCE NpcVoice
Mic   == INSTANCE MicInput
Wait  == INSTANCE WaitPanel

Screen == <<ui, turn, call, srv, ws, hist>>
Sound  == <<page, tts, audio>>
Input  == <<mic, box, ear, mounted, leftAsking>>
Clock  == <<store, key, estimate, elapsed>>
all    == <<part, Screen, Sound, Input, Clock>>

MCInit ==
  /\ part \in {"screen", "voice", "mic", "wait"}
  /\ Init /\ Voice!Init /\ Mic!Init /\ Wait!Init
  /\ part # "screen" => srv.saved
  /\ part # "voice"  => page.bargeIn
  /\ part # "mic" => /\ mic.permission = "idle"
                     /\ ~box.textOnly /\ ~box.handsFree /\ ~box.acks

MCNext ==
  \/ part = "screen" /\ Next /\ UNCHANGED <<part, Sound, Input, Clock>>
  \/ part = "voice" /\ Voice!Next /\ UNCHANGED <<part, Screen, Input, Clock>>
  \/ part = "mic" /\ Mic!Next /\ UNCHANGED <<part, Screen, Sound, Clock>>
  \/ part = "wait" /\ Wait!Next /\ UNCHANGED <<part, Screen, Sound, Input>>

OnScreen(A) == part = "screen" /\ A /\ UNCHANGED <<part, Sound, Input, Clock>>
MCSpec == /\ MCInit /\ [][MCNext]_all
          /\ WF_all(OnScreen(Timers)) /\ WF_all(OnScreen(SrvCommit \/ SrvFail))
          /\ WF_all(OnScreen(SrvTranscript))

\* Player and character take turns to be heard: one voice at a time, silent when
\* spoken over or left, an interruption only where one was; one recording at a
\* time, of which nothing stays open behind it.
SpeechTakesTurns ==
  /\ Voice!OneVoice /\ Voice!SilentAfterLeave /\ Voice!BargeInSilences /\ Voice!BargeInIsOwn
  /\ Mic!TypeOK /\ Mic!MicReleased /\ Mic!OneUtterance /\ Mic!NothingOutlivesRecording

\* No step lets the wait panel contradict itself or forget what a named model took.
WaitIsHonest == [][Wait!PanelAgrees']_all /\ Wait!NamedSurvives
=============================================================================
