------------------------------ MODULE MicInput ------------------------------
(* The composer of the conversation screen: VoiceInput.tsx with its hooks     *)
(* useMicCapture (permission, MediaRecorder, time limit) and useVad (silence  *)
(* detection in hands-free mode), the MicButton and the transcript review.    *)
(* stop() of a MediaRecorder ends the recording at once and calls onstop      *)
(* later; getUserMedia and the upload answer later as well.                   *)
EXTENDS Naturals, FiniteSets

VARIABLES mic,    \* permission, tracks, recorder, time-limit timer
          box,    \* the composer: mode, upload, review, typed text, disabled
          ear,    \* silence detection and the backchannel ("mm-hm") sound
          mounted,
          leftAsking  \* history: left while the permission prompt was open
vars == <<mic, box, ear, mounted, leftAsking>>

TypeOK ==
  /\ mic \in [permission : {"unsupported", "idle", "requesting", "granted", "denied"},
              live : BOOLEAN, recorder : {"none", "recording", "stopping"},
              isRecording : BOOLEAN, limit : BOOLEAN]
  /\ box \in [textOnly : BOOLEAN, handsFree : BOOLEAN, stt : {"none", "out"},
              review : BOOLEAN, typed : BOOLEAN, disabled : BOOLEAN, acks : BOOLEAN]
  /\ ear \in [vad : {"off", "listening", "speech", "silence", "stopping"},
              ack : {"none", "timer", "playing"}]
  /\ mounted \in BOOLEAN /\ leftAsking \in BOOLEAN

Quiet == [vad |-> "off", ack |-> "none"]

\* The mode comes from the session setup, or from the saved VAD settings.
Init ==
  /\ \E p \in {"unsupported", "idle"} :
       mic = [permission |-> p, live |-> FALSE, recorder |-> "none",
              isRecording |-> FALSE, limit |-> FALSE]
  /\ \E t, h, a \in BOOLEAN :
       box = [textOnly |-> t, handsFree |-> h, stt |-> "none", review |-> FALSE,
              typed |-> FALSE, disabled |-> TRUE, acks |-> a]
  /\ ear = Quiet /\ mounted = TRUE /\ leftAsking = FALSE

-----------------------------------------------------------------------------
(* What is on screen *)

MicShown    == mounted /\ ~box.textOnly /\ ~box.review
MicEnabled  == MicShown /\ mic.permission = "granted" /\ box.stt = "none"
                 /\ (~box.disabled \/ mic.isRecording)
TextEnabled == /\ mounted /\ ~box.disabled
               /\ box.textOnly \/ (~mic.isRecording /\ ~box.review)
ModeShown   == MicShown /\ mic.permission = "granted"

\* Mutant: a hotkey starts while the last recording is still uploaded.
HotkeyStartsUploading == /\ mounted /\ ~box.textOnly /\ mic.permission = "granted"
                         /\ ~box.disabled /\ ~box.review

\* The Space key and the gamepad trigger start under the same conditions.
HotkeyStarts == /\ mounted /\ ~box.textOnly /\ mic.permission = "granted"
                /\ box.stt = "none" /\ ~box.disabled /\ ~box.review

HotkeyStops == /\ mounted /\ ~box.textOnly /\ mic.permission = "granted"
               /\ box.stt = "none" /\ (~box.disabled \/ mic.isRecording)

-----------------------------------------------------------------------------
(* The microphone *)

Ask ==
  /\ MicShown /\ mic.permission = "idle"
  /\ mic' = [mic EXCEPT !.permission = "requesting"]
  /\ UNCHANGED <<box, ear, mounted, leftAsking>>

\* getUserMedia answers, whether or not the page is still there.
AskAnswered ==
  /\ mic.permission = "requesting"
  /\ \/ mic' = [mic EXCEPT !.permission = "granted", !.live = TRUE]
     \/ \E p \in {"denied", "idle"} : mic' = [mic EXCEPT !.permission = p]
  /\ UNCHANGED <<box, ear, mounted, leftAsking>>

StopMic(m) == [m EXCEPT !.limit = FALSE,
                        !.recorder = IF @ = "recording" THEN "stopping" ELSE @]
\* Mutant: the recorder stops but the tracks stay open.
ReleaseRecorder(m) == StopMic(m)

Release(m) == [StopMic(m) EXCEPT !.live = FALSE]

StartPtt(m) ==
  IF m.permission # "granted" \/ ~m.live \/ m.isRecording THEN m
  ELSE [m EXCEPT !.recorder = "recording", !.isRecording = TRUE, !.limit = TRUE]

\* startRecording: listen for silence in hands-free mode, time the backchannel,
\* start the recorder.
StartRecording ==
  /\ ear' = [vad |-> IF ~mic.isRecording /\ box.handsFree /\ mic.live THEN "listening" ELSE ear.vad,
             ack |-> IF box.acks THEN "timer" ELSE ear.ack]
  /\ mic' = StartPtt(mic)

StopRecording == ear' = Quiet /\ mic' = StopMic(mic)

Press ==
  /\ \/ HotkeyStarts \/ MicEnabled
  /\ IF box.handsFree /\ mic.isRecording THEN StopRecording ELSE StartRecording
  /\ UNCHANGED <<box, mounted, leftAsking>>

\* Releasing the key, the button, or leaving the button with the pointer.
Lift ==
  /\ \/ HotkeyStops \/ MicEnabled
  /\ ~box.handsFree /\ StopRecording
  /\ UNCHANGED <<box, mounted, leftAsking>>

\* MAX_RECORDING_SECONDS.
TimeUp ==
  /\ mic.limit
  /\ mic' = StopMic(mic)
  /\ UNCHANGED <<box, ear, mounted, leftAsking>>

\* Mutant: no clean-up once the recording is over.
StoppedOnly ==
  /\ mic.recorder = "stopping"
  /\ mic' = [mic EXCEPT !.recorder = "none", !.isRecording = FALSE]
  /\ box' = [box EXCEPT !.stt = IF mounted THEN "out" ELSE @]
  /\ UNCHANGED <<ear, mounted, leftAsking>>

\* onstop: the audio goes to speech-to-text, the effect cleans up the rest.
Stopped ==
  /\ mic.recorder = "stopping"
  /\ mic' = [mic EXCEPT !.recorder = "none", !.isRecording = FALSE]
  /\ IF mounted THEN box' = [box EXCEPT !.stt = "out"] /\ ear' = Quiet
                ELSE UNCHANGED <<box, ear>>
  /\ UNCHANGED <<mounted, leftAsking>>

-----------------------------------------------------------------------------
(* Silence detection and backchannels *)

\* Silence only counts once speech has been heard.
Hear ==
  /\ \/ ear.vad \in {"listening", "silence"} /\ ear' = [ear EXCEPT !.vad = "speech"]
     \/ ear.vad = "speech" /\ ear' = [ear EXCEPT !.vad = "silence"]
  /\ UNCHANGED <<mic, box, mounted, leftAsking>>

SilenceLasted ==
  /\ ear.vad = "silence"
  /\ ear' = [ear EXCEPT !.vad = "stopping"]
  /\ mic' = StopMic(mic)
  /\ UNCHANGED <<box, mounted, leftAsking>>

Acknowledge ==
  /\ ear.ack = "timer" /\ ear' = [ear EXCEPT !.ack = "playing"]
  /\ UNCHANGED <<mic, box, mounted, leftAsking>>

-----------------------------------------------------------------------------
(* The transcript and the text box *)

SttAnswered ==
  /\ mounted /\ box.stt = "out"
  /\ \E heard \in BOOLEAN : box' = [box EXCEPT !.stt = "none", !.review = heard]
  /\ UNCHANGED <<mic, ear, mounted, leftAsking>>

\* Confirmed while the screen is busy, the words go to the text box instead.
Confirm ==
  /\ mounted /\ box.review /\ ~box.textOnly
  /\ box' = IF box.disabled THEN [box EXCEPT !.review = FALSE, !.typed = TRUE]
                            ELSE [box EXCEPT !.review = FALSE, !.disabled = TRUE]
  /\ UNCHANGED <<mic, ear, mounted, leftAsking>>

Dismiss ==
  /\ mounted /\ box.review /\ ~box.textOnly
  /\ box' = [box EXCEPT !.review = FALSE]
  /\ UNCHANGED <<mic, ear, mounted, leftAsking>>

Type ==
  /\ TextEnabled /\ ~box.typed /\ box' = [box EXCEPT !.typed = TRUE]
  /\ UNCHANGED <<mic, ear, mounted, leftAsking>>

SendText ==
  /\ TextEnabled /\ box.typed
  /\ box' = [box EXCEPT !.typed = FALSE, !.disabled = TRUE]
  /\ UNCHANGED <<mic, ear, mounted, leftAsking>>

\* The parent enables the composer between turns and disables it otherwise.
ParentTurns ==
  /\ mounted /\ box' = [box EXCEPT !.disabled = ~@]
  /\ UNCHANGED <<mic, ear, mounted, leftAsking>>

ToggleMode ==
  /\ ModeShown
  /\ box' = [box EXCEPT !.handsFree = ~@]
  /\ IF mic.isRecording THEN StopRecording ELSE UNCHANGED <<mic, ear>>
  /\ UNCHANGED <<mounted, leftAsking>>

\* "Text only": stop, then hand the microphone back for the rest of the session.
GoTextOnly ==
  /\ ModeShown
  /\ box' = [box EXCEPT !.textOnly = TRUE]
  /\ mic' = Release(mic)
  /\ ear' = IF mic.isRecording THEN Quiet ELSE ear
  /\ UNCHANGED <<mounted, leftAsking>>

Unmount ==
  /\ mounted /\ mounted' = FALSE
  /\ mic' = [Release(mic) EXCEPT !.isRecording = FALSE]
  /\ ear' = Quiet
  /\ leftAsking' = (mic.permission = "requesting")
  /\ UNCHANGED box

Next ==
  \/ Ask \/ AskAnswered \/ Press \/ Lift \/ TimeUp \/ Stopped
  \/ Hear \/ SilenceLasted \/ Acknowledge
  \/ SttAnswered \/ Confirm \/ Dismiss \/ Type \/ SendText \/ ParentTurns
  \/ ToggleMode \/ GoTextOnly \/ Unmount

Spec == Init /\ [][Next]_vars

-----------------------------------------------------------------------------
\* After the page is left, or the player went text-only, the microphone is
\* released.  The exception is a permission prompt still open when the page
\* goes: granting it then opens a stream nothing closes.
MicReleased == (~mounted \/ box.textOnly) /\ ~leftAsking => ~mic.live

\* One utterance at a time: recorded, uploaded or under review, never two.
OneUtterance ==
  mounted => Cardinality({k \in {"recording", "upload", "review"} :
                 \/ k = "recording" /\ mic.isRecording
                 \/ k = "upload" /\ box.stt = "out"
                 \/ k = "review" /\ box.review}) <= 1

\* Nothing that belongs to a recording outlives it: no silence detection that
\* would stop the next one, no time limit, no stray acknowledgment sound.
NothingOutlivesRecording ==
  ~mic.isRecording => ear = Quiet /\ ~mic.limit
=============================================================================
