------------------------------ MODULE NpcVoice ------------------------------
(* The NPC's spoken replies on the conversation screen: synthesized chunks    *)
(* arrive over the socket and play one after another, after a thinking pause; *)
(* the player may start to speak over them (barge-in), which fades them out   *)
(* and marks the next turn as an interruption.                                *)
(* An HTMLAudioElement is asynchronous: a failed load fires an error event    *)
(* and rejects play(); pausing one that still loads rejects play() later.     *)
EXTENDS Naturals, FiniteSets

CONSTANTS Chunks,    \* bound: how many chunks the session sends
          MaxFades   \* bound: fades running at once

VARIABLES page,   \* mounted, settings and what the page remembers of the player
          tts,    \* queue length, element held, thinking-pause timer, fades
          audio   \* the audio elements created so far
vars == <<page, tts, audio>>

Ids == 1..Chunks
Sounding == {i \in Ids : audio[i].st \in {"loading", "playing"}}

Init ==
  /\ \E bargeIn \in BOOLEAN :
       page = [mounted |-> TRUE, bargeIn |-> bargeIn, barged |-> FALSE,
               speech |-> "none", wrong |-> FALSE, hushed |-> FALSE, crossed |-> FALSE]
  /\ tts = [queue |-> 0, playing |-> 0, hold |-> FALSE, fades |-> 0, sent |-> 0, made |-> 0]
  /\ audio = [i \in Ids |-> [st |-> "none", advanced |-> FALSE, reject |-> FALSE]]

\* _playNextTtsChunk: take the next chunk, or remember that nothing plays.
PlayNext(t, a) ==
  IF t.queue = 0
  THEN tts' = [t EXCEPT !.playing = 0] /\ audio' = a
  ELSE LET id == t.made + 1 IN
       /\ tts' = [t EXCEPT !.queue = @ - 1, !.playing = id, !.made = id]
       /\ audio' = [a EXCEPT ![id].st = "loading"]

\* Pausing: silence at once, and a rejection of play() if it was still loading.
Paused(a, id) ==
  IF id = 0 \/ a[id].st \notin {"loading", "playing"} THEN a
  ELSE [a EXCEPT ![id].st = "over", ![id].reject = a[id].reject \/ a[id].st = "loading"]

\* An element starts while the rejection of a paused one is still under way.
Crossing == \E i \in Ids : audio[i].reject /\ ~audio[i].advanced
Started  == page' = [page EXCEPT !.crossed = @ \/ (tts'.made > tts.made /\ Crossing),
                                 !.hushed = @ /\ tts'.made = tts.made]

\* tts.audio_chunk: queued, and played when nothing plays or waits.
Chunk ==
  /\ page.mounted /\ tts.sent < Chunks
  /\ LET t == [tts EXCEPT !.queue = @ + 1, !.sent = @ + 1] IN
     IF tts.playing = 0 /\ ~tts.hold
     THEN \E pause \in BOOLEAN :
            IF pause THEN tts' = [t EXCEPT !.hold = TRUE] /\ UNCHANGED audio
                     ELSE PlayNext(t, audio)
     ELSE tts' = t /\ UNCHANGED audio
  /\ Started

HoldOver ==
  /\ tts.hold
  /\ PlayNext([tts EXCEPT !.hold = FALSE], audio)
  /\ Started

\* Mutant: every event of an element moves the queue.
AdvanceAgain(id, a) == PlayNext(tts, a)

\* One element moves the queue at most once, however many events it fires.
Advance(id, a) ==
  IF a[id].advanced THEN audio' = a /\ UNCHANGED tts
  ELSE PlayNext(tts, [a EXCEPT ![id].advanced = TRUE])

Loads  == \E i \in Ids : /\ audio[i].st = "loading"
                         /\ audio' = [audio EXCEPT ![i].st = "playing"]
                         /\ UNCHANGED <<page, tts>>
Plays  == \E i \in Ids : /\ audio[i].st = "playing"
                         /\ Advance(i, [audio EXCEPT ![i].st = "over"]) /\ Started
\* A load fails: the error event advances, the rejection comes as well.
Fails  == \E i \in Ids : /\ audio[i].st = "loading"
                         /\ Advance(i, [audio EXCEPT ![i].st = "over", ![i].reject = TRUE])
                         /\ Started
Rejects == \E i \in Ids : /\ audio[i].reject
                          /\ Advance(i, [audio EXCEPT ![i].reject = FALSE]) /\ Started

TtsActive == tts.playing # 0 \/ tts.hold

\* Mutant: the flag is set over the NPC but not reset otherwise.
BargeInKept ==
  IF ~page.bargeIn THEN page' = [page EXCEPT !.speech = "silence"] /\ UNCHANGED <<tts, audio>>
  ELSE /\ page' = [page EXCEPT !.barged = @ \/ TtsActive,
                               !.speech = IF TtsActive THEN "npc" ELSE "silence"]
       /\ UNCHANGED <<tts, audio>>

\* handleBargeIn: the flag always says whether THIS recording began over the NPC.
BargeIn ==
  IF ~page.bargeIn THEN page' = [page EXCEPT !.speech = "silence"] /\ UNCHANGED <<tts, audio>>
  ELSE /\ page' = [page EXCEPT !.barged = TtsActive,
                               !.speech = IF TtsActive THEN "npc" ELSE "silence",
                               !.hushed = TtsActive /\ tts.playing = 0]
       /\ tts' = IF ~TtsActive THEN tts
                 ELSE IF tts.playing = 0 THEN [tts EXCEPT !.queue = 0]
                 ELSE [tts EXCEPT !.fades = @ + 1]
       /\ UNCHANGED audio

RecordStart == page.mounted /\ tts.fades < MaxFades /\ BargeIn

\* Mutant: the volume reaches zero but the element is never paused.
FadeOverUnpaused ==
  /\ tts.fades > 0
  /\ tts' = [tts EXCEPT !.fades = @ - 1, !.playing = 0, !.queue = 0]
  /\ page' = [page EXCEPT !.hushed = page.speech # "none"]
  /\ UNCHANGED audio

\* _fadeTtsOut: at its end whatever is held is paused and the queue is dropped.
FadeOver ==
  /\ tts.fades > 0
  /\ tts' = [tts EXCEPT !.fades = @ - 1, !.playing = 0, !.queue = 0]
  /\ audio' = Paused(audio, tts.playing)
  /\ page' = [page EXCEPT !.hushed = page.speech # "none"]

\* The player throws the recording away, or retries it.
Discard ==
  /\ page.mounted /\ page.speech # "none"
  /\ page' = [page EXCEPT !.speech = "none", !.hushed = FALSE]
  /\ UNCHANGED <<tts, audio>>

\* Mutant: the thinking-pause timer is not cleared.
StoppedHolding(t) == [t EXCEPT !.queue = 0, !.playing = 0]

Stopped(t) == [t EXCEPT !.hold = FALSE, !.queue = 0, !.playing = 0]

\* handleSubmit of a spoken turn: consume the flag, stop what plays.
SubmitSpoken ==
  /\ page.mounted /\ page.speech # "none"
  /\ page' = [page EXCEPT !.barged = FALSE, !.speech = "none", !.hushed = FALSE,
                          !.wrong = @ \/ (page.barged /\ page.speech # "npc")]
  /\ tts' = Stopped(tts) /\ audio' = Paused(audio, tts.playing)

SubmitTyped ==
  /\ page.mounted
  /\ page' = [page EXCEPT !.barged = FALSE]
  /\ tts' = Stopped(tts) /\ audio' = Paused(audio, tts.playing)

Leave ==
  /\ page.mounted
  /\ page' = [page EXCEPT !.mounted = FALSE, !.hushed = FALSE]
  /\ tts' = Stopped(tts) /\ audio' = Paused(audio, tts.playing)

Next ==
  \/ Chunk \/ HoldOver \/ Loads \/ Plays \/ Fails \/ Rejects
  \/ RecordStart \/ FadeOver \/ Discard \/ SubmitSpoken \/ SubmitTyped \/ Leave

Spec == Init /\ [][Next]_vars

-----------------------------------------------------------------------------
\* Two chunks never sound at once: a load that fails twice over (error event and
\* rejected promise) still advances the queue once.  The exception is a chunk
\* that starts between the pause of a loading one and the rejection that pause
\* causes, where the late rejection starts another.
OneVoice == ~page.crossed => Cardinality(Sounding) <= 1

\* After the page is left nothing plays and nothing is about to.
SilentAfterLeave == ~page.mounted /\ ~page.crossed => Sounding = {} /\ ~tts.hold

\* Once a barge-in has faded the NPC out, it is silent until a new chunk starts.
BargeInSilences == page.hushed /\ ~page.crossed => Sounding = {}

\* A spoken turn is reported as an interruption only if its own recording began
\* while the NPC was speaking: a discarded barge-in does not mark a later one.
BargeInIsOwn == ~page.wrong
=============================================================================
