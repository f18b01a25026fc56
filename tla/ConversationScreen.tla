------------------------- MODULE ConversationScreen -------------------------
(* The conversation screen of the web client (screens/Conversation.tsx): one  *)
(* page that talks to a session over REST and over a WebSocket whose frames   *)
(* and whose answers travel on different connections.  A turn is submitted    *)
(* with a deadline; past it the screen polls the transcript until the reply   *)
(* is found, the request answers, or the absolute ceiling is reached.         *)
(*                                                                            *)
(* Rows of a transcript are <<role, turn>>; a turn is known by the number of  *)
(* its submission.  The session itself is abstract here (Gateway models it):  *)
(* it commits a turn in one step, sends its frames, and answers.              *)
EXTENDS Naturals, Sequences, SequencesExt

CONSTANTS MaxTurns,      \* bound: submissions by the player
          MaxLoads,      \* bound: times the page is opened
          Polls          \* TURN_ABANDON_MS in reconcile rounds after the deadline

ASSUME ScreenAssumption ==
  MaxTurns \in Nat \ {0} /\ MaxLoads \in Nat \ {0} /\ Polls \in Nat \ {0}

VARIABLES ui,    \* what the page holds: phase, label, transcript rows, refs
          turn,  \* the handleSubmit call that is suspended, if any
          call,  \* the REST call of each kind that is out
          srv,   \* the session on the server
          ws,    \* frames under way to this page, in order
          hist   \* history: submissions, page loads, a call lost, a frame late
vars == <<ui, turn, call, srv, ws, hist>>

Turns  == 1..MaxTurns
Opening == <<"npc_opening", 0>>
Player(n) == <<"player", n>>
Npc(n) == <<"npc", n>>
Rows == {Opening} \cup {Player(n) : n \in Turns} \cup {Npc(n) : n \in 0..MaxTurns}

Phases == {"away", "starting", "active", "submitting", "ending", "ended", "error"}
Flows  == {"NotStarted", "PlayerTurnListening", "Ended"}
Frames == [type : {"state"}, flow : Flows] \cup [type : {"token", "final"}, n : 0..MaxTurns]
Stages == {"idle", "race", "asked", "asleep"}

FreshUi(phase) ==
  [phase |-> phase, flow |-> "NotStarted", ending |-> "none", rows |-> <<>>,
   num |-> 0, committed |-> FALSE, text |-> FALSE, err |-> "none"]
NoTurn == [stage |-> "idle", n |-> 0, ask |-> TRUE, polls |-> 0]
NoCall == [start |-> "none", turn |-> "none", wire |-> "none", fetch |-> "none",
           end |-> "none", copy |-> <<>>, flow |-> "none"]

Init ==
  /\ ui = FreshUi("away") /\ turn = NoTurn /\ call = NoCall /\ ws = <<>>
  /\ \E saved \in BOOLEAN :
       srv = [flow |-> "NotStarted", log |-> <<>>, jobs |-> {}, link |-> FALSE, saved |-> saved]
  /\ hist = [sent |-> 0, loads |-> 0, lost |-> FALSE, late |-> FALSE]

Mounted == ui.phase # "away"
Send(fs) == ws' = IF srv.link THEN ws \o fs ELSE ws
StateFrame(f) == [type |-> "state", flow |-> f]
TextFrame(t, n) == [type |-> t, n |-> n]

Busy == ui.phase \in {"starting", "submitting", "ending"}

\* isAwaitingNpc: nothing of the reply is in the transcript yet.
AwaitingNpc ==
  ui.phase = "submitting" /\ ~(ui.rows # <<>> /\ Last(ui.rows)[1] = "npc")

\* What tells the player why the composer is closed.
StartingShown  == ui.phase = "starting"
BubbleShown    == ui.text
TurnPanelShown == AwaitingNpc
FinishingShown == ui.phase \in {"submitting", "ending"} /\ ~ui.text /\ ~AwaitingNpc

\* The foot of the page: the ways on from an ended or failed session.
DebriefShown == ui.phase = "ended"
WayBackShown == ui.phase \in {"ended", "error"}

\* Mutant: the header button stays enabled while a turn is out.
CanEndBusy == ui.phase \in {"active", "submitting"}

\* What the page offers: the header button, the composer, the two ways out.
CanEnd == ui.phase = "active"

CanType == ui.phase = "active"
CanLeave == Mounted

-----------------------------------------------------------------------------
(* Opening and leaving the page *)

Load ==
  /\ ui.phase = "away" /\ hist.loads < MaxLoads
  /\ ui' = FreshUi("starting")
  /\ call' = [NoCall EXCEPT !.start = "sent"]
  /\ srv' = [srv EXCEPT !.link = TRUE]
  /\ ws' = <<StateFrame(srv.flow)>>
  /\ hist' = [hist EXCEPT !.loads = @ + 1]
  /\ UNCHANGED turn

\* Unmounting clears the timers and closes the socket; what is out is dropped.
Leave ==
  /\ CanLeave
  /\ ui' = FreshUi("away") /\ turn' = NoTurn /\ call' = NoCall /\ ws' = <<>>
  /\ srv' = [srv EXCEPT !.link = FALSE]
  /\ hist' = [hist EXCEPT !.lost = @ \/ call.turn \in {"sent", "ok"} \/ srv.jobs # {}]

\* The socket dies on its own; nothing reconnects it.
SocketLost ==
  /\ srv.link
  /\ srv' = [srv EXCEPT !.link = FALSE] /\ ws' = <<>>
  /\ UNCHANGED <<ui, turn, call, hist>>

\* The session starts, or refuses because it already was.
SrvStart ==
  /\ call.start = "sent"
  /\ IF srv.flow = "NotStarted"
     THEN /\ srv' = [srv EXCEPT !.flow = "PlayerTurnListening", !.log = <<Opening>>]
          /\ Send(<<StateFrame("PlayerTurnListening"), TextFrame("final", 0)>>)
          /\ call' = [call EXCEPT !.start = "ok"]
     ELSE /\ call' = [call EXCEPT !.start = "conflict"]
          /\ UNCHANGED <<srv, ws>>
  /\ UNCHANGED <<ui, turn, hist>>

StartAnswered ==
  /\ ui.phase = "starting"
  /\ \/ /\ call.start = "ok"
        /\ ui' = [ui EXCEPT !.phase = "active", !.flow = "PlayerTurnListening",
                            !.rows = <<Opening>>, !.num = 1]
        /\ call' = [call EXCEPT !.start = "none"]
     \/ /\ call.start = "conflict"
        /\ call' = [call EXCEPT !.start = "none", !.fetch = "sent"]
        /\ UNCHANGED ui
     \/ /\ call.start = "failed"
        /\ ui' = [ui EXCEPT !.phase = "error", !.err = "network"]
        /\ call' = [call EXCEPT !.start = "none"]
  /\ UNCHANGED <<turn, srv, ws, hist>>

\* The transcript endpoint: a copy of the rows, or none when they are not saved.
SrvTranscript ==
  /\ call.fetch = "sent"
  /\ call' = [call EXCEPT !.fetch = IF srv.saved THEN "copy" ELSE "withheld",
                          !.copy = IF srv.saved THEN srv.log ELSE <<>>,
                          !.flow = IF srv.saved THEN srv.flow ELSE "none"]
  /\ UNCHANGED <<ui, turn, srv, ws, hist>>

\* Mutant: the rows are replaced but turnNumRef is not.
HydratedUncounted(u) == [u EXCEPT !.rows = call.copy]

\* _hydrateTurnsFromServer: the rows are replaced and renumbered from one.
Hydrated(u) == [u EXCEPT !.rows = call.copy, !.num = Len(call.copy)]

FetchOver == [call EXCEPT !.fetch = "none", !.copy = <<>>, !.flow = "none"]

\* A reload of a session that had started: resume from its transcript.
Resumed ==
  /\ ui.phase = "starting" /\ call.fetch \in {"copy", "withheld", "failed"}
  /\ ui' = [IF call.fetch = "copy" THEN Hydrated(ui) ELSE ui EXCEPT
              !.phase = "active",
              !.flow = IF call.fetch = "copy" THEN call.flow ELSE "PlayerTurnListening"]
  /\ call' = FetchOver
  /\ hist' = [hist EXCEPT !.lost = @ \/ call.fetch # "copy" \/ srv.jobs # {}]
  /\ UNCHANGED <<turn, srv, ws>>

-----------------------------------------------------------------------------
(* A turn *)

Submit ==
  /\ CanType /\ hist.sent < MaxTurns
  /\ LET n == hist.sent + 1 IN
     /\ hist' = [hist EXCEPT !.sent = n, !.late = @ \/ ws # <<>>]
     /\ ui' = [ui EXCEPT !.rows = Append(@, Player(n)), !.num = @ + 1,
                         !.phase = "submitting", !.err = "none",
                         !.text = FALSE, !.committed = FALSE]
     /\ turn' = [NoTurn EXCEPT !.stage = "race", !.n = n]
  /\ call' = [call EXCEPT !.turn = "sent"]
  /\ UNCHANGED <<srv, ws>>

\* The session holds the turn or works on it.
Known(n) == n \in srv.jobs \/ Player(n) \in ToSet(srv.log)

\* The session takes the turn; an ended one refuses it.  A request reaches the
\* server before the deadline of the screen or never.
SrvTake ==
  /\ turn.stage = "race" /\ call.turn = "sent"
  /\ ~Known(turn.n) /\ call.wire = "none"
  /\ IF srv.flow = "PlayerTurnListening"
     THEN srv' = [srv EXCEPT !.jobs = @ \cup {turn.n}] /\ UNCHANGED call
     ELSE call' = [call EXCEPT !.wire = "failed"] /\ UNCHANGED srv
  /\ UNCHANGED <<ui, turn, ws, hist>>

Waiting(n) == turn.n = n /\ call.turn = "sent"

\* Player row and reply are stored together, then the frames go out, then the
\* answer of the request.
SrvCommit ==
  \E n \in srv.jobs, flow \in {"PlayerTurnListening", "Ended"} :
    /\ srv' = [srv EXCEPT !.jobs = @ \ {n}, !.flow = flow,
                          !.log = @ \o <<Player(n), Npc(n)>>]
    /\ Send(<<TextFrame("token", n), TextFrame("final", n), StateFrame(flow)>>)
    /\ call' = IF Waiting(n) THEN [call EXCEPT !.wire = IF flow = "Ended" THEN "over" ELSE "ok"]
                             ELSE call
    /\ UNCHANGED <<ui, turn, hist>>

SrvFail ==
  \E n \in srv.jobs :
    /\ srv' = [srv EXCEPT !.jobs = @ \ {n}]
    /\ call' = IF Waiting(n) THEN [call EXCEPT !.wire = "failed"] ELSE call
    /\ UNCHANGED <<ui, turn, ws, hist>>

\* The answer of the turn reaches the page, at any time or never.
Delivered ==
  /\ call.turn = "sent" /\ call.wire # "none"
  /\ call' = [call EXCEPT !.turn = call.wire, !.wire = "none"]
  /\ UNCHANGED <<ui, turn, srv, ws, hist>>

\* A call fails on the network, before or after the server acted on it.
CallLost ==
  \E k \in {"start", "turn", "fetch", "end"} :
    /\ call[k] \notin {"none", "failed"}
    /\ call' = [call EXCEPT ![k] = "failed", !.wire = IF k = "turn" THEN "none" ELSE @]
    /\ hist' = [hist EXCEPT !.lost = @ \/ k = "fetch" \/ (k = "turn" /\ Known(turn.n))]
    /\ UNCHANGED <<ui, turn, srv, ws>>

Answered == call.turn \in {"ok", "over", "failed"}

\* Mutant: a turn that went on leaves the phase to the next frame.
SettledLater(u, flow) == [u EXCEPT !.phase = IF flow = "Ended" THEN "ended" ELSE @]

\* The phase after a turn.
Settled(u, flow) == [u EXCEPT !.phase = IF flow = "Ended" THEN "ended" ELSE "active"]

\* Mutant: the reply is shown but not marked as committed.
ReplyUnmarked(u, n) == [u EXCEPT !.rows = Append(@, Npc(n)), !.num = @ + 1]

\* The reply of a turn joins the transcript, once: from the socket or from REST.
Reply(u, n) == [u EXCEPT !.rows = Append(@, Npc(n)), !.num = @ + 1, !.committed = TRUE]

\* What a filter by id leaves of the rows: those other than r, in their order.
Without(rows, r) ==
  LET kept[i \in 0..Len(rows)] ==
        IF i = 0 THEN <<>>
        ELSE IF rows[i] = r THEN kept[i - 1] ELSE Append(kept[i - 1], rows[i])
  IN kept[Len(rows)]

\* handleSubmit past the race: commit the reply unless the socket already did,
\* or report the error and take the player's row back.
Finish(result) ==
  /\ turn' = NoTurn
  /\ call' = [FetchOver EXCEPT !.turn = "none", !.wire = "none"]
  /\ IF result \in {"ok", "over"}
     THEN LET flow == IF result = "over" THEN "Ended" ELSE "PlayerTurnListening"
              told == IF ui.committed THEN ui ELSE Reply(ui, turn.n)
          IN ui' = [Settled(told, flow) EXCEPT
                      !.flow = flow, !.text = FALSE,
                      !.ending = IF flow = "Ended" THEN "named" ELSE @]
     ELSE ui' = [ui EXCEPT
                   !.err = IF result = "failed" THEN "network" ELSE "timeout",
                   !.text = FALSE, !.phase = "active",
                   !.rows = IF ui.committed THEN @ ELSE Without(@, Player(turn.n)),
                   !.num  = IF ui.committed THEN @ ELSE @ - 1]

TurnAnswered ==
  /\ turn.stage = "race" /\ Answered
  /\ Finish(call.turn)
  /\ UNCHANGED <<srv, ws, hist>>

\* Mutant: no ceiling.
SleepAlways(t) ==
  turn' = [t EXCEPT !.stage = "asleep", !.polls = @ + 1] /\ call' = FetchOver /\ UNCHANGED ui

\* Between two rounds the loop sleeps, unless the ceiling has been reached.
SleepOr(t) ==
  IF turn.polls >= Polls THEN Finish("timeout")
  ELSE turn' = [t EXCEPT !.stage = "asleep", !.polls = @ + 1] /\ call' = FetchOver /\ UNCHANGED ui

\* The head of the reconcile loop, run up to its next await.
LoopHead ==
  IF Answered THEN Finish(call.turn)
  ELSE IF ui.committed
  THEN ui' = Settled(ui, ui.flow) /\ turn' = NoTurn /\ call' = [FetchOver EXCEPT !.turn = "none", !.wire = "none"]
  ELSE IF turn.ask
  THEN turn' = [turn EXCEPT !.stage = "asked"] /\ call' = [call EXCEPT !.fetch = "sent"] /\ UNCHANGED ui
  ELSE SleepOr(turn)

\* TURN_ABANDON_MS is above what the core permits: no turn still runs when the
\* last round starts.
Quiet == turn.polls >= Polls => turn.n \notin srv.jobs

Deadline ==
  /\ turn.stage = "race" /\ ~Answered /\ LoopHead
  /\ UNCHANGED <<srv, ws, hist>>

\* Mutant: only the request wakes the loop, the timer was cleared.
WakeOnAnswer ==
  /\ turn.stage = "asleep" /\ Answered /\ LoopHead
  /\ UNCHANGED <<srv, ws, hist>>

\* The next round: the reconcile timer fires, or the request answers.
Wake ==
  /\ turn.stage = "asleep" /\ Quiet /\ LoopHead
  /\ UNCHANGED <<srv, ws, hist>>

\* Mutants: any transcript that ends with a reply; two rows ahead.
AheadAny == call.fetch = "copy" /\ call.copy # <<>> /\ Last(call.copy)[1] # "player"

AheadByTwo == /\ call.fetch = "copy" /\ call.copy # <<>>
              /\ Last(call.copy)[1] = "npc" /\ Len(call.copy) > ui.num + 1

\* _adoptServerTurnAfterDeadline: the server's copy is ahead of every row held.
Ahead == /\ call.fetch = "copy" /\ call.copy # <<>>
         /\ Last(call.copy)[1] = "npc" /\ Len(call.copy) > ui.num

Adopt ==
  /\ ui' = [Settled(Hydrated(ui), call.flow) EXCEPT
              !.committed = TRUE, !.text = FALSE, !.flow = call.flow]
  /\ turn' = NoTurn /\ call' = [FetchOver EXCEPT !.turn = "none", !.wire = "none"]

Polled ==
  /\ turn.stage = "asked" /\ call.fetch \in {"copy", "withheld", "failed"}
  /\ IF Ahead THEN Adopt
     ELSE IF Answered THEN Finish(call.turn)
     ELSE SleepOr([turn EXCEPT !.ask = @ /\ call.fetch # "withheld"])
  /\ UNCHANGED <<srv, ws, hist>>

-----------------------------------------------------------------------------
(* Ending, and the frames of the socket *)

End ==
  /\ CanEnd
  /\ ui' = [ui EXCEPT !.phase = "ending", !.err = "none"]
  /\ call' = [call EXCEPT !.end = "sent"]
  /\ UNCHANGED <<turn, srv, ws, hist>>

SrvEnd ==
  /\ call.end = "sent"
  /\ IF srv.flow = "Ended"
     THEN call' = [call EXCEPT !.end = "failed"] /\ UNCHANGED <<srv, ws>>
     ELSE /\ srv' = [srv EXCEPT !.flow = "Ended"]
          /\ Send(<<StateFrame("Ended")>>)
          /\ call' = [call EXCEPT !.end = "ok"]
  /\ UNCHANGED <<ui, turn, hist>>

EndAnswered ==
  /\ ui.phase = "ending" /\ call.end \in {"ok", "failed"}
  /\ ui' = IF call.end = "ok"
           THEN [ui EXCEPT !.phase = "ended", !.flow = "Ended", !.ending = "named"]
           ELSE [ui EXCEPT !.phase = "active", !.err = "network"]
  /\ call' = [call EXCEPT !.end = "none"]
  /\ UNCHANGED <<turn, srv, ws, hist>>

\* Mutant: the streamed text is cleared only by the reply of a turn under way.
FramedKeepingText(f) ==
  CASE f.type = "state" -> [ui EXCEPT !.flow = f.flow]
    [] f.type = "token" -> [ui EXCEPT !.text = TRUE]
    [] f.type = "final" ->
         IF ui.phase = "submitting" /\ ~ui.committed
         THEN [Reply(ui, f.n) EXCEPT !.text = FALSE] ELSE ui

\* What a frame does to the page.
Framed(f) ==
  CASE f.type = "state" -> [ui EXCEPT !.flow = f.flow]
    [] f.type = "token" -> [ui EXCEPT !.text = TRUE]
    [] f.type = "final" ->
         [IF ui.phase = "submitting" /\ ~ui.committed THEN Reply(ui, f.n) ELSE ui
            EXCEPT !.text = FALSE]

\* A frame arrives.  The reply of a turn under way is committed at once.
Recv ==
  /\ Mounted /\ ws # <<>>
  /\ ui' = Framed(Head(ws))
  /\ ws' = Tail(ws)
  /\ UNCHANGED <<turn, call, srv, hist>>

-----------------------------------------------------------------------------
Next ==
  \/ Load \/ Leave \/ SocketLost
  \/ SrvStart \/ StartAnswered \/ SrvTranscript \/ Resumed
  \/ Submit \/ SrvTake \/ SrvCommit \/ SrvFail \/ Delivered \/ CallLost
  \/ TurnAnswered \/ Deadline \/ Wake \/ Polled
  \/ End \/ SrvEnd \/ EndAnswered \/ Recv

\* Timers of the page fire and continuations run; the core bounds every turn.
Timers == Deadline \/ Wake \/ Polled \/ TurnAnswered
Spec   == Init /\ [][Next]_vars
TimedSpec == Spec /\ WF_vars(Timers) /\ WF_vars(SrvCommit \/ SrvFail)
FairSpec  == TimedSpec /\ WF_vars(SrvTranscript)

-----------------------------------------------------------------------------
TypeOK ==
  /\ ui \in [phase : Phases, flow : Flows, ending : {"none", "named"}, rows : Seq(Rows),
             num : Nat, committed : BOOLEAN, text : BOOLEAN,
             err : {"none", "network", "timeout"}]
  /\ turn \in [stage : Stages, n : 0..MaxTurns, ask : BOOLEAN, polls : 0..Polls]
  /\ call \in [start : {"none", "sent", "ok", "conflict", "failed"},
               turn : {"none", "sent", "ok", "over", "failed"},
               wire : {"none", "ok", "over", "failed"},
               fetch : {"none", "sent", "copy", "withheld", "failed"},
               end : {"none", "sent", "ok", "failed"},
               copy : Seq(Rows), flow : Flows \cup {"none"}]
  /\ srv \in [flow : Flows, log : Seq(Rows), jobs : SUBSET Turns, link : BOOLEAN,
              saved : BOOLEAN]
  /\ ws \in Seq(Frames)
  /\ hist \in [sent : 0..MaxTurns, loads : 0..MaxLoads, lost : BOOLEAN,
               late : BOOLEAN]

\* A page that lost no call, and got every frame before the next turn, shows exactly the transcript the
\* session holds whenever the composer is open (issue #489: the view was one
\* turn behind the session the core was running).
InStep ==
  srv.saved /\ ~hist.lost /\ ~hist.late /\ ui.phase \in {"active", "ended"}
    => ui.rows = srv.log

\* The page is waiting for a reply exactly until its row is on screen: the turn
\* panel and the rollback both read one from the other.
AwaitingUntilReply ==
  ui.phase = "submitting" => /\ ui.rows # <<>>
                             /\ ui.committed <=> Last(ui.rows)[1] = "npc"

\* A half-streamed reply is on screen only while its final frame can still come:
\* no bubble is left saying "Responding..." for ever while the socket lives.
PartialReplyIsTransient ==
  ui.text /\ srv.link => \E i \in 1..Len(ws) : ws[i].type = "final"

\* turnNumRef counts the rows held: the reconcile loop compares it with the
\* length of the server's transcript.
NumberMatchesRows == ui.num = Len(ui.rows)

\* The verdict "took too long" never takes back a turn the session holds, when
\* the last poll was answered by a session that saves its transcript and no
\* frame came late.
TimeoutDropsNothing ==
  [][ui'.err = "timeout" /\ ui.err # "timeout" /\ call.fetch = "copy"
       /\ ~hist.late /\ Player(turn.n) \in ToSet(srv.log)
     => Player(turn.n) \in ToSet(ui'.rows)]_vars

\* A turn that ends without an error ends on its own reply, however it arrived,
\* on a page that lost no call and received no frame late.
AnswerIsOwn ==
  [][~hist.lost /\ ~hist.late /\ ui.phase = "submitting"
       /\ ui'.phase \in {"active", "ended"} /\ ui'.err = "none"
       => Last(ui'.rows) = Npc(turn.n)]_vars

\* A closed composer always has a call or a timer out that will open it again,
\* and something on screen that says so; otherwise a way on is offered.
BusyIsExplained ==
  Mounted =>
    IF Busy
    THEN /\ StartingShown \/ BubbleShown \/ TurnPanelShown \/ FinishingShown
         /\ ui.phase = "starting"   => call.start # "none" \/ call.fetch # "none"
         /\ ui.phase = "submitting" => turn.stage # "idle"
         /\ ui.phase = "ending"     => call.end # "none"
    ELSE CanType \/ DebriefShown \/ WayBackShown

\* What the page shows is so: its rows are the session's, a half reply and the
\* wait for one are shown exactly while they are under way, and a closed
\* composer is explained.
ViewIsTrue ==
  /\ TypeOK /\ InStep /\ AwaitingUntilReply /\ PartialReplyIsTransient
  /\ NumberMatchesRows /\ BusyIsExplained

\* Once the page shows the session as ended it never opens the composer again.
EndedIsFinal == [][ui.phase = "ended" => ui'.phase \in {"ended", "away"}]_vars

\* A turn ends on its own reply, is given up only when the session does not hold
\* it, and never opens a session that was shown to have ended.
TurnsEndRight == TimeoutDropsNothing /\ AnswerIsOwn /\ EndedIsFinal

\* The screen never stays in "submitting": the turn lands, fails or is given up.
NeverPinned == ui.phase = "submitting" ~> ui.phase # "submitting"
=============================================================================
