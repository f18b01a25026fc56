----------------------------- MODULE HomeScreen -------------------------------
(* The home page of the web client (Home.tsx) with the hooks behind it: the   *)
(* health poll (useApiHealth.ts), the pack count (usePackCount.ts), the       *)
(* update notice (useAppUpdate.ts); restarting the engine's sidecar and       *)
(* restoring the official packs.                                              *)
(*                                                                            *)
(* A request takes effect at some time after it was sent, if at all, and its  *)
(* answer may be lost.  Answers come in any order; that of a health check may *)
(* also be old when it comes.                                                 *)
EXTENDS Naturals, FiniteSets

CONSTANTS MaxVisits,    \* bound: times the page is opened
          MaxSends,     \* bound: rounds of requests after the first
          MaxChanges,   \* bound: times the engine breaks or mends
          MaxUpdates    \* bound: updates published

VARIABLES home,     \* the page's state
          timers,   \* poll timers that run, by number
          calls,    \* requests under way
          srv,      \* external: the engine, its sidecar and the latest update
          hist      \* bounds and history
vars == <<home, timers, calls, srv, hist>>

None == "none"
Unknown == 9    \* no count is that large here
Lost == <<>>
Waiting == <<0>>
Steps == {"status", "stop", "start"}

Request(k, path) ==
  [k |-> k, n |-> hist.sent + 1, visit |-> home'.visit, path |-> path, got |-> Waiting]
Sent == [hist EXCEPT !.sent = @ + 1]
Room == hist.sent < MaxSends
Of(kinds) == {c \in calls : c.k \in kinds}
\* An answer to a page that was left changes nothing there.
Own(k) == {c \in Of({k}) : c.visit = home.visit}

Opened(v) ==
  [visit |-> v, health |-> "loading", llm |-> FALSE, error |-> FALSE, count |-> Unknown,
   restarting |-> FALSE, reseed |-> "idle", update |-> "checking", version |-> 0,
   timeoutId |-> 0]
Hooks == {"health", "packs", "update"}

Init ==
  /\ srv \in [ok : BOOLEAN, model : {"m"}, crashed : BOOLEAN, packs : {0}, version : 0..1]
  /\ home = Opened(1) /\ timers = {}
  /\ calls = {[k |-> k, n |-> 0, visit |-> 1, path |-> None, got |-> Waiting] : k \in Hooks}
  /\ hist = [sent |-> 0, changes |-> 0, dismissed |-> 0, model |-> None, alone |-> TRUE]

\* Leaving the page cancels its poll and drops the answers it waited for, not what it
\* has begun.
Visit ==
  /\ home.visit < MaxVisits /\ Room
  /\ home' = Opened(home.visit + 1) /\ timers' = {} /\ UNCHANGED srv
  /\ calls' = Of(Steps \cup {"reseed"}) \cup {Request(k, None) : k \in Hooks} /\ hist' = Sent

-----------------------------------------------------------------------------
(* The engine *)

Effect(c) ==
  CASE c.k = "stop" -> [srv EXCEPT !.model = None, !.crashed = FALSE]
    [] c.k = "start" -> [srv EXCEPT !.model = c.path, !.crashed = FALSE]
    [] c.k = "reseed" -> [srv EXCEPT !.packs = 1]
    [] OTHER -> srv
\* The call is answered, or it fails before or after it took effect.
Succeeds(c) == srv' = Effect(c)
Fails(c) == srv' \in {srv, Effect(c)}
Read(c, got) == calls' = (calls \ {c}) \cup {[c EXCEPT !.got = got]}
ReadHealth ==
  \E c \in Of({"health"}) :
    /\ c.got = Waiting /\ UNCHANGED <<home, timers, srv, hist>>
    /\ \/ Read(c, Lost)
       \/ Read(c, <<srv.ok, srv.model # None /\ ~srv.crashed, srv.crashed>>)
\* The sidecar crashes, the engine degrades or mends, an update is published.
Change ==
  /\ hist.changes < MaxChanges /\ hist' = [hist EXCEPT !.changes = @ + 1]
  /\ \/ srv.model # None /\ ~srv.crashed /\ srv' = [srv EXCEPT !.crashed = TRUE]
     \/ srv' = [srv EXCEPT !.ok = ~@]
     \/ srv.version < MaxUpdates /\ srv' = [srv EXCEPT !.version = @ + 1]
  /\ UNCHANGED <<home, timers, calls>>

-----------------------------------------------------------------------------
(* useApiHealth *)

\* Mutant: an engine that answers is asked no more.
AsksAgainWhenLost(got) == got = Lost

\* Asked again in a while, until the answer is "ok".
AsksAgain(got) == got = Lost \/ ~got[1]

\* A check clears the timer set last, run out or not; an older one goes on.
Cleared == timers \ {home.timeoutId}
Timed(h) == [h EXCEPT !.timeoutId = @ + 1]
HealthAnswered ==
  \E c \in Own("health") :
    /\ c.got # Waiting /\ calls' = calls \ {c} /\ UNCHANGED <<srv, hist>>
    /\ LET h == IF c.got = Lost
                THEN [home EXCEPT !.health = "unavailable", !.llm = FALSE, !.error = FALSE]
                ELSE [home EXCEPT !.health = IF c.got[1] THEN "healthy" ELSE "unavailable",
                                  !.llm = c.got[2], !.error = c.got[3]]
       IN IF AsksAgain(c.got)
          THEN home' = Timed(h) /\ timers' = timers \cup {h.timeoutId + 1}
          ELSE home' = h /\ UNCHANGED timers
TimerFires ==
  \E t \in timers :
    /\ Room /\ timers' = Cleared \ {t} /\ UNCHANGED <<home, srv>>
    /\ calls' = calls \cup {Request("health", None)} /\ hist' = Sent

-----------------------------------------------------------------------------
(* handleRestartSidecar, from the card that shows the engine's error *)

Restart ==
  /\ home.error /\ ~home.restarting /\ Room
  /\ home' = [home EXCEPT !.restarting = TRUE] /\ UNCHANGED <<timers, srv>>
  /\ calls' = calls \cup {Request("status", None)}
  /\ hist' = [Sent EXCEPT !.model = srv.model, !.alone = Of(Steps) = {}]
Untroubled(ok) == hist' = IF ok THEN hist ELSE [hist EXCEPT !.alone = FALSE]
Goes(c, k, path) == calls' = (calls \ {c}) \cup {[c EXCEPT !.k = k, !.path = path]}
StatusAnswered ==
  \E c \in Of({"status"}), ok \in BOOLEAN :
    /\ Goes(c, "stop", IF ok THEN srv.model ELSE None)
    /\ Untroubled(ok) /\ UNCHANGED <<home, timers, srv>>

\* The page asks for its health again and gives its button back, if it is still open.
Refetched(c) ==
  IF c.visit = home.visit
  THEN /\ home' = [home EXCEPT !.restarting = FALSE] /\ timers' = Cleared
       /\ Goes(c, "health", None)
  ELSE calls' = calls \ {c} /\ UNCHANGED <<home, timers>>

\* Mutant: the model is not started again.
StartsNever(c) == FALSE

Starts(c) == c.k = "stop" /\ c.path # None

StepAnswered ==
  \E c \in Of({"stop", "start"}), ok \in BOOLEAN :
    /\ IF ok THEN Succeeds(c) ELSE Fails(c)
    /\ Untroubled(ok)
    /\ IF Starts(c) THEN Goes(c, "start", c.path) /\ UNCHANGED <<home, timers>>
       ELSE Refetched(c)

-----------------------------------------------------------------------------
(* Packs *)

\* A count that failed reads as none installed.
PacksAnswered ==
  \E c \in Own("packs") :
    /\ calls' = calls \ {c} /\ UNCHANGED <<timers, srv, hist>>
    /\ \E n \in {srv.packs, 0} : home' = [home EXCEPT !.count = n]

ShowMissingPack == home.health = "healthy" /\ home.llm /\ home.count = 0
Reseed ==
  /\ ShowMissingPack /\ home.reseed # "busy" /\ Room
  /\ home' = [home EXCEPT !.reseed = "busy"] /\ UNCHANGED <<timers, srv>>
  /\ calls' = calls \cup {Request("reseed", None)} /\ hist' = Sent

ReseedAnswered ==
  \E c \in Of({"reseed"}), ok \in BOOLEAN :
    /\ IF ok THEN Succeeds(c) ELSE Fails(c)
    /\ UNCHANGED <<timers, hist>>
    /\ IF c \in Own("reseed")
       THEN /\ home' = [home EXCEPT !.reseed = IF ok THEN "done" ELSE "failed"]
            /\ IF ok THEN Goes(c, "packs", None) ELSE calls' = calls \ {c}
       ELSE calls' = calls \ {c} /\ UNCHANGED home

-----------------------------------------------------------------------------
(* useAppUpdate *)

\* Mutant: only the page that is open remembers what was dismissed.
DismissedHere(v) == FALSE

Dismissed(v) == hist.dismissed = v

UpdateAnswered ==
  \E c \in Own("update"), v \in {0, srv.version} :
    /\ calls' = calls \ {c} /\ UNCHANGED <<timers, srv, hist>>
    /\ home' = IF v = 0 THEN [home EXCEPT !.update = "idle"]
               ELSE [home EXCEPT !.version = v,
                       !.update = IF Dismissed(v) THEN "dismissed" ELSE "available"]
DismissUpdate ==
  /\ home.update = "available" /\ home' = [home EXCEPT !.update = "dismissed"]
  /\ hist' = [hist EXCEPT !.dismissed = home.version] /\ UNCHANGED <<timers, calls, srv>>

Next ==
  \/ Visit \/ ReadHealth \/ Change
  \/ HealthAnswered \/ TimerFires
  \/ Restart \/ StatusAnswered \/ StepAnswered
  \/ PacksAnswered \/ Reseed \/ ReseedAnswered
  \/ UpdateAnswered \/ DismissUpdate
Spec == Init /\ [][Next]_vars

-----------------------------------------------------------------------------
\* Until the engine is well the page goes on asking: whatever timers and restarts
\* crossed, a check or a timer is under way (useApiHealth.ts).
AsksUntilHealthy ==
  home.health # "healthy" =>
    timers # {} \/ \E c \in calls : c.k = "health" /\ c.visit = home.visit

\* A restart whose three calls went through, and that crossed no other, leaves the
\* engine with the model it served before (Home.tsx, handleRestartSidecar).
RestartBringsBack ==
  Of(Steps) = {} /\ hist.model # None /\ hist.alone => srv.model = hist.model

\* An update that was dismissed is not announced again in this run of the app,
\* also after the page was left and opened (useAppUpdate.ts).
DismissedStays == home.update = "available" => home.version > hist.dismissed

-----------------------------------------------------------------------------
(* The inductive invariant behind them *)

Shape ==
  /\ home = [visit |-> home.visit, health |-> home.health, llm |-> home.llm,
             error |-> home.error, count |-> home.count, restarting |-> home.restarting,
             reseed |-> home.reseed, update |-> home.update, version |-> home.version,
             timeoutId |-> home.timeoutId]
  /\ srv = [ok |-> srv.ok, model |-> srv.model, crashed |-> srv.crashed, packs |-> srv.packs,
            version |-> srv.version]
  /\ hist = [sent |-> hist.sent, changes |-> hist.changes, dismissed |-> hist.dismissed,
             model |-> hist.model, alone |-> hist.alone]
  /\ \A c \in calls : c = [k |-> c.k, n |-> c.n, visit |-> c.visit, path |-> c.path, got |-> c.got]

\* What was dismissed had been published, and so had what is shown.
Notices ==
  /\ {home.version, hist.dismissed, srv.version} \subseteq Nat
  /\ home.version <= srv.version /\ hist.dismissed <= srv.version
  /\ DismissedStays

\* A restart that nothing troubled is at one of its steps, or through.
Restarted ==
  hist.alone /\ hist.model # None =>
    \/ Of(Steps) = {} /\ srv.model = hist.model
    \/ \E c \in calls :
         /\ Of(Steps) = {c}
         /\ IF c.k = "status" THEN srv.model = hist.model ELSE c.path = hist.model

Inv == Shape /\ Notices /\ Restarted /\ AsksUntilHealthy
=============================================================================
