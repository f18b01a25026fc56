---------------------------- MODULE CoreStartup ------------------------------
(* The page that covers the app until the engine serves (apps/web/src/        *)
(* screens/CoreStartup.tsx), over the shell of DesktopShell: live status      *)
(* events, the snapshot that makes up for those that came before it listened, *)
(* the health check of its own, and the error card with its reload.           *)
EXTENDS DesktopShell

CONSTANTS MaxPages,    \* bound: times the page is loaded
          MaxQueued    \* bound: events on their way to the page

ASSUME StartupBounds ==
  MaxRestarts \in Nat \ {0} /\ MaxSpawns \in Nat \ {0} /\ MaxPages \in Nat \ {0}
  /\ MaxQueued \in Nat \ {0}

VARIABLE pg    \* the page that is open now
vars == <<port, kids, sh, stored, quit, world, pg>>

Page(n) ==
  [no |-> n, failed |-> stored \in Errors, status |-> None, ready |-> FALSE, listen |-> "asked",
   events |-> <<>>, live |-> FALSE, snap |-> "idle", read |-> None, health |-> "asked",
   deaf |-> FALSE]

Init == ShellInit /\ pg = [Page(0) EXCEPT !.listen = "no page"]

Shell == UNCHANGED svars
\* The exit handler runs when the window is closed.
OnPage == pg.no # 0 /\ quit = "no"

\* Tauri replays nothing: an event nobody listens for is gone.
Hears == OnPage /\ pg.listen = "on"

\* emit_core_status, its second half.
Emit ==
  /\ sh.say # None /\ quit # "gone" /\ sh' = [sh EXCEPT !.say = None]
  /\ Hears => Len(pg.events) < MaxQueued
  /\ pg' = IF Hears THEN [pg EXCEPT !.events = Append(@, sh.say)] ELSE pg
  /\ UNCHANGED <<port, kids, stored, quit, world>>

\* The webview loads while the shell is already at work; the card's button loads it again.
Open == pg.no = 0 /\ quit = "no" /\ pg' = Page(1) /\ Shell

Card == ~pg.ready /\ pg.status \in Errors
Reload ==
  /\ OnPage /\ Card /\ pg.no < MaxPages
  /\ pg' = Page(pg.no + 1) /\ Shell

-----------------------------------------------------------------------------
(* Subscribing and catching up *)

\* Mutant: once mounted, the app stays mounted.
ApplyLatched(p, v) == [p EXCEPT !.status = v, !.ready = @ \/ (v = "ready")]

Apply(p, v) == [p EXCEPT !.status = v, !.ready = (v = "ready")]

\* The snapshot is asked for as soon as the listener is registered.
Registered ==
  /\ OnPage /\ pg.listen = "asked" /\ Shell
  /\ pg' = [pg EXCEPT !.listen = "on", !.snap = "asked"]
ListenFailed ==
  /\ OnPage /\ pg.listen = "asked" /\ Shell
  /\ pg' = [pg EXCEPT !.listen = "failed", !.snap = "settled", !.deaf = TRUE]
GetCoreStatus ==
  /\ OnPage /\ pg.snap = "asked" /\ pg' = [pg EXCEPT !.snap = "read", !.read = stored] /\ Shell

\* Mutant: an answer is applied whatever has been heard in the meantime.
RedundantNever == FALSE

Redundant == pg.live

SnapshotAnswered ==
  /\ OnPage /\ pg.snap = "read" /\ Shell
  /\ pg' = LET p == [pg EXCEPT !.snap = "settled", !.read = None]
           IN IF Redundant \/ pg.read = None THEN p ELSE Apply(p, pg.read)
SnapshotFailed ==
  /\ OnPage /\ pg.snap \in {"asked", "read"} /\ Shell
  /\ pg' = [pg EXCEPT !.snap = "settled", !.read = None, !.deaf = TRUE]

Deliver ==
  /\ OnPage /\ pg.events # <<>> /\ Shell
  /\ pg' = Apply([pg EXCEPT !.events = Tail(@), !.live = TRUE], Head(pg.events))

-----------------------------------------------------------------------------
(* The health check *)

\* A timeout, or an answer: only convsim-core has the three fields.
HealthAnswered ==
  /\ OnPage /\ pg.health = "asked" /\ Shell
  /\ \/ port \in Engines /\ pg' = [pg EXCEPT !.health = "yes"]
     \/ pg' = [pg EXCEPT !.health = "done"]

\* Mutant: the answer is acted on before the shell has had its say.
ShellHeardAlways == TRUE

ShellHeard == pg.snap = "settled"

MayPass == pg.status \in {None, "ready"}
FastPath ==
  /\ OnPage /\ pg.health = "yes" /\ ShellHeard /\ Shell
  /\ pg' = [pg EXCEPT !.health = "done", !.ready = @ \/ MayPass]

PageStep ==
  Registered \/ ListenFailed \/ GetCoreStatus \/ SnapshotAnswered
  \/ SnapshotFailed \/ Deliver \/ HealthAnswered \/ FastPath
Next ==
  \/ (Supervise \/ Teardown \/ Environment) /\ UNCHANGED pg
  \/ Emit \/ Open \/ Reload \/ PageStep

Spec == Init /\ [][Next]_vars
\* The threads run; an engine that was started binds the port or exits.
StartedEngineGetsOn ==
  \E k \in DOMAIN kids : kids[k] = "starting" /\ (KidBinds \/ KidDies) /\ UNCHANGED pg
FairSpec ==
  /\ Spec /\ WF_vars(Supervise /\ UNCHANGED pg) /\ WF_vars(Emit) /\ WF_vars(PageStep)
  /\ WF_vars(StartedEngineGetsOn)

-----------------------------------------------------------------------------
(* What the card says *)

\* The words of the message of each error that the card looks for.
Words(v) ==
  CASE v = "foreign" -> {"another edition", "already running"}
    [] v = "taken" -> {"already running"}
    [] v = "busy" -> {"port in use"}
    [] v = "stops" -> {"keeps stopping"}
    [] v = "missing" -> {"not found", "executable"}
    [] OTHER -> {}
\* Mutant: the special case comes after the one it is a case of.
AskedForLate == <<"already running", "another edition", "port in use", "keeps stopping">>

AskedFor == <<"another edition", "already running", "port in use", "keeps stopping">>

Hits(v) == {i \in DOMAIN AskedFor : AskedFor[i] \in Words(v)}
ClassifyError(v) ==
  IF Hits(v) # {} THEN AskedFor[CHOOSE i \in Hits(v) : \A j \in Hits(v) : i <= j]
  ELSE IF Words(v) # {} THEN "not found" ELSE "crash"

-----------------------------------------------------------------------------
TypesOK ==
  /\ port \in Engines \cup {"stranger", None}
  /\ kids \in Seq({"starting", "serving", "dead"}) /\ Len(kids) <= MaxSpawns
  /\ stored \in Errors \cup {None, "starting", "restarting", "ready"}
  /\ quit \in {"no", "flag", "taken", "gone"}
  /\ sh.kid \in 0..Len(kids) /\ sh.restarts \in 0..MaxRestarts
  /\ pg.no \in 0..MaxPages /\ pg.status \in Errors \cup {None, "starting", "restarting", "ready"}

\* Once every event is delivered and the snapshot has settled, a page that could
\* listen shows what the shell last said, whatever order the event, the snapshot and
\* the health answer came in (CoreStartup.tsx, apply and the two promises).
Agrees ==
  OnPage /\ sh.say = None /\ pg.events = <<>> /\ pg.snap = "settled" /\ ~pg.deaf /\ stored # None
    => pg.status = stored /\ (pg.ready <=> stored = "ready")

\* A page loaded after the shell gave up stays on the error card: no answer of
\* another edition's engine and no late event mounts the app (CoreStartup.tsx, the
\* wait for shellStatusSettled).
ReloadStaysOnError == pg.no # 0 /\ pg.failed /\ ~pg.deaf => ~pg.ready

\* The card that heads an error names what went wrong and not the more general case
\* its message also mentions (classifyError against the messages of lib.rs).
CardNamesCause ==
  Card => ((ClassifyError(pg.status) = "another edition") <=> pg.status = "foreign")

\* A window mounted over an engine that is gone is taken back, or the engine
\* comes back, in a release build whose page could listen (supervise_core).
DownIsNoticed ==
  (pg.ready /\ ~pg.deaf /\ ~sh.dev /\ port = None)
    ~> (~pg.ready \/ pg.deaf \/ port # None \/ quit # "no")

\* A start or a restart ends: the shell reports ready or why not.
StartSettles ==
  (stored \in {None, "starting", "restarting"} /\ quit = "no")
    ~> (stored \in Errors \cup {"ready"} \/ quit # "no")

\* The page knows what the shell knows, also when it was loaded after the end, and
\* its card names the cause.
PageKnows == Agrees /\ ReloadStaysOnError /\ CardNamesCause

\* Every start ends, in an engine that serves or on a card, and an engine that is
\* lost later is missed.
StartsEnd == StartSettles /\ DownIsNoticed
=============================================================================
