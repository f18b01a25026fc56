---------------------------- MODULE DesktopShell -----------------------------
(* The desktop shell and the engine it keeps running (apps/desktop/src-tauri/ *)
(* src/lib.rs): the supervisor thread that adopts or starts convsim-core on   *)
(* the one port, restarts it when it dies and gives up after a while; the     *)
(* teardown that stops it on the way out.                                     *)
(*                                                                            *)
(* Time is not modelled: a grace period, a timeout or a back-off may end      *)
(* whenever its step is due.                                                  *)
EXTENDS Naturals, Sequences

CONSTANTS MaxRestarts,  \* restarts before the shell gives up
          MaxSpawns,    \* bound: engines started
          MaxResets,    \* bound: runs long enough to forget earlier restarts
          MaxOthers     \* bound: other programs that come to the port

VARIABLES port,    \* who listens on 127.0.0.1:7355
          kids,    \* the engines this shell started, in order
          sh,      \* the supervisor thread and the handle it shares with teardown
          stored,  \* CoreStatusState: the phase last stored
          quit,    \* how far the app is on its way out
          world    \* bounds and history
svars == <<port, kids, sh, stored, quit, world>>

None == "none"
NoKid == 0
Engines == {"ours", "same", "other"}    \* who answers /api/health as convsim-core does
Strangers == {"same", "other", "stranger"}
\* What is stored: a phase, or for the phase "error" the reason its message gives.
Errors == {"foreign", "taken", "busy", "stops", "missing", "down", "late", "crashed"}
Lost(who) == IF who = "other" THEN "foreign" ELSE "taken"

Alive(k) == kids[k] # "dead"
\* Stopping an engine closes its port.
KilledKids(k) == [kids EXCEPT ![k] = "dead"]
PortWithout(k) == IF kids[k] = "serving" THEN None ELSE port

\* emit_core_status, its first half: the status is stored, the event is still to go out.
Say(phase, at) == stored' = phase /\ sh' = [sh EXCEPT !.at = at, !.say = phase]
SayWithout(phase, at) ==
  stored' = phase /\ sh' = [sh EXCEPT !.at = at, !.say = phase, !.kid = NoKid]

ShellInit ==
  /\ port \in Strangers \cup {None} /\ kids = <<>> /\ stored = None /\ quit = "no"
  /\ \E dev \in BOOLEAN :
       sh = [at |-> "attach", say |-> None, kid |-> NoKid, restarts |-> 0, asked |-> FALSE,
             dev |-> dev]
  /\ world = [others |-> 0, resets |-> 0, tries |-> 0, foreign |-> FALSE]

\* The thread runs while the process does; it emits what it stored first.
Runs(at) == sh.at = at /\ sh.say = None /\ quit # "gone"
Ready(who) == world' = [world EXCEPT !.foreign = who = "other"]

-----------------------------------------------------------------------------
(* Attaching to an engine that is already there *)

Foreign(who) == who = "other" /\ ~sh.dev

\* Mutant: the occupant is asked again for ever.
GraceNever == FALSE

\* Once it was announced, the occupant's grace period may be over.
GraceOver == sh.asked

Attach ==
  /\ Runs("attach") /\ UNCHANGED <<port, kids, quit>>
  /\ \/ /\ port \in Engines /\ Foreign(port)
        /\ Say("foreign", "done") /\ UNCHANGED world
     \/ /\ port \in Engines /\ ~Foreign(port)
        /\ Say("ready", IF sh.dev THEN "done" ELSE "adopted") /\ Ready(port)
     \/ /\ port = None
        /\ sh' = [sh EXCEPT !.at = IF sh.dev THEN "dev" ELSE "locate", !.asked = FALSE]
        /\ UNCHANGED <<stored, world>>
     \/ /\ port # None /\ ~sh.asked /\ UNCHANGED world
        /\ stored' = "starting" /\ sh' = [sh EXCEPT !.say = "starting", !.asked = TRUE]
     \/ /\ port # None /\ GraceOver
        /\ Say("busy", "done") /\ UNCHANGED world

\* wait_for_adopted_core_to_leave: only a port that nobody holds is noticed.
Adopted ==
  /\ Runs("adopted") /\ UNCHANGED <<port, kids, quit, world>>
  /\ \/ quit # "no" /\ sh' = [sh EXCEPT !.at = "done"] /\ UNCHANGED stored
     \/ quit = "no" /\ port = None /\ Say("restarting", "locate")

WaitForDev ==
  /\ Runs("dev") /\ UNCHANGED <<port, kids, quit>>
  /\ \/ port \in Engines /\ Say("ready", "done") /\ Ready(port)
     \/ Say("down", "done") /\ UNCHANGED world

Locate ==
  /\ Runs("locate") /\ Say("starting", "find") /\ UNCHANGED <<port, kids, quit, world>>
FindCoreExecutable ==
  /\ Runs("find") /\ UNCHANGED <<port, kids, quit, world>>
  /\ \/ Say("starting", "spawn")
     \/ Say("missing", "done")

-----------------------------------------------------------------------------
(* start_and_await_core *)

\* Mutant: the flag is looked at before the lock is taken, so not here.
MaySpawnAnytime == TRUE

\* Under the process lock, which teardown takes after it set the flag.
MaySpawn == quit = "no"

SpawnCore ==
  /\ Runs("spawn") /\ UNCHANGED <<port, quit>>
  /\ \/ /\ MaySpawn /\ Len(kids) < MaxSpawns
        /\ kids' = Append(kids, "starting") /\ stored' = "starting"
        /\ sh' = [sh EXCEPT !.at = "await", !.say = "starting", !.kid = Len(kids) + 1,
                            !.asked = FALSE]
        /\ world' = [world EXCEPT !.tries = @ + 1]
     \/ /\ MaySpawn /\ \E cause \in {"missing", "crashed"} : Say(cause, "done")
        /\ UNCHANGED <<kids, world>>
     \/ /\ quit # "no" /\ sh' = [sh EXCEPT !.at = "done"]
        /\ UNCHANGED <<kids, stored, world>>

\* Teardown took the handle while the thread was waiting.
AwaitGivesUp ==
  /\ Runs("await") /\ sh.kid = NoKid /\ sh' = [sh EXCEPT !.at = "done"]
  /\ UNCHANGED <<port, kids, stored, quit, world>>

\* The engine is gone: whoever holds the port is asked who it is, with patience.
AwaitExited ==
  /\ Runs("await") /\ sh.kid # NoKid /\ ~Alive(sh.kid) /\ UNCHANGED <<port, kids, quit, world>>
  /\ \/ /\ port # None /\ ~sh.asked
        /\ stored' = "starting" /\ sh' = [sh EXCEPT !.say = "starting", !.asked = TRUE]
     \/ port \in Engines /\ SayWithout(Lost(port), "done")
     \/ port # None /\ GraceOver /\ SayWithout("busy", "done")
     \/ port = None /\ SayWithout("crashed", "done")

\* Another edition's engine answered: the own one is stopped, under the lock.
StoppedFirst == kids' = KilledKids(sh.kid) /\ port' = PortWithout(sh.kid)

\* Mutant: the engine's edition is not asked for after a start.
AnswersForUsAny(who) == TRUE

AnswersForUs(who) == who # "other"

\* The engine was alive a moment ago; who answers need not be it.
AwaitAnswered ==
  /\ Runs("await") /\ sh.kid # NoKid /\ port \in Engines /\ UNCHANGED quit
  /\ \/ AnswersForUs(port) /\ Say("ready", "serve") /\ Ready(port) /\ UNCHANGED <<port, kids>>
     \/ ~AnswersForUs(port) /\ StoppedFirst /\ SayWithout("foreign", "done") /\ UNCHANGED world

AwaitTimeout ==
  /\ Runs("await") /\ sh.kid # NoKid /\ Say("late", "done")
  /\ UNCHANGED <<port, kids, quit, world>>

-----------------------------------------------------------------------------
(* Keeping it running *)

WaitForChildExit ==
  /\ Runs("serve") /\ UNCHANGED <<port, kids, stored, quit, world>>
  /\ \/ (quit # "no" \/ sh.kid = NoKid) /\ sh' = [sh EXCEPT !.at = "done"]
     \/ sh.kid # NoKid /\ ~Alive(sh.kid) /\ sh' = [sh EXCEPT !.at = "exited", !.kid = NoKid]

\* Mutant: one restart too many.
GivesUpLate(n) == n > MaxRestarts + 1

GivesUp(n) == n > MaxRestarts

\* A port that is still served was never the dead engine's.
Exited ==
  /\ Runs("exited") /\ UNCHANGED <<port, kids, quit>>
  /\ \/ quit # "no" /\ sh' = [sh EXCEPT !.at = "done"] /\ UNCHANGED <<stored, world>>
     \/ quit = "no" /\ port \in Engines /\ Say(Lost(port), "done") /\ UNCHANGED world
     \/ /\ quit = "no"
        /\ \E long \in BOOLEAN :
             LET n == IF long THEN 1 ELSE sh.restarts + 1 IN
             /\ long => world.resets < MaxResets
             /\ world' = IF long THEN [world EXCEPT !.resets = @ + 1, !.tries = 0] ELSE world
             /\ IF GivesUp(n) THEN Say("stops", "done")
                ELSE /\ stored' = "restarting"
                     /\ sh' = [sh EXCEPT !.at = "backoff", !.say = "restarting", !.restarts = n]

RestartBackoff ==
  /\ Runs("backoff") /\ UNCHANGED <<port, kids, stored, quit, world>>
  /\ sh' = [sh EXCEPT !.at = IF quit = "no" THEN "spawn" ELSE "done"]

Supervise ==
  \/ Attach \/ Adopted \/ WaitForDev \/ Locate \/ FindCoreExecutable \/ SpawnCore
  \/ AwaitGivesUp \/ AwaitExited \/ AwaitAnswered \/ AwaitTimeout
  \/ WaitForChildExit \/ Exited \/ RestartBackoff

-----------------------------------------------------------------------------
(* On the way out: the flag, then the engine, then the process *)

Flag ==
  /\ quit = "no" /\ quit' = "flag" /\ UNCHANGED <<port, kids, sh, stored, world>>

\* core_process::shutdown, which does not return before the engine is gone.
Shutdown(k) == KilledKids(k)

Take ==
  /\ quit = "flag" /\ quit' = "taken" /\ sh' = [sh EXCEPT !.kid = NoKid]
  /\ IF sh.kid = NoKid THEN UNCHANGED <<kids, port>>
     ELSE kids' = Shutdown(sh.kid) /\ port' = PortWithout(sh.kid)
  /\ UNCHANGED <<stored, world>>
Gone == quit = "taken" /\ quit' = "gone" /\ UNCHANGED <<port, kids, sh, stored, world>>
Teardown == Flag \/ Take \/ Gone

-----------------------------------------------------------------------------
(* The engines and other programs *)

KidBinds ==
  \E k \in DOMAIN kids :
    /\ kids[k] = "starting" /\ port = None
    /\ kids' = [kids EXCEPT ![k] = "serving"] /\ port' = "ours"
    /\ UNCHANGED <<sh, stored, quit, world>>
\* It crashes, or finds the port taken.
KidDies ==
  \E k \in DOMAIN kids :
    /\ Alive(k) /\ kids' = KilledKids(k) /\ port' = PortWithout(k)
    /\ UNCHANGED <<sh, stored, quit, world>>
OtherComes ==
  /\ port = None /\ world.others < MaxOthers /\ port' \in Strangers
  /\ world' = [world EXCEPT !.others = @ + 1] /\ UNCHANGED <<kids, sh, stored, quit>>
OtherLeaves ==
  /\ port \in Strangers /\ port' = None /\ UNCHANGED <<kids, sh, stored, quit, world>>
Environment == KidBinds \/ KidDies \/ OtherComes \/ OtherLeaves

-----------------------------------------------------------------------------
\* An engine the shell started and that still runs is the one whose handle it
\* keeps, so teardown can stop it; once the app is gone none is left behind.
NoOrphan == \A k \in DOMAIN kids : Alive(k) => k = sh.kid /\ quit # "gone"

\* A release build is never told that another edition's engine is its own.
ReadyIsOurEdition == stored = "ready" /\ ~sh.dev => ~world.foreign

\* Between two long runs the engine is started at most once and MaxRestarts times again.
RestartsBounded == world.tries <= MaxRestarts + 1

\* The shell holds its engine: none is orphaned, no other passes for it, and a
\* dying one is not started for ever.
EngineIsHeld == NoOrphan /\ ReadyIsOurEdition /\ RestartsBounded
=============================================================================
