--------------------------- MODULE SidecarProofs ---------------------------
(***************************************************************************)
(* Theorems about the sidecar: types and the absence of a stuck STARTING   *)
(* whatever overlaps; that nothing strays, in the behaviours in which      *)
(* calls take turns and the core is not killed.                            *)
(***************************************************************************)
EXTENDS Sidecar, TLAPS

\* The pc of a call decides its shape.
LEMMA CallShape ==
    ASSUME TypeOK, NEW c \in Calls
    PROVE  /\ call[c].pc \in {"waiting", "terminating", "killing"} => call[c].child \in Procs
           /\ call[c].pc \in {"terminating", "killing"} => call[c].op \in {"start", "stop"}
           /\ call[c].pc = "idle" => call[c] = Idle
BY DEF TypeOK, CallStates, Idle, Spawning, Waiting, Ending

\* A step that replaces one call by a well-formed one leaves them well formed.
LEMMA CallUpdate ==
    ASSUME TypeOK, NEW c \in Calls, NEW x \in CallStates,
           call' = [call EXCEPT ![c] = x]
    PROVE  call' \in [Calls -> CallStates]
BY DEF TypeOK

\* Terminate leaves the calls, the handle and the state well formed.
LEMMA TerminateType ==
    ASSUME TypeOK, NEW c \in Calls, NEW op \in {"start", "stop"},
           NEW before \in States, NEW after \in States, Terminate(c, op, before, after)
    PROVE  /\ state' \in States
           /\ process' \in Procs \cup {NoProcess}
           /\ call' \in [Calls -> CallStates]
<1>1. CASE process # NoProcess /\ os[process] # "exited"
  <2>1. Ending("terminating", op, process) \in CallStates
      BY <1>1 DEF TypeOK, CallStates
  <2> QED BY <1>1, <2>1, CallUpdate DEF Terminate, TypeOK
<1>2. CASE ~(process # NoProcess /\ os[process] # "exited")
  <2>1. Idle \in CallStates
      BY DEF CallStates
  <2> QED BY <1>2, <2>1, CallUpdate DEF Terminate, TypeOK
<1> QED BY <1>1, <1>2

LEMMA NextTypeOK == TypeOK /\ [Next]_vars => TypeOK'
<1> SUFFICES ASSUME TypeOK, [Next]_vars PROVE TypeOK'
    OBVIOUS
<1>m. may' = may
    BY DEF Next, vars
<1> USE <1>m
<1>i. Idle \in CallStates /\ Spawning \in CallStates
    BY DEF CallStates
<1>s. {"stopped", "starting", "running", "crashed", "port_conflict"} \subseteq States
    BY DEF States
<1>1. CASE ReadState
    BY <1>1 DEF ReadState, Seen, TypeOK, States
<1>2. ASSUME NEW c \in Calls, Start(c) PROVE TypeOK'
    BY <1>2, <1>i, <1>s, CallUpdate DEF Start, Callable, TypeOK
<1>3. ASSUME NEW c \in Calls, Spawn(c) PROVE TypeOK'
  <2>1. PICK p \in Procs : /\ os' = [os EXCEPT ![p] = "booting"]
                           /\ process' = p
                           /\ call' = [call EXCEPT ![c] = Waiting(p)]
      BY <1>3 DEF Spawn
  <2>2. Waiting(p) \in CallStates
      BY DEF CallStates
  <2> QED BY <1>3, <2>1, <2>2, CallUpdate DEF Spawn, TypeOK
<1>4. ASSUME NEW c \in Calls, SpawnError(c) \/ Ready(c) PROVE TypeOK'
    BY <1>4, <1>i, <1>s, CallUpdate DEF SpawnError, AfterSpawnError, Ready, TypeOK
<1>5. ASSUME NEW c \in Calls, StartupFailed(c) PROVE TypeOK'
    BY <1>5, <1>s, TerminateType DEF StartupFailed, TypeOK
<1>6. ASSUME NEW c \in Calls, Stop(c) PROVE TypeOK'
    BY <1>6, <1>s, TerminateType DEF Stop, TypeOK
<1>7. ASSUME NEW c \in Calls, ChildEnded(c) PROVE TypeOK'
    BY <1>7, <1>i, <1>s, CallUpdate DEF ChildEnded, AfterEnd, TypeOK
<1>8. ASSUME NEW c \in Calls, TerminateTimeout(c) PROVE TypeOK'
  <2>1. /\ process \in Procs => Ending("killing", call[c].op, process) \in CallStates
        /\ Alive \subseteq Procs
      BY <1>8, CallShape DEF TerminateTimeout, CallStates, Alive
  <2>2. CASE process = NoProcess /\ call' = [call EXCEPT ![c] = Idle]
              /\ UNCHANGED <<state, process, killed>>
      BY <1>8, <2>2, <1>i, CallUpdate DEF TerminateTimeout, TypeOK
  <2>3. CASE /\ process \in Alive
             /\ killed' = Killed(process)
             /\ call' = [call EXCEPT ![c] = Ending("killing", @.op, process)]
             /\ UNCHANGED <<state, process>>
      BY <1>8, <2>1, <2>3, CallUpdate DEF TerminateTimeout, TypeOK, Killed
  <2>4. CASE /\ process # NoProcess /\ process \notin Alive
             /\ process' = NoProcess
             /\ state' = AfterEnd(call[c].op)
             /\ call' = [call EXCEPT ![c] = Idle]
             /\ UNCHANGED killed
      BY <1>8, <2>4, <1>i, <1>s, CallUpdate DEF TerminateTimeout, TypeOK, AfterEnd
  <2> QED BY <1>8, <2>2, <2>3, <2>4 DEF TerminateTimeout
<1>9. CASE CoreDies
    BY <1>9, <1>i, <1>s DEF CoreDies, TypeOK
<1>10. CASE ForeignServer
    BY <1>10 DEF ForeignServer, TypeOK
<1>11. ASSUME NEW p \in Procs, Bind(p) \/ Load(p) \/ Exit(p) PROVE TypeOK'
    BY <1>11 DEF Bind, Load, Exit, TypeOK
<1>12. CASE UNCHANGED vars
    BY <1>12 DEF vars, TypeOK
<1> QED BY <1>1, <1>2, <1>3, <1>4, <1>5, <1>6, <1>7, <1>8, <1>9, <1>10, <1>11, <1>12
        DEF Next, Step, Progress

LEMMA InitTypeOK == Init => TypeOK
<1> SUFFICES ASSUME Init PROVE TypeOK
    OBVIOUS
<1>1. Idle \in CallStates
    BY DEF CallStates
<1>2. call \in [Calls -> CallStates]
    BY <1>1 DEF Init
<1>3. /\ os \in [Procs -> {"unborn", "booting", "loading", "healthy", "exited"}]
      /\ state \in States /\ process \in Procs \cup {NoProcess}
      /\ killed \subseteq Procs /\ foreign \in BOOLEAN /\ may \subseteq Hardships
    BY SidecarAssumption DEF Init, States
<1> QED BY <1>2, <1>3 DEF TypeOK

\* The object, its children and its calls are well formed, for any calls and
\* any number of children.
THEOREM SidecarTypes == Spec => []TypeOK
BY InitTypeOK, NextTypeOK, PTL DEF Spec

-----------------------------------------------------------------------------
\* Only a start() sets STARTING, and its end, however it comes, sets something
\* else; the end of any other call leaves the start() in flight.
LEMMA NextStarting == TypeOK /\ StartingIsInFlight /\ [Next]_vars => StartingIsInFlight'
<1> SUFFICES ASSUME TypeOK, StartingIsInFlight, [Next]_vars PROVE StartingIsInFlight'
    OBVIOUS
<1>m. may' = may
    BY DEF Next, vars
<1> SUFFICES ASSUME state' = "starting", "log" \notin may
             PROVE  \E c \in Calls : call'[c].pc \in {"spawning", "waiting"}
    BY <1>m DEF StartingIsInFlight
<1>f. call \in [Calls -> CallStates]
    BY DEF TypeOK
<1>w. ASSUME state = "starting", NEW d \in Calls, NEW x, call' = [call EXCEPT ![d] = x],
             call[d].pc \notin {"spawning", "waiting"}
      PROVE  \E c \in Calls : call'[c].pc \in {"spawning", "waiting"}
  <2>1. PICK c \in Calls : call[c].pc \in {"spawning", "waiting"}
      BY <1>w DEF StartingIsInFlight
  <2>2. call'[c] = call[c]
      BY <1>w, <1>f, <2>1
  <2> QED BY <2>1, <2>2
<1>1. CASE ReadState \/ ForeignServer \/ UNCHANGED vars
    BY <1>1 DEF ReadState, Seen, ForeignServer, vars, StartingIsInFlight
<1>2. ASSUME NEW c \in Calls, Start(c) PROVE \E d \in Calls : call'[d].pc \in {"spawning", "waiting"}
    BY <1>2, <1>f DEF Start, Callable, Spawning
<1>3. ASSUME NEW c \in Calls, Spawn(c) PROVE \E d \in Calls : call'[d].pc \in {"spawning", "waiting"}
    BY <1>3, <1>f DEF Spawn, Waiting
<1>4. ASSUME NEW c \in Calls, SpawnError(c) \/ Ready(c) \/ StartupFailed(c) PROVE FALSE
    BY <1>4 DEF SpawnError, AfterSpawnError, Ready, StartupFailed, Terminate
<1>5. ASSUME NEW c \in Calls, Stop(c) PROVE \E d \in Calls : call'[d].pc \in {"spawning", "waiting"}
  <2>1. call[c].pc \notin {"spawning", "waiting"}
      BY <1>5 DEF Stop, Callable, Idle
  <2> QED BY <1>5, <1>w, <2>1 DEF Stop, Terminate
<1>6. ASSUME NEW c \in Calls, ChildEnded(c) \/ TerminateTimeout(c)
      PROVE  \E d \in Calls : call'[d].pc \in {"spawning", "waiting"}
  <2>1. state = "starting" /\ \E x : call' = [call EXCEPT ![c] = x]
      BY <1>6 DEF ChildEnded, TerminateTimeout, AfterEnd
  <2>2. call[c].pc \notin {"spawning", "waiting"}
      BY <1>6 DEF ChildEnded, TerminateTimeout
  <2> QED BY <1>w, <2>1, <2>2
<1>7. CASE CoreDies
    BY <1>7 DEF CoreDies
<1>8. ASSUME NEW p \in Procs, Bind(p) \/ Load(p) \/ Exit(p)
      PROVE  \E c \in Calls : call'[c].pc \in {"spawning", "waiting"}
    BY <1>8 DEF Bind, Load, Exit, StartingIsInFlight
<1> QED BY <1>1, <1>2, <1>3, <1>4, <1>5, <1>6, <1>7, <1>8 DEF Next, Step, Progress

\* While the log can be written, however many calls overlap and wherever the
\* core dies, STARTING never outlives the start() that set it.
THEOREM NeverStuckStarting == Spec => []StartingIsInFlight
<1>1. Init => StartingIsInFlight
    BY DEF Init, StartingIsInFlight
<1> QED BY <1>1, NextStarting, InitTypeOK, NextTypeOK, PTL DEF Spec

-----------------------------------------------------------------------------
(***************************************************************************)
(* Calls that take turns.  NoStray is not inductive: that the handle is    *)
(* cleared only when its child is gone depends on what each call is        *)
(* waiting for, and that a spawn finds nothing alive depends on the state  *)
(* its start() began in.                                                   *)
(***************************************************************************)
TakesTurns == \A c, d \in Calls : call[c] # Idle /\ call[d] # Idle => c = d

SpawnsAlone == \A c \in Calls : call[c].pc = "spawning" => Alive = {}

WaitsForItsChild ==
    \A c \in Calls :
        call[c].pc \in {"waiting", "terminating", "killing"} => process = call[c].child

Turns == TakesTurns /\ NoStray /\ StoppedMeansGone /\ SpawnsAlone /\ WaitsForItsChild
TurnsInv == Orderly => Turns

\* No other call is in flight.
Alone(c) == \A d \in Calls : d # c => call[d] = Idle

LEMMA ActsAlone == ASSUME TakesTurns, NEW c \in Calls, call[c] # Idle PROVE Alone(c)
BY DEF TakesTurns, Alone

LEMMA StartsAlone ==
    ASSUME Orderly, NEW c \in Calls, Callable(c)
    PROVE  Alone(c) /\ \A d \in Calls : call[d] = Idle
BY DEF Orderly, Callable, Alone

\* A child the handle does not hold, or one that exited, is not alive.
LEMMA NoneAlive ==
    ASSUME Orderly, NoStray, process = NoProcess \/ os[process] = "exited"
    PROVE  Alive = {}
BY SidecarAssumption DEF NoStray, Alive

\* When the only call rests or is about to spawn, and nothing lives, everything holds.
LEMMA TurnRests ==
    ASSUME TypeOK, NEW c \in Calls, Alone(c), NEW x, x = Idle \/ x = Spawning,
           call' = [call EXCEPT ![c] = x], Alive' = {}
    PROVE  Turns'
<1>1. \A d \in Calls : IF d = c THEN call'[d] = x ELSE call'[d] = Idle
    BY DEF TypeOK, Alone
<1>2. \A d \in Calls : call'[d].pc \notin {"waiting", "terminating", "killing"}
    BY <1>1 DEF Idle, Spawning
<1>3. TakesTurns'
    BY <1>1 DEF TakesTurns
<1> QED BY <1>2, <1>3 DEF Turns, NoStray, StoppedMeansGone, SpawnsAlone, WaitsForItsChild

\* When it waits for the child of the handle, the only one alive.
LEMMA TurnWaits ==
    ASSUME NEW c \in Calls, Alone(c), \A d \in Calls : d # c => call'[d] = call[d],
           call'[c].pc \in {"waiting", "terminating", "killing"}, call'[c].child = process',
           Alive' \subseteq {process'}
    PROVE  Turns'
<1>1. \A d \in Calls : d # c => call'[d] = Idle
    BY DEF Alone
<1>2. Idle.pc = "idle" /\ call'[c] # Idle
    BY DEF Idle
<1>3. TakesTurns' /\ SpawnsAlone' /\ WaitsForItsChild'
    BY <1>1, <1>2 DEF TakesTurns, SpawnsAlone, WaitsForItsChild
<1> QED BY <1>2, <1>3 DEF Turns, NoStray, StoppedMeansGone

\* Ending the child the handle holds.
LEMMA TerminateTurn ==
    ASSUME TypeOK, Orderly, NoStray, NEW c \in Calls, Alone(c), NEW op, NEW before, NEW after,
           Terminate(c, op, before, after), os' = os
    PROVE  Turns'
<1>a. Alive' = Alive
    BY DEF Alive
<1>1. CASE process # NoProcess /\ os[process] # "exited"
  <2>1. /\ process' = process
        /\ call' = [call EXCEPT ![c] = Ending("terminating", op, process)]
      BY <1>1 DEF Terminate
  <2>2. /\ Ending("terminating", op, process).pc = "terminating"
        /\ Ending("terminating", op, process).child = process
      BY DEF Ending
  <2>3. Alive' \subseteq {process}
      BY <1>a DEF NoStray
  <2>4. call'[c] = Ending("terminating", op, process) /\ \A d \in Calls : d # c => call'[d] = call[d]
      BY <2>1 DEF TypeOK
  <2> QED BY <2>1, <2>2, <2>3, <2>4, TurnWaits
<1>2. CASE ~(process # NoProcess /\ os[process] # "exited")
  <2>1. Alive' = {}
      BY <1>2, <1>a, NoneAlive
  <2>2. call' = [call EXCEPT ![c] = Idle]
      BY <1>2 DEF Terminate
  <2> QED BY <2>1, <2>2, TurnRests
<1> QED BY <1>1, <1>2

LEMMA NextTurns ==
    ASSUME TypeOK, TurnsInv, [Next]_vars
    PROVE  TurnsInv'
<1>m. may' = may
    BY DEF Next, vars
<1> SUFFICES ASSUME Orderly PROVE Turns'
    BY <1>m DEF TurnsInv, Orderly
<1>t. TakesTurns /\ NoStray /\ StoppedMeansGone /\ SpawnsAlone /\ WaitsForItsChild
    BY DEF TurnsInv, Turns
<1>o. os \in [Procs -> {"unborn", "booting", "loading", "healthy", "exited"}]
    BY DEF TypeOK
<1>u. ASSUME Alive' \subseteq Alive, UNCHANGED <<process, call>>, UNCHANGED state
      PROVE  Turns'
    BY <1>m, <1>t, <1>u DEF Turns, TakesTurns, NoStray, StoppedMeansGone, SpawnsAlone,
                            WaitsForItsChild, Orderly
<1>1. CASE ReadState
  <2>1. CASE Seen = state
      BY <1>1, <1>u, <2>1 DEF ReadState, Alive
  <2>2. CASE Seen # state
    <3>1. Alive = {}
        BY <1>t, <2>2, NoneAlive DEF Seen
    <3> QED BY <1>1, <1>t, <3>1
            DEF ReadState, Alive, Turns, TakesTurns, NoStray, StoppedMeansGone, SpawnsAlone,
                WaitsForItsChild
  <2> QED BY <2>1, <2>2
<1>2. ASSUME NEW c \in Calls, Start(c) PROVE Turns'
  <2>1. Alone(c) /\ \A d \in Calls : call[d] = Idle
      BY <1>2, StartsAlone DEF Start
  <2>2. Alive = {}
    <3>1. CASE Seen # state
        BY <1>t, <3>1, NoneAlive DEF Seen
    <3>2. CASE Seen = state
        BY <1>2, <1>t, <2>1, <3>2 DEF Start, TypeOK, States, StoppedMeansGone
    <3> QED BY <3>1, <3>2
  <2>3. Alive' = {}
      BY <1>2, <2>2 DEF Start, Alive
  <2>4. call' = [call EXCEPT ![c] = Idle] \/ call' = [call EXCEPT ![c] = Spawning]
    <3>1. call = [call EXCEPT ![c] = Idle]
        BY <2>1 DEF TypeOK
    <3> QED BY <1>2, <3>1 DEF Start
  <2> QED BY <2>1, <2>3, <2>4, TurnRests
<1>3. ASSUME NEW c \in Calls, Spawn(c) PROVE Turns'
  <2>1. PICK p \in Procs : /\ os' = [os EXCEPT ![p] = "booting"]
                           /\ process' = p
                           /\ call' = [call EXCEPT ![c] = Waiting(p)]
      BY <1>3 DEF Spawn
  <2>2. Alive = {} /\ Alone(c)
      BY <1>3, <1>t, ActsAlone DEF Spawn, SpawnsAlone, Idle
  <2>3. Alive' \subseteq {p}
      BY <1>o, <2>1, <2>2 DEF Alive
  <2>4. Waiting(p).pc = "waiting" /\ Waiting(p).child = p
      BY DEF Waiting
  <2>5. call'[c] = Waiting(p) /\ \A d \in Calls : d # c => call'[d] = call[d]
      BY <2>1 DEF TypeOK
  <2> QED BY <2>1, <2>2, <2>3, <2>4, <2>5, TurnWaits
<1>4. ASSUME NEW c \in Calls, SpawnError(c) \/ ChildEnded(c) PROVE Turns'
  <2>1. Alive = {}
    <3>1. CASE SpawnError(c)
        BY <1>t, <3>1 DEF SpawnError, SpawnsAlone
    <3>2. CASE ChildEnded(c)
        BY <1>t, <3>2, NoneAlive DEF ChildEnded, WaitsForItsChild
    <3> QED BY <1>4, <3>1, <3>2
  <2>2. Alive' = {} /\ call' = [call EXCEPT ![c] = Idle] /\ Alone(c)
      BY <1>4, <1>t, <2>1, ActsAlone DEF SpawnError, ChildEnded, Alive, Idle
  <2> QED BY <2>2, TurnRests
<1>5. ASSUME NEW c \in Calls, Ready(c) PROVE Turns'
  <2>1. /\ call' = [call EXCEPT ![c] = Idle] /\ state' = "running"
        /\ process' = process /\ Alive' = Alive /\ Alone(c)
      BY <1>5, <1>t, ActsAlone DEF Ready, Alive, Idle
  <2>2. \A d \in Calls : call'[d] = Idle
      BY <2>1 DEF TypeOK, Alone
  <2>3. \A d \in Calls : call'[d].pc = "idle"
      BY <2>2 DEF Idle
  <2> QED BY <1>m, <1>t, <2>1, <2>2, <2>3
          DEF Turns, TakesTurns, NoStray, StoppedMeansGone, SpawnsAlone, WaitsForItsChild, Orderly
<1>6. ASSUME NEW c \in Calls, StartupFailed(c) PROVE Turns'
  <2>1. Alone(c)
      BY <1>6, <1>t, ActsAlone DEF StartupFailed, Idle
  <2> QED BY <1>6, <1>t, <2>1, TerminateTurn DEF StartupFailed
<1>7. ASSUME NEW c \in Calls, Stop(c) PROVE Turns'
  <2>1. Alone(c) /\ \A d \in Calls : call[d] = Idle
      BY <1>7, StartsAlone DEF Stop
  <2>2. CASE state \in {"running", "starting"}
      BY <1>7, <1>t, <2>1, <2>2, TerminateTurn DEF Stop
  <2>3. CASE state \notin {"running", "starting"}
    <3>1. Alive' = {}
        BY <1>7, <1>t, <2>1, <2>3 DEF Stop, TypeOK, States, StoppedMeansGone, Alive
    <3>2. call' = [call EXCEPT ![c] = Idle]
        BY <1>7, <2>1, <2>3 DEF Stop, TypeOK
    <3> QED BY <2>1, <3>1, <3>2, TurnRests
  <2> QED BY <2>2, <2>3
<1>8. ASSUME NEW c \in Calls, TerminateTimeout(c) PROVE Turns'
  <2>1. process = call[c].child /\ process \in Alive /\ process # NoProcess /\ Alone(c)
      BY <1>8, <1>t, ActsAlone, SidecarAssumption
         DEF TerminateTimeout, WaitsForItsChild, Alive, Idle
  <2>2. /\ call' = [call EXCEPT ![c] = Ending("killing", call[c].op, process)]
        /\ process' = process /\ Alive' = Alive
      BY <1>8, <2>1 DEF TerminateTimeout, Alive
  <2>3. /\ Ending("killing", call[c].op, process).pc = "killing"
        /\ Ending("killing", call[c].op, process).child = process
      BY DEF Ending
  <2>4. Alive' \subseteq {process}
      BY <1>t, <2>2 DEF NoStray
  <2>5. /\ call'[c] = Ending("killing", call[c].op, process)
        /\ \A d \in Calls : d # c => call'[d] = call[d]
      BY <2>2 DEF TypeOK
  <2> QED BY <2>1, <2>2, <2>3, <2>4, <2>5, TurnWaits
<1>9. CASE ForeignServer \/ UNCHANGED vars
    BY <1>9, <1>u DEF ForeignServer, vars, Alive
<1>10. ASSUME NEW p \in Procs, Bind(p) \/ Load(p) \/ Exit(p) PROVE Turns'
  <2>1. Alive' \subseteq Alive
      BY <1>10, <1>o DEF Bind, Load, Exit, Alive
  <2> QED BY <1>10, <1>u, <2>1 DEF Bind, Load, Exit
<1>11. ~CoreDies
    BY DEF CoreDies, Orderly
<1> QED BY <1>1, <1>2, <1>3, <1>4, <1>5, <1>6, <1>7, <1>8, <1>9, <1>10, <1>11
        DEF Next, Step, Progress

LEMMA InitTurns == Init => TurnsInv
BY DEF Init, Alive, Idle, TurnsInv, Turns, TakesTurns, NoStray, StoppedMeansGone, SpawnsAlone,
       WaitsForItsChild

LEMMA TurnsAlways == Spec => []TurnsInv
<1>1. TypeOK /\ TurnsInv /\ [Next]_vars => TurnsInv'
    BY NextTurns
<1> QED BY <1>1, InitTypeOK, NextTypeOK, InitTurns, PTL DEF Spec

\* start() and stop() called one at a time, in a core that is not killed,
\* never lose a child: whatever lives is what the handle holds.
THEOREM NothingStrays == Spec => []NoStray
<1>1. TurnsInv => NoStray
    BY DEF TurnsInv, Turns, NoStray
<1> QED BY <1>1, TurnsAlways, PTL

\* In the same behaviours a failed start() and a stop() return only when the
\* child is gone: no sidecar at rest leaves one behind.
THEOREM RestMeansGone == Spec => []StoppedMeansGone
<1>1. TurnsInv => StoppedMeansGone
    BY DEF TurnsInv, Turns, StoppedMeansGone
<1> QED BY <1>1, TurnsAlways, PTL

=============================================================================
