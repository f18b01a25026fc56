------------------------------ MODULE Sidecar ------------------------------
(***************************************************************************)
(* The life cycle of the managed llama-server (runtime/sidecar.py,         *)
(* LlamaCppSidecar): one object with a state and a process handle, used by *)
(* the sidecar routes, the autostart task, the setup pipeline and the      *)
(* supervisor at exit, none of which excludes another.                     *)
(*                                                                         *)
(* start() awaits the spawn, the readiness of the server and, on failure,  *)
(* the end of the process; stop() awaits the end of the process.  What     *)
(* runs between two awaits is one action.  The children are processes of   *)
(* the operating system that live, bind the port and die on their own.     *)
(***************************************************************************)

CONSTANTS
    Calls,       \* slots for calls of start() and stop() that are awaiting
    Procs,       \* the children that may be spawned (a bound)
    NoProcess,   \* `_process is None`
    Surroundings \* the sets of hardships that a behaviour may have to meet

\* Calls overlap; the core itself is killed; the header of the log cannot be written.
Hardships == {"overlap", "death", "log"}

ASSUME SidecarAssumption == NoProcess \notin Procs /\ Surroundings \subseteq SUBSET Hardships

VARIABLES
    may,      \* the hardships of this behaviour
    state,    \* _state
    process,  \* _process
    os,       \* what each child is doing
    killed,   \* the children that were sent SIGKILL
    foreign,  \* a server that is not ours listens on the port
    call      \* the calls in flight

vars == <<may, state, process, os, killed, foreign, call>>

States == {"stopped", "starting", "running", "crashed", "port_conflict"}

Alive == {p \in Procs : os[p] \in {"booting", "loading", "healthy"}}

\* A child listens once it has bound the port; only one can.
PortInUse == foreign \/ \E p \in Procs : os[p] \in {"loading", "healthy"}

\* Whoever holds the port answers the health check.
HealthOk == foreign \/ \E p \in Procs : os[p] = "healthy"

Idle == [pc |-> "idle"]
Spawning == [pc |-> "spawning"]
Waiting(p) == [pc |-> "waiting", child |-> p]
\* Awaiting the exit of p, before and after the kill, on behalf of `op`.
Ending(pc, op, p) == [pc |-> pc, op |-> op, child |-> p]

Init ==
    /\ may \in Surroundings
    /\ state = "stopped" /\ process = NoProcess
    /\ os = [p \in Procs |-> "unborn"] /\ killed = {}
    /\ foreign = FALSE
    /\ call = [c \in Calls |-> Idle]

-----------------------------------------------------------------------------
(***************************************************************************)
(* The state property notices an exit when somebody reads it.              *)
(***************************************************************************)
Seen == IF state = "running" /\ process # NoProcess /\ os[process] = "exited"
        THEN "crashed" ELSE state

ReadState ==
    /\ state' = Seen
    /\ UNCHANGED <<process, os, killed, foreign, call>>

-----------------------------------------------------------------------------
(***************************************************************************)
(* start().  A missing executable raises after the state was read.  The log*)
(* is opened before STARTING is set and written to after, and nothing      *)
(* catches a failing write.                                                *)
(***************************************************************************)
\* A slot for a call, which is the only one unless calls overlap.
Callable(c) == call[c] = Idle /\ ("overlap" \in may \/ \A d \in Calls : call[d] = Idle)

Start(c) ==
    /\ Callable(c)
    /\ Seen \notin {"running", "starting"}
    /\ \/ /\ PortInUse
          /\ state' = "port_conflict"
          /\ UNCHANGED call
       \/ /\ ~PortInUse     \* the log file cannot be opened
          /\ state' = "crashed"
          /\ UNCHANGED call
       \/ /\ ~PortInUse /\ "log" \in may
          /\ state' = "starting"
          /\ UNCHANGED call
       \/ /\ ~PortInUse
          /\ state' = "starting"
          /\ call' = [call EXCEPT ![c] = Spawning]
    /\ UNCHANGED <<process, os, killed, foreign>>

Spawn(c) ==
    /\ call[c].pc = "spawning"
    /\ \E p \in Procs :
          /\ os[p] = "unborn"
          /\ os' = [os EXCEPT ![p] = "booting"]
          /\ process' = p
          /\ call' = [call EXCEPT ![c] = Waiting(p)]
    /\ UNCHANGED <<state, killed, foreign>>

\* Mutant: the state is left as it was.
AfterSpawnErrorKept == state

\* Mutant: a state that SidecarState does not have.
AfterSpawnErrorNew == "failed"

AfterSpawnError == "crashed"

SpawnError(c) ==
    /\ call[c].pc = "spawning"
    /\ state' = AfterSpawnError
    /\ call' = [call EXCEPT ![c] = Idle]
    /\ UNCHANGED <<process, os, killed, foreign>>

Ready(c) ==
    /\ call[c].pc = "waiting"
    /\ HealthOk
    /\ state' = "running"
    /\ call' = [call EXCEPT ![c] = Idle]
    /\ UNCHANGED <<process, os, killed, foreign>>

(***************************************************************************)
(* _terminate_process(), on the handle as it is now: nothing to do for     *)
(* None, ProcessLookupError for a child that is gone, otherwise a SIGTERM  *)
(* and a wait.  `after` is the state the caller leaves when it returns.    *)
(***************************************************************************)
\* Mutant: the caller returns without waiting for the child.
TerminateNoWait(c, op, before, after) ==
    /\ process' = NoProcess /\ state' = after
    /\ call' = [call EXCEPT ![c] = Idle]

Terminate(c, op, before, after) ==
    IF process # NoProcess /\ os[process] # "exited"
    THEN /\ state' = before
         /\ call' = [call EXCEPT ![c] = Ending("terminating", op, process)]
         /\ UNCHANGED process
    ELSE /\ process' = NoProcess
         /\ state' = after
         /\ call' = [call EXCEPT ![c] = Idle]

\* The child exited early, or startup_timeout is over.
StartupFailed(c) ==
    /\ call[c].pc = "waiting"
    /\ Terminate(c, "start", "crashed", "crashed")
    /\ UNCHANGED <<os, killed, foreign>>

Stop(c) ==
    /\ Callable(c)
    /\ IF state \in {"running", "starting"}
       THEN Terminate(c, "stop", state, "stopped")
       ELSE process' = NoProcess /\ state' = "stopped" /\ UNCHANGED call
    /\ UNCHANGED <<os, killed, foreign>>

AfterEnd(op) == IF op = "stop" THEN "stopped" ELSE state

\* wait() returns: the handle is cleared, whatever it holds by now.
ChildEnded(c) ==
    /\ call[c].pc \in {"terminating", "killing"}
    /\ os[call[c].child] = "exited"
    /\ process' = NoProcess
    /\ state' = AfterEnd(call[c].op)
    /\ call' = [call EXCEPT ![c] = Idle]
    /\ UNCHANGED <<os, killed, foreign>>

\* Mutant: SIGTERM is repeated instead of the kill.
KilledNone(p) == killed
Killed(p) == killed \cup {p}

\* _TERMINATE_TIMEOUT after SIGTERM: kill() goes to the handle as it is now.  None has
\* no kill() (AttributeError, the call fails and leaves the state); a child
\* that is gone ends the wait.
TerminateTimeout(c) ==
    /\ call[c].pc = "terminating"
    /\ call[c].child \in Alive
    /\ \/ /\ process = NoProcess
          /\ call' = [call EXCEPT ![c] = Idle]
          /\ UNCHANGED <<state, process, killed>>
       \/ /\ process \in Alive
          /\ killed' = Killed(process)
          /\ call' = [call EXCEPT ![c] = Ending("killing", @.op, process)]
          /\ UNCHANGED <<state, process>>
       \/ /\ process # NoProcess /\ process \notin Alive
          /\ process' = NoProcess
          /\ state' = AfterEnd(call[c].op)
          /\ call' = [call EXCEPT ![c] = Idle]
          /\ UNCHANGED killed
    /\ UNCHANGED <<os, foreign>>

(***************************************************************************)
(* The core dies and is started again: the object is new, the children     *)
(* live on.                                                                *)
(***************************************************************************)
CoreDies ==
    /\ "death" \in may
    /\ state' = "stopped" /\ process' = NoProcess
    /\ call' = [c \in Calls |-> Idle]
    /\ UNCHANGED <<os, killed, foreign>>

-----------------------------------------------------------------------------
(***************************************************************************)
(* The operating system: children bind the port (or exit when they cannot),*)
(* load their model, and may exit at any time; somebody else's server may  *)
(* take the port.                                                          *)
(***************************************************************************)
Bind(p) ==
    /\ os[p] = "booting"
    /\ os' = [os EXCEPT ![p] = IF PortInUse THEN "exited" ELSE "loading"]
    /\ UNCHANGED <<state, process, killed, foreign, call>>

Load(p) ==
    /\ os[p] = "loading"
    /\ os' = [os EXCEPT ![p] = "healthy"]
    /\ UNCHANGED <<state, process, killed, foreign, call>>

Exit(p) ==
    /\ p \in Alive
    /\ os' = [os EXCEPT ![p] = "exited"]
    /\ UNCHANGED <<state, process, killed, foreign, call>>

ForeignServer ==
    /\ foreign \/ ~PortInUse
    /\ foreign' = ~foreign
    /\ UNCHANGED <<state, process, os, killed, call>>

-----------------------------------------------------------------------------
Progress(c) ==
    \/ Spawn(c) \/ SpawnError(c) \/ Ready(c) \/ StartupFailed(c)
    \/ ChildEnded(c) \/ TerminateTimeout(c)

Step ==
    \/ ReadState \/ CoreDies \/ ForeignServer
    \/ \E c \in Calls : Start(c) \/ Stop(c) \/ Progress(c)
    \/ \E p \in Procs : Bind(p) \/ Load(p) \/ Exit(p)

Next == Step /\ UNCHANGED may

Spec == Init /\ [][Next]_vars

-----------------------------------------------------------------------------
CallStates ==
    {Idle, Spawning} \cup {Waiting(p) : p \in Procs}
    \cup {Ending(pc, op, p) : pc \in {"terminating", "killing"},
                              op \in {"start", "stop"}, p \in Procs}

\* The object, the children and the calls in flight are well formed.
TypeOK ==
    /\ may \subseteq Hardships
    /\ state \in States
    /\ process \in Procs \cup {NoProcess}
    /\ os \in [Procs -> {"unborn", "booting", "loading", "healthy", "exited"}]
    /\ killed \subseteq Procs
    /\ foreign \in BOOLEAN
    /\ call \in [Calls -> CallStates]

\* The sidecar is never stuck in STARTING, where start() refuses to do
\* anything: unless the log failed, some start() is still spawning or waiting,
\* whatever stops, failing starts and deaths of the core overlap it.
StartingIsInFlight ==
    "log" \notin may /\ state = "starting" =>
        \E c \in Calls : call[c].pc \in {"spawning", "waiting"}

\* Calls take turns in a core that is not killed.
Orderly == may \cap {"overlap", "death"} = {}

\* One child holds the port, and a child that runs was spawned by a start():
\* with calls that never overlap, every living child is the one the handle
\* holds, so it can still be stopped.
NoStray == Orderly => \A p \in Alive : process = p

\* With calls that never overlap, a sidecar at rest that does not claim to run
\* has no living child: failed starts and stops wait for the end.
StoppedMeansGone ==
    Orderly /\ (\A c \in Calls : call[c] = Idle)
            /\ state \in {"stopped", "crashed", "port_conflict"}
        => Alive = {}

\* Every await of a call is bounded: the spawn, the readiness poll by its
\* timeout, the termination by SIGKILL.
Fairness ==
    /\ \A c \in Calls : WF_vars(Progress(c) /\ UNCHANGED may)
    /\ \A p \in Procs : WF_vars(p \in killed /\ Exit(p) /\ UNCHANGED may)

FairSpec == Spec /\ Fairness

\* start() and stop() always return, even when a child ignores SIGTERM and
\* another call has replaced or cleared the handle meanwhile.
CallsReturn == \A c \in Calls : call[c] # Idle ~> call[c] = Idle

=============================================================================
