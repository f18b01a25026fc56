----------------------------- MODULE StartupProofs ---------------------------
(* Proofs about the desktop shell and the startup page: what the handle of    *)
(* the engine, the stored phase and the page hold for any number of restarts, *)
(* engines, strangers, page loads and events under way.                       *)
(*                                                                            *)
(* ShellInv is inductive for the steps of the shell alone (Supervise,         *)
(* Teardown, Environment and the half of Emit that is the shell's).  PageInv  *)
(* adds what the page has read and heard of the phase that is stored.         *)
EXTENDS CoreStartup, SequenceTheorems, TLAPS

Told == Errors \cup {"starting", "restarting", "ready"}
Phases == Told \cup {None}
Places == {"attach", "adopted", "dev", "locate", "find", "spawn", "await", "serve",
           "exited", "backoff", "done"}
Shells == [at : Places, say : Phases, kid : Nat, restarts : 0..MaxRestarts,
           asked : BOOLEAN, dev : BOOLEAN]
Worlds == [others : Nat, resets : Nat, tries : Nat, foreign : BOOLEAN]

ShellTypes ==
  /\ port \in Engines \cup {"stranger", None}
  /\ kids \in Seq({"starting", "serving", "dead"}) /\ Len(kids) <= MaxSpawns
  /\ sh \in Shells /\ sh.kid <= Len(kids)
  /\ stored \in Phases
  /\ quit \in {"no", "flag", "taken", "gone"}
  /\ world \in Worlds

\* Before an engine is started and between two engines there is no handle, nor
\* once teardown has taken it.
Handle ==
  /\ \A k \in DOMAIN kids : Alive(k) => k = sh.kid
  /\ sh.at \notin {"await", "serve", "done"} => sh.kid = NoKid
  /\ quit \in {"taken", "gone"} => sh.kid = NoKid

Editions == (sh.at = "dev" => sh.dev) /\ ReadyIsOurEdition

\* Each start but the first was counted as a restart before it was made.
Counting ==
  /\ world.tries <= sh.restarts + 1
  /\ sh.at \in {"attach", "adopted", "dev", "locate", "find", "spawn", "backoff"}
       => world.tries <= sh.restarts

\* What is still to be emitted is what was stored; an error is the last thing stored.
Said ==
  /\ sh.say \in {None, stored}
  /\ stored \in Errors => sh.at = "done"

ShellInv == ShellTypes /\ Handle /\ Editions /\ Counting /\ Said

\* The half of Emit that concerns the shell.
Emitted ==
  /\ sh.say # None /\ sh' = [sh EXCEPT !.say = None]
  /\ UNCHANGED <<port, kids, stored, quit, world>>

-----------------------------------------------------------------------------
LEMMA KidFacts == NoKid \in Nat
  BY DEF NoKid

\* Killing an engine keeps the row of engines, and only that engine is touched.
LEMMA KilledTypes ==
  ASSUME kids \in Seq({"starting", "serving", "dead"}), NEW k \in DOMAIN kids
  PROVE  /\ KilledKids(k) \in Seq({"starting", "serving", "dead"})
         /\ Len(KilledKids(k)) = Len(kids) /\ DOMAIN KilledKids(k) = DOMAIN kids
         /\ KilledKids(k)[k] = "dead"
         /\ \A j \in DOMAIN kids : j # k => KilledKids(k)[j] = kids[j]
  BY DEF KilledKids

LEMMA WorldsReset ==
  ASSUME world \in Worlds
  PROVE  [world EXCEPT !.resets = @ + 1, !.tries = 0] \in Worlds
<1>1. world.resets + 1 \in Nat /\ 0 \in Nat
  BY DEF Worlds
<1>2. QED BY <1>1 DEF Worlds

LEMMA ShellInvInit == ASSUME ShellInit PROVE ShellInv
<1> USE StartupBounds
<1>1. ShellTypes
  BY DEF ShellInit, ShellTypes, Shells, Places, Phases, Worlds, Engines, Strangers, None, NoKid
<1>2. Handle /\ Editions /\ Counting /\ Said
  BY DEF ShellInit, Handle, Editions, ReadyIsOurEdition, Counting, Said, Errors, None, NoKid, Alive
<1>3. QED BY <1>1, <1>2 DEF ShellInv

LEMMA AttachKeeps == ASSUME ShellInv, Attach PROVE ShellInv'
<1> USE DEF Runs, Say, Ready, Attach
<1>1. ShellTypes'
  <2>1. UNCHANGED <<port, kids, quit>> /\ sh'.kid = sh.kid /\ stored' \in Phases
    BY DEF ShellInv, ShellTypes, Shells, Phases, Told, Errors
  <2>2. sh' \in Shells
    BY DEF ShellInv, ShellTypes, Shells, Places, Phases, Told, Errors
  <2>3. world' \in Worlds
    BY DEF ShellInv, ShellTypes, Worlds
  <2>4. QED BY <2>1, <2>2, <2>3 DEF ShellInv, ShellTypes
<1>2. Handle'
  BY DEF ShellInv, ShellTypes, Shells, Handle, Alive
<1>3. Editions'
  BY DEF ShellInv, ShellTypes, Shells, Worlds, Editions, ReadyIsOurEdition, Foreign
<1>4. Counting'
  BY DEF ShellInv, ShellTypes, Shells, Worlds, Counting
<1>5. Said'
  BY DEF ShellInv, ShellTypes, Shells, Said, Errors, None
<1>6. QED BY <1>1, <1>2, <1>3, <1>4, <1>5 DEF ShellInv

LEMMA AdoptedKeeps == ASSUME ShellInv, Adopted PROVE ShellInv'
<1> USE DEF Adopted, Runs, Say
<1>1. ShellTypes'
  <2>1. UNCHANGED <<port, kids, quit>> /\ sh'.kid = sh.kid /\ stored' \in Phases
    BY DEF ShellInv, ShellTypes, Shells, Phases, Told, Errors
  <2>2. sh' \in Shells
    BY DEF ShellInv, ShellTypes, Shells, Places, Phases, Told, Errors
  <2>3. world' \in Worlds
    BY DEF ShellInv, ShellTypes, Worlds
  <2>4. QED BY <2>1, <2>2, <2>3 DEF ShellInv, ShellTypes, Shells
<1>2. Handle'
  BY DEF ShellInv, ShellTypes, Shells, Handle, Alive
<1>3. Editions'
  BY DEF ShellInv, ShellTypes, Shells, Worlds, Editions, ReadyIsOurEdition
<1>4. Counting'
  BY DEF ShellInv, ShellTypes, Shells, Worlds, Counting
<1>5. Said'
  BY DEF ShellInv, ShellTypes, Shells, Said, Errors, None
<1>6. QED BY <1>1, <1>2, <1>3, <1>4, <1>5 DEF ShellInv

LEMMA WaitForDevKeeps == ASSUME ShellInv, WaitForDev PROVE ShellInv'
<1> USE DEF WaitForDev, Runs, Say, Ready
<1>1. ShellTypes'
  <2>1. UNCHANGED <<port, kids, quit>> /\ sh'.kid = sh.kid /\ stored' \in Phases
    BY DEF ShellInv, ShellTypes, Shells, Phases, Told, Errors
  <2>2. sh' \in Shells
    BY DEF ShellInv, ShellTypes, Shells, Places, Phases, Told, Errors
  <2>3. world' \in Worlds
    BY DEF ShellInv, ShellTypes, Worlds
  <2>4. QED BY <2>1, <2>2, <2>3 DEF ShellInv, ShellTypes, Shells
<1>2. Handle'
  BY DEF ShellInv, ShellTypes, Shells, Handle, Alive
<1>3. Editions'
  BY DEF ShellInv, ShellTypes, Shells, Worlds, Editions, ReadyIsOurEdition
<1>4. Counting'
  BY DEF ShellInv, ShellTypes, Shells, Worlds, Counting
<1>5. Said'
  BY DEF ShellInv, ShellTypes, Shells, Said, Errors, None
<1>6. QED BY <1>1, <1>2, <1>3, <1>4, <1>5 DEF ShellInv

LEMMA LocateKeeps == ASSUME ShellInv, Locate PROVE ShellInv'
<1> USE DEF Locate, Runs, Say
<1>1. ShellTypes'
  <2>1. UNCHANGED <<port, kids, quit>> /\ sh'.kid = sh.kid /\ stored' \in Phases
    BY DEF ShellInv, ShellTypes, Shells, Phases, Told, Errors
  <2>2. sh' \in Shells
    BY DEF ShellInv, ShellTypes, Shells, Places, Phases, Told, Errors
  <2>3. world' \in Worlds
    BY DEF ShellInv, ShellTypes, Worlds
  <2>4. QED BY <2>1, <2>2, <2>3 DEF ShellInv, ShellTypes, Shells
<1>2. Handle'
  BY DEF ShellInv, ShellTypes, Shells, Handle, Alive
<1>3. Editions'
  BY DEF ShellInv, ShellTypes, Shells, Worlds, Editions, ReadyIsOurEdition
<1>4. Counting'
  BY DEF ShellInv, ShellTypes, Shells, Worlds, Counting
<1>5. Said'
  BY DEF ShellInv, ShellTypes, Shells, Said, Errors, None
<1>6. QED BY <1>1, <1>2, <1>3, <1>4, <1>5 DEF ShellInv

LEMMA FindCoreExecutableKeeps == ASSUME ShellInv, FindCoreExecutable PROVE ShellInv'
<1> USE DEF FindCoreExecutable, Runs, Say
<1>1. ShellTypes'
  <2>1. UNCHANGED <<port, kids, quit>> /\ sh'.kid = sh.kid /\ stored' \in Phases
    BY DEF ShellInv, ShellTypes, Shells, Phases, Told, Errors
  <2>2. sh' \in Shells
    BY DEF ShellInv, ShellTypes, Shells, Places, Phases, Told, Errors
  <2>3. world' \in Worlds
    BY DEF ShellInv, ShellTypes, Worlds
  <2>4. QED BY <2>1, <2>2, <2>3 DEF ShellInv, ShellTypes, Shells
<1>2. Handle'
  BY DEF ShellInv, ShellTypes, Shells, Handle, Alive
<1>3. Editions'
  BY DEF ShellInv, ShellTypes, Shells, Worlds, Editions, ReadyIsOurEdition
<1>4. Counting'
  BY DEF ShellInv, ShellTypes, Shells, Worlds, Counting
<1>5. Said'
  BY DEF ShellInv, ShellTypes, Shells, Said, Errors, None
<1>6. QED BY <1>1, <1>2, <1>3, <1>4, <1>5 DEF ShellInv

LEMMA AwaitGivesUpKeeps == ASSUME ShellInv, AwaitGivesUp PROVE ShellInv'
<1> USE DEF AwaitGivesUp, Runs
<1>1. ShellTypes'
  <2>1. UNCHANGED <<port, kids, quit>> /\ sh'.kid = sh.kid /\ stored' \in Phases
    BY DEF ShellInv, ShellTypes, Shells, Phases, Told, Errors
  <2>2. sh' \in Shells
    BY DEF ShellInv, ShellTypes, Shells, Places, Phases, Told, Errors
  <2>3. world' \in Worlds
    BY DEF ShellInv, ShellTypes, Worlds
  <2>4. QED BY <2>1, <2>2, <2>3 DEF ShellInv, ShellTypes, Shells
<1>2. Handle'
  BY DEF ShellInv, ShellTypes, Shells, Handle, Alive
<1>3. Editions'
  BY DEF ShellInv, ShellTypes, Shells, Worlds, Editions, ReadyIsOurEdition
<1>4. Counting'
  BY DEF ShellInv, ShellTypes, Shells, Worlds, Counting
<1>5. Said'
  BY DEF ShellInv, ShellTypes, Shells, Said, Errors, None
<1>6. QED BY <1>1, <1>2, <1>3, <1>4, <1>5 DEF ShellInv

LEMMA AwaitExitedKeeps == ASSUME ShellInv, AwaitExited PROVE ShellInv'
<1> USE DEF AwaitExited, Runs, SayWithout
<1>1. ShellTypes'
  <2>1. UNCHANGED <<port, kids, quit>> /\ sh'.kid \in {sh.kid, NoKid} /\ stored' \in Phases
    BY DEF ShellInv, ShellTypes, Shells, Phases, Told, Errors, Lost
  <2>2. sh' \in Shells
    BY KidFacts DEF ShellInv, ShellTypes, Shells, Places, Phases, Told, Errors, Lost
  <2>3. world' \in Worlds
    BY DEF ShellInv, ShellTypes, Worlds
  <2>4. QED BY <2>1, <2>2, <2>3 DEF ShellInv, ShellTypes, Shells, NoKid
<1>2. Handle'
  BY DEF ShellInv, ShellTypes, Shells, Handle, Alive, NoKid
<1>3. Editions'
  BY DEF ShellInv, ShellTypes, Shells, Worlds, Editions, ReadyIsOurEdition, Lost
<1>4. Counting'
  BY DEF ShellInv, ShellTypes, Shells, Worlds, Counting
<1>5. Said'
  BY DEF ShellInv, ShellTypes, Shells, Said, Errors, None, Lost
<1>6. QED BY <1>1, <1>2, <1>3, <1>4, <1>5 DEF ShellInv

LEMMA AwaitTimeoutKeeps == ASSUME ShellInv, AwaitTimeout PROVE ShellInv'
<1> USE DEF AwaitTimeout, Runs, Say
<1>1. ShellTypes'
  <2>1. UNCHANGED <<port, kids, quit>> /\ sh'.kid = sh.kid /\ stored' \in Phases
    BY DEF ShellInv, ShellTypes, Shells, Phases, Told, Errors
  <2>2. sh' \in Shells
    BY DEF ShellInv, ShellTypes, Shells, Places, Phases, Told, Errors
  <2>3. world' \in Worlds
    BY DEF ShellInv, ShellTypes, Worlds
  <2>4. QED BY <2>1, <2>2, <2>3 DEF ShellInv, ShellTypes, Shells
<1>2. Handle'
  BY DEF ShellInv, ShellTypes, Shells, Handle, Alive
<1>3. Editions'
  BY DEF ShellInv, ShellTypes, Shells, Worlds, Editions, ReadyIsOurEdition
<1>4. Counting'
  BY DEF ShellInv, ShellTypes, Shells, Worlds, Counting
<1>5. Said'
  BY DEF ShellInv, ShellTypes, Shells, Said, Errors, None
<1>6. QED BY <1>1, <1>2, <1>3, <1>4, <1>5 DEF ShellInv

LEMMA WaitForChildExitKeeps == ASSUME ShellInv, WaitForChildExit PROVE ShellInv'
<1> USE DEF WaitForChildExit, Runs
<1>1. ShellTypes'
  <2>1. UNCHANGED <<port, kids, quit>> /\ sh'.kid \in {sh.kid, NoKid} /\ stored' \in Phases
    BY DEF ShellInv, ShellTypes, Shells, Phases, Told, Errors
  <2>2. sh' \in Shells
    BY KidFacts DEF ShellInv, ShellTypes, Shells, Places
  <2>3. world' \in Worlds
    BY DEF ShellInv, ShellTypes, Worlds
  <2>4. QED BY <2>1, <2>2, <2>3 DEF ShellInv, ShellTypes, Shells, NoKid
<1>2. Handle'
  BY DEF ShellInv, ShellTypes, Shells, Handle, Alive, NoKid
<1>3. Editions'
  BY DEF ShellInv, ShellTypes, Shells, Worlds, Editions, ReadyIsOurEdition
<1>4. Counting'
  BY DEF ShellInv, ShellTypes, Shells, Worlds, Counting
<1>5. Said'
  BY DEF ShellInv, ShellTypes, Shells, Said, Errors, None
<1>6. QED BY <1>1, <1>2, <1>3, <1>4, <1>5 DEF ShellInv

LEMMA RestartBackoffKeeps == ASSUME ShellInv, RestartBackoff PROVE ShellInv'
<1> USE DEF RestartBackoff, Runs
<1>1. ShellTypes'
  <2>1. UNCHANGED <<port, kids, quit>> /\ sh'.kid = sh.kid /\ stored' \in Phases
    BY DEF ShellInv, ShellTypes, Shells, Phases, Told, Errors
  <2>2. sh' \in Shells
    BY DEF ShellInv, ShellTypes, Shells, Places, Phases, Told, Errors
  <2>3. world' \in Worlds
    BY DEF ShellInv, ShellTypes, Worlds
  <2>4. QED BY <2>1, <2>2, <2>3 DEF ShellInv, ShellTypes, Shells
<1>2. Handle'
  BY DEF ShellInv, ShellTypes, Shells, Handle, Alive
<1>3. Editions'
  BY DEF ShellInv, ShellTypes, Shells, Worlds, Editions, ReadyIsOurEdition
<1>4. Counting'
  BY DEF ShellInv, ShellTypes, Shells, Worlds, Counting
<1>5. Said'
  BY DEF ShellInv, ShellTypes, Shells, Said, Errors, None
<1>6. QED BY <1>1, <1>2, <1>3, <1>4, <1>5 DEF ShellInv

LEMMA ExitedKeeps == ASSUME ShellInv, Exited PROVE ShellInv'
<1> USE DEF Runs
<1>1. CASE quit # "no" /\ sh' = [sh EXCEPT !.at = "done"] /\ UNCHANGED <<stored, world>>
  <2>1. ShellTypes'
    <3>1. sh' \in Shells
      BY <1>1 DEF ShellInv, ShellTypes, Shells, Places
    <3>2. QED BY <3>1, <1>1 DEF Exited, ShellInv, ShellTypes, Shells
  <2>2. Handle' /\ Editions' /\ Counting' /\ Said'
    BY <1>1 DEF Exited, ShellInv, ShellTypes, Shells, Handle, Alive, Editions,
                ReadyIsOurEdition, Counting, Said
  <2>3. QED BY <2>1, <2>2 DEF ShellInv
<1>2. CASE port \in Engines /\ Say(Lost(port), "done") /\ UNCHANGED world
  <2>1. ShellTypes'
    <3>1. sh' \in Shells
      BY <1>2 DEF ShellInv, ShellTypes, Shells, Places, Say, Lost, Phases, Told, Errors
    <3>2. QED BY <3>1, <1>2 DEF Exited, ShellInv, ShellTypes, Shells, Say, Lost, Phases, Told, Errors
  <2>2. Handle' /\ Editions' /\ Counting' /\ Said'
    BY <1>2 DEF Exited, ShellInv, ShellTypes, Shells, Handle, Alive, Editions,
                ReadyIsOurEdition, Counting, Said, Say, Lost
  <2>3. QED BY <2>1, <2>2 DEF ShellInv
<1>3. ASSUME NEW long \in BOOLEAN,
             world' = (IF long THEN [world EXCEPT !.resets = @ + 1, !.tries = 0] ELSE world),
             GivesUp(IF long THEN 1 ELSE sh.restarts + 1), Say("stops", "done")
      PROVE  ShellInv'
  <2>1. ShellTypes'
    <3>1. sh' \in Shells
      BY <1>3 DEF ShellInv, ShellTypes, Shells, Places, Say, Phases, Told, Errors
    <3>2. world' \in Worlds
      BY WorldsReset, <1>3 DEF ShellInv, ShellTypes
    <3>3. QED BY <3>1, <3>2, <1>3 DEF Exited, ShellInv, ShellTypes, Shells, Say, Phases, Told, Errors
  <2>2. Handle' /\ Editions' /\ Said'
    BY <1>3 DEF Exited, ShellInv, ShellTypes, Shells, Worlds, Handle, Alive, Editions,
                ReadyIsOurEdition, Said, Say
  <2>3. Counting'
    BY <1>3 DEF Exited, ShellInv, ShellTypes, Shells, Worlds, Counting, Say
  <2>4. QED BY <2>1, <2>2, <2>3 DEF ShellInv
<1>4. ASSUME NEW long \in BOOLEAN, NEW n, n = (IF long THEN 1 ELSE sh.restarts + 1),
             world' = (IF long THEN [world EXCEPT !.resets = @ + 1, !.tries = 0] ELSE world),
             ~GivesUp(n), stored' = "restarting",
             sh' = [sh EXCEPT !.at = "backoff", !.say = "restarting", !.restarts = n]
      PROVE  ShellInv'
  <2>1. n \in 0..MaxRestarts
    BY <1>4, StartupBounds DEF ShellInv, ShellTypes, Shells, GivesUp
  <2>2. ShellTypes'
    <3>1. sh' \in Shells
      BY <1>4, <2>1 DEF ShellInv, ShellTypes, Shells, Places, Phases, Told
    <3>2. world' \in Worlds
      BY WorldsReset, <1>4 DEF ShellInv, ShellTypes
    <3>3. sh'.kid = sh.kid /\ stored' \in Phases
      BY <1>4 DEF ShellInv, ShellTypes, Shells, Phases, Told
    <3>4. QED BY <3>1, <3>2, <3>3, <1>4 DEF Exited, ShellInv, ShellTypes
  <2>3. Handle' /\ Editions' /\ Said'
    BY <1>4 DEF Exited, ShellInv, ShellTypes, Shells, Worlds, Handle, Alive, Editions,
                ReadyIsOurEdition, Said, Errors
  <2>4. Counting'
    BY <1>4, <2>1 DEF ShellInv, ShellTypes, Shells, Worlds, Counting
  <2>5. QED BY <2>2, <2>3, <2>4 DEF ShellInv
<1>5. QED BY <1>1, <1>2, <1>3, <1>4 DEF Exited

LEMMA SpawnCoreKeeps == ASSUME ShellInv, SpawnCore PROVE ShellInv'
<1> USE DEF Runs
<1>1. ASSUME MaySpawn, Len(kids) < MaxSpawns, kids' = Append(kids, "starting"),
             stored' = "starting",
             sh' = [sh EXCEPT !.at = "await", !.say = "starting", !.kid = Len(kids) + 1,
                              !.asked = FALSE],
             world' = [world EXCEPT !.tries = @ + 1]
      PROVE  ShellInv'
  <2>1. /\ kids' \in Seq({"starting", "serving", "dead"}) /\ Len(kids') = Len(kids) + 1
        /\ \A k \in DOMAIN kids : kids'[k] = kids[k]
        /\ DOMAIN kids' = 1 .. Len(kids) + 1
    BY <1>1 DEF ShellInv, ShellTypes
  <2>2. ShellTypes'
    <3>1. sh' \in Shells
      <4>1. Len(kids) + 1 \in Nat
        BY DEF ShellInv, ShellTypes
      <4>2. QED BY <4>1, <1>1 DEF ShellInv, ShellTypes, Shells, Places, Phases, Told
    <3>2. world' \in Worlds
      BY <1>1 DEF ShellInv, ShellTypes, Worlds
    <3>3. sh'.kid <= Len(kids') /\ Len(kids') <= MaxSpawns
      BY <1>1, <2>1, StartupBounds DEF ShellInv, ShellTypes, Shells
    <3>4. QED BY <3>1, <3>2, <3>3, <2>1, <1>1 DEF SpawnCore, ShellInv, ShellTypes, Phases, Told
  <2>3. \A k \in DOMAIN kids : ~Alive(k)
    BY DEF SpawnCore, ShellInv, ShellTypes, Handle, NoKid
  <2>4. Handle'
    BY <1>1, <2>1, <2>3 DEF SpawnCore, ShellInv, ShellTypes, Shells, Handle, Alive, MaySpawn
  <2>5. Editions' /\ Said'
    BY <1>1 DEF ShellInv, ShellTypes, Shells, Worlds, Editions, ReadyIsOurEdition, Said, Errors
  <2>6. Counting'
    BY <1>1 DEF SpawnCore, ShellInv, ShellTypes, Shells, Worlds, Counting
  <2>7. QED BY <2>2, <2>4, <2>5, <2>6 DEF ShellInv
<1>2. ASSUME NEW cause \in {"missing", "crashed"}, Say(cause, "done"), UNCHANGED <<kids, world>>
      PROVE  ShellInv'
  <2>1. ShellTypes'
    <3>1. sh' \in Shells
      BY <1>2 DEF ShellInv, ShellTypes, Shells, Places, Say, Phases, Told, Errors
    <3>2. QED BY <3>1, <1>2 DEF SpawnCore, ShellInv, ShellTypes, Shells, Say, Phases, Told, Errors
  <2>2. Handle' /\ Editions' /\ Counting' /\ Said'
    BY <1>2 DEF SpawnCore, ShellInv, ShellTypes, Shells, Handle, Alive, Editions,
                ReadyIsOurEdition, Counting, Said, Say
  <2>3. QED BY <2>1, <2>2 DEF ShellInv
<1>3. CASE sh' = [sh EXCEPT !.at = "done"] /\ UNCHANGED <<kids, stored, world>>
  <2>1. ShellTypes'
    <3>1. sh' \in Shells
      BY <1>3 DEF ShellInv, ShellTypes, Shells, Places
    <3>2. QED BY <3>1, <1>3 DEF SpawnCore, ShellInv, ShellTypes, Shells
  <2>2. Handle' /\ Editions' /\ Counting' /\ Said'
    BY <1>3 DEF SpawnCore, ShellInv, ShellTypes, Shells, Handle, Alive, Editions,
                ReadyIsOurEdition, Counting, Said
  <2>3. QED BY <2>1, <2>2 DEF ShellInv
<1>4. QED BY <1>1, <1>2, <1>3 DEF SpawnCore

LEMMA AwaitAnsweredKeeps == ASSUME ShellInv, AwaitAnswered PROVE ShellInv'
<1> USE DEF Runs
<1>1. CASE AnswersForUs(port) /\ Say("ready", "serve") /\ Ready(port) /\ UNCHANGED <<port, kids>>
  <2>1. ShellTypes'
    <3>1. sh' \in Shells
      BY <1>1 DEF ShellInv, ShellTypes, Shells, Places, Say, Phases, Told
    <3>2. world' \in Worlds
      BY <1>1 DEF ShellInv, ShellTypes, Worlds, Ready
    <3>3. QED BY <3>1, <3>2, <1>1 DEF AwaitAnswered, ShellInv, ShellTypes, Shells, Say, Phases, Told
  <2>2. Handle' /\ Said'
    BY <1>1 DEF AwaitAnswered, ShellInv, ShellTypes, Shells, Handle, Alive, Said, Say, Errors
  <2>3. Editions' /\ Counting'
    BY <1>1 DEF AwaitAnswered, ShellInv, ShellTypes, Shells, Worlds, Editions,
                ReadyIsOurEdition, Counting, Say, Ready, AnswersForUs
  <2>4. QED BY <2>1, <2>2, <2>3 DEF ShellInv
<1>2. CASE StoppedFirst /\ SayWithout("foreign", "done") /\ UNCHANGED world
  <2> DEFINE k == sh.kid
  <2>1. k \in DOMAIN kids /\ kids' = KilledKids(k) /\ port' \in {port, None}
    BY <1>2 DEF AwaitAnswered, ShellInv, ShellTypes, Shells, NoKid, StoppedFirst, PortWithout
  <2>2. /\ kids' \in Seq({"starting", "serving", "dead"}) /\ Len(kids') = Len(kids)
        /\ DOMAIN kids' = DOMAIN kids /\ kids'[k] = "dead"
        /\ \A j \in DOMAIN kids : j # k => kids'[j] = kids[j]
    BY <2>1, KilledTypes DEF ShellInv, ShellTypes
  <2>3. ShellTypes'
    <3>1. sh' \in Shells
      BY <1>2, KidFacts DEF ShellInv, ShellTypes, Shells, Places, SayWithout, Phases, Told, Errors
    <3>2. sh'.kid <= Len(kids')
      BY <1>2, <2>2 DEF ShellInv, ShellTypes, Shells, SayWithout, NoKid
    <3>3. QED BY <3>1, <3>2, <2>1, <2>2, <1>2
          DEF AwaitAnswered, ShellInv, ShellTypes, SayWithout, Phases, Told, Errors
  <2>4. Handle'
    BY <1>2, <2>2 DEF ShellInv, ShellTypes, Shells, Handle, Alive, SayWithout, NoKid
  <2>5. Editions' /\ Counting' /\ Said'
    BY <1>2 DEF AwaitAnswered, ShellInv, ShellTypes, Shells, Editions, ReadyIsOurEdition,
                Counting, Said, SayWithout
  <2>6. QED BY <2>3, <2>4, <2>5 DEF ShellInv
<1>3. QED BY <1>1, <1>2 DEF AwaitAnswered

LEMMA SuperviseKeeps == ASSUME ShellInv, Supervise PROVE ShellInv'
  BY AttachKeeps, AdoptedKeeps, WaitForDevKeeps, LocateKeeps, FindCoreExecutableKeeps,
     SpawnCoreKeeps, AwaitGivesUpKeeps, AwaitExitedKeeps, AwaitAnsweredKeeps, AwaitTimeoutKeeps,
     WaitForChildExitKeeps, ExitedKeeps, RestartBackoffKeeps DEF Supervise

-----------------------------------------------------------------------------
LEMMA TeardownKeeps == ASSUME ShellInv, Teardown PROVE ShellInv'
<1>1. CASE Flag \/ Gone
  BY <1>1 DEF Flag, Gone, ShellInv, ShellTypes, Handle, Alive, Editions, ReadyIsOurEdition,
              Counting, Said
<1>2. CASE Take
  <2> DEFINE k == sh.kid
  <2>1. sh' \in Shells /\ sh' = [sh EXCEPT !.kid = NoKid] /\ UNCHANGED <<stored, world>>
    BY <1>2, KidFacts DEF Take, ShellInv, ShellTypes, Shells
  <2>2. CASE k = NoKid
    <3>1. UNCHANGED <<kids, port, sh>>
      BY <1>2, <2>1, <2>2 DEF Take, ShellInv, ShellTypes, Shells
    <3>2. QED BY <3>1, <2>2, <1>2 DEF Take, ShellInv, ShellTypes, Handle, Alive, Editions,
                                      ReadyIsOurEdition, Counting, Said
  <2>3. CASE k # NoKid
    <3>1. k \in DOMAIN kids /\ kids' = KilledKids(k) /\ port' \in {port, None}
      BY <1>2, <2>3 DEF Take, ShellInv, ShellTypes, Shells, NoKid, Shutdown, PortWithout
    <3>2. /\ kids' \in Seq({"starting", "serving", "dead"}) /\ Len(kids') = Len(kids)
          /\ DOMAIN kids' = DOMAIN kids /\ kids'[k] = "dead"
          /\ \A j \in DOMAIN kids : j # k => kids'[j] = kids[j]
      BY <3>1, KilledTypes DEF ShellInv, ShellTypes
    <3>3. ShellTypes'
      <4>1. sh'.kid <= Len(kids')
        BY <2>1, <3>2 DEF ShellInv, ShellTypes, Shells, NoKid
      <4>2. QED BY <4>1, <2>1, <3>1, <3>2, <1>2 DEF Take, ShellInv, ShellTypes
    <3>4. Handle'
      BY <2>1, <3>2 DEF ShellInv, ShellTypes, Shells, Handle, Alive
    <3>5. Editions' /\ Counting' /\ Said'
      BY <2>1 DEF ShellInv, ShellTypes, Shells, Editions, ReadyIsOurEdition, Counting, Said
    <3>6. QED BY <3>3, <3>4, <3>5 DEF ShellInv
  <2>4. QED BY <2>2, <2>3
<1>3. QED BY <1>1, <1>2 DEF Teardown

LEMMA EnvironmentKeeps == ASSUME ShellInv, Environment PROVE ShellInv'
<1>1. CASE KidBinds
  <2>1. PICK k \in DOMAIN kids : kids[k] = "starting" /\ kids' = [kids EXCEPT ![k] = "serving"]
    BY <1>1 DEF KidBinds
  <2>2. /\ kids' \in Seq({"starting", "serving", "dead"}) /\ Len(kids') = Len(kids)
        /\ DOMAIN kids' = DOMAIN kids
        /\ \A j \in DOMAIN kids : kids'[j] # "dead" => kids[j] # "dead"
    BY <2>1 DEF ShellInv, ShellTypes
  <2>3. QED BY <2>2, <1>1 DEF KidBinds, ShellInv, ShellTypes, Engines, Handle, Alive, Editions,
                              ReadyIsOurEdition, Counting, Said
<1>2. CASE KidDies
  <2>1. PICK k \in DOMAIN kids : kids' = KilledKids(k) /\ port' \in {port, None}
    BY <1>2 DEF KidDies, PortWithout
  <2>2. /\ kids' \in Seq({"starting", "serving", "dead"}) /\ Len(kids') = Len(kids)
        /\ DOMAIN kids' = DOMAIN kids
        /\ \A j \in DOMAIN kids : kids'[j] # "dead" => kids[j] # "dead"
    BY <2>1, KilledTypes DEF ShellInv, ShellTypes
  <2>3. QED BY <2>1, <2>2, <1>2 DEF KidDies, ShellInv, ShellTypes, Handle, Alive, Editions,
                                    ReadyIsOurEdition, Counting, Said
<1>3. CASE OtherComes
  <2>1. world' \in Worlds /\ world'.tries = world.tries /\ world'.foreign = world.foreign
    BY <1>3 DEF OtherComes, ShellInv, ShellTypes, Worlds
  <2>2. QED BY <2>1, <1>3 DEF OtherComes, ShellInv, ShellTypes, Engines, Strangers, Handle, Alive,
                              Editions, ReadyIsOurEdition, Counting, Said
<1>4. CASE OtherLeaves
  BY <1>4 DEF OtherLeaves, ShellInv, ShellTypes, Handle, Alive, Editions, ReadyIsOurEdition,
              Counting, Said
<1>5. QED BY <1>1, <1>2, <1>3, <1>4 DEF Environment

LEMMA EmittedKeeps == ASSUME ShellInv, Emitted PROVE ShellInv'
<1>1. sh' \in Shells
  BY DEF Emitted, ShellInv, ShellTypes, Shells, Phases, Told
<1>2. QED BY <1>1 DEF Emitted, ShellInv, ShellTypes, Shells, Handle, Alive, Editions,
                      ReadyIsOurEdition, Counting, Said

\* What a step of the shell may do to what the page follows.
LEMMA ShellStored ==
  ASSUME ShellInv, Supervise \/ Teardown \/ Environment
  PROVE  /\ sh'.say = None => sh.say = None /\ stored' = stored
         /\ stored # None => stored' # None
         /\ stored \in Errors => stored' = stored
         /\ quit' = "no" => quit = "no"
<1>1. CASE Supervise
  <2>1. /\ sh'.say = None => stored' = stored
        /\ stored # None => stored' # None
    BY <1>1 DEF Supervise, Attach, Adopted, WaitForDev, Locate, FindCoreExecutable, SpawnCore,
                AwaitGivesUp, AwaitExited, AwaitAnswered, AwaitTimeout, WaitForChildExit, Exited,
                RestartBackoff, Say, SayWithout, Lost, None, ShellInv, ShellTypes, Shells
  <2>2. sh.say = None /\ sh.at # "done" /\ quit' = quit
    BY <1>1 DEF Supervise, Attach, Adopted, WaitForDev, Locate, FindCoreExecutable, SpawnCore,
                AwaitGivesUp, AwaitExited, AwaitAnswered, AwaitTimeout, WaitForChildExit, Exited,
                RestartBackoff, Runs
  <2>3. QED BY <2>1, <2>2 DEF ShellInv, Said
<1>2. CASE Teardown
  BY <1>2 DEF Teardown, Flag, Take, Gone, ShellInv, ShellTypes, Shells
<1>3. CASE Environment
  BY <1>3 DEF Environment, KidBinds, KidDies, OtherComes, OtherLeaves
<1>4. QED BY <1>1, <1>2, <1>3

-----------------------------------------------------------------------------
Pages ==
  [no : 0..MaxPages, failed : BOOLEAN, status : Phases, ready : BOOLEAN,
   listen : {"no page", "asked", "on", "failed"}, events : Seq(Told), live : BOOLEAN,
   snap : {"idle", "asked", "read", "settled"}, read : Phases,
   health : {"asked", "yes", "done"}, deaf : BOOLEAN]

Shows(v) == pg.status = v /\ (pg.ready <=> v = "ready")

\* Nothing is under way to the page that it could still hear.
Quiet == pg.events = <<>> /\ sh.say = None

\* An unheard page has read, or will read, what is stored; a page that heard an
\* event shows the last one; the last event under way is what is stored.
Follows ==
  /\ pg.no # 0 => pg.listen # "no page"
  /\ pg.listen \in {"no page", "asked"} => pg.snap = "idle"
  /\ pg.listen = "failed" => pg.deaf /\ pg.snap = "settled"
  /\ pg.events # <<>> \/ pg.live => pg.listen = "on" /\ stored # None
  /\ pg.events # <<>> /\ sh.say = None => pg.events[Len(pg.events)] = stored
  /\ pg.live /\ Quiet => Shows(stored)
  /\ pg.snap = "read" /\ ~pg.live /\ Quiet => pg.read = stored
  /\ pg.snap = "settled" /\ ~pg.live /\ ~pg.deaf /\ Quiet /\ stored # None => Shows(stored)

\* Whatever a page loaded after the end hears or reads is the error.
Failing ==
  pg.no # 0 /\ pg.failed =>
    /\ stored \in Errors /\ pg.events \in Seq(Errors)
    /\ pg.snap = "read" => pg.read \in Errors
    /\ pg.live \/ (pg.snap = "settled" /\ ~pg.deaf) => pg.status \in Errors
    /\ ~pg.deaf => ~pg.ready

PageInv == pg \in Pages /\ (OnPage => Follows) /\ Failing

LEMMA PageInvInit == ASSUME Init PROVE PageInv
<1>1. <<>> \in Seq(Told) /\ 0 \in 0..MaxPages /\ (stored \in Errors) \in BOOLEAN
  BY StartupBounds
<1>2. pg \in Pages /\ pg.no = 0
  <2>1. Page(0) \in Pages /\ Page(0).no = 0
    BY <1>1 DEF Page, Pages, Phases
  <2>2. pg = [Page(0) EXCEPT !.listen = "no page"]
    BY DEF Init
  <2>3. QED BY <2>1, <2>2 DEF Pages
<1>3. QED BY <1>2 DEF PageInv, OnPage, Failing

LEMMA FreshPage ==
  ASSUME ShellInv, NEW n \in 1..MaxPages, pg' = Page(n), Shell
  PROVE  PageInv'
<1>1. /\ pg'.no = n /\ pg'.failed = (stored \in Errors) /\ pg'.status = None
      /\ pg'.ready = FALSE /\ pg'.listen = "asked" /\ pg'.events = <<>> /\ pg'.live = FALSE
      /\ pg'.snap = "idle" /\ pg'.deaf = FALSE
  BY DEF Page
<1>2. <<>> \in Seq(Told) /\ <<>> \in Seq(Errors) /\ n \in 0..MaxPages /\ stored' = stored
  BY StartupBounds DEF Shell, svars
<1>3. pg' \in Pages
  <2>1. (stored \in Errors) \in BOOLEAN
    OBVIOUS
  <2>2. QED BY <1>2, <2>1 DEF Page, Pages, Phases
<1>4. Follows'
  BY <1>1 DEF Follows
<1>5. Failing'
  BY <1>1, <1>2 DEF Failing
<1>6. QED BY <1>3, <1>4, <1>5 DEF PageInv

LEMMA ShellStepFollowed ==
  ASSUME ShellInv, PageInv, Supervise \/ Teardown \/ Environment, UNCHANGED pg
  PROVE  PageInv'
<1>1. Failing'
  BY ShellStored DEF PageInv, Failing
<1>2. ASSUME OnPage' PROVE Follows'
  <2>1. OnPage /\ Follows
    BY <1>2, ShellStored DEF OnPage, PageInv
  <2>2. QED BY <2>1, ShellStored DEF Follows, Quiet, Shows
<1>3. QED BY <1>1, <1>2 DEF PageInv

LEMMA EmitHeard ==
  ASSUME ShellInv, PageInv, Emit
  PROVE  PageInv'
<1>1. sh.say = stored /\ stored \in Told /\ sh'.say = None /\ stored' = stored /\ quit' = quit
  BY DEF Emit, ShellInv, ShellTypes, Shells, Said, Phases
<1>2. CASE Hears
  <2>1. pg' = [pg EXCEPT !.events = Append(pg.events, stored)]
    BY <1>1, <1>2 DEF Emit
  <2>2. pg.events \in Seq(Told)
    BY DEF PageInv, Pages
  <2>3. /\ Append(pg.events, stored) \in Seq(Told) /\ Append(pg.events, stored) # <<>>
        /\ Append(pg.events, stored)[Len(Append(pg.events, stored))] = stored
    BY <1>1, <2>2
  <2>4. pg' \in Pages
    BY <2>1, <2>3 DEF PageInv, Pages
  <2>5. Follows'
    BY <1>1, <1>2, <2>1, <2>3 DEF PageInv, Pages, Follows, Hears, Quiet, Told, Errors, None
  <2>6. pg.events \in Seq(Errors) /\ stored \in Errors => Append(pg.events, stored) \in Seq(Errors)
    OBVIOUS
  <2>7. Failing'
    BY <1>1, <2>1, <2>6 DEF PageInv, Pages, Failing
  <2>8. QED BY <2>4, <2>5, <2>7 DEF PageInv
<1>3. CASE ~Hears
  <2>1. UNCHANGED pg
    BY <1>3 DEF Emit
  <2>2. OnPage' => Follows'
    BY <1>1, <1>3, <2>1 DEF PageInv, Pages, Follows, Hears, OnPage, Quiet
  <2>3. QED BY <1>1, <2>1, <2>2 DEF PageInv, Failing
<1>4. QED BY <1>2, <1>3

\* Taking the head of a sequence leaves its last element where it is.
LEMMA LastOfTail ==
  ASSUME NEW S, NEW q \in Seq(S), q # <<>>
  PROVE  /\ Head(q) \in S /\ Tail(q) \in Seq(S)
         /\ Tail(q) = <<>> => Head(q) = q[Len(q)]
         /\ Tail(q) # <<>> => Tail(q)[Len(Tail(q))] = q[Len(q)]
<1>1. Head(q) = q[1] /\ Len(q) \in Nat \ {0} /\ Head(q) \in S /\ Tail(q) \in Seq(S)
  OBVIOUS
<1>2. Len(Tail(q)) = Len(q) - 1
  OBVIOUS
<1>3. Tail(q) = <<>> <=> Len(q) = 1
  <2>1. Tail(q) # <<>> => Len(Tail(q)) \in Nat \ {0}
    BY <1>1, EmptySeq
  <2>2. Tail(q) = <<>> => Len(Tail(q)) = 0
    BY EmptySeq
  <2>3. QED BY <1>1, <1>2, <2>1, <2>2
<1>4. ASSUME Len(q) # 1 PROVE Tail(q)[Len(Tail(q))] = q[Len(q)]
  <2>1. Len(q) - 1 \in 1 .. Len(Tail(q)) /\ (Len(q) - 1) + 1 = Len(q)
    BY <1>1, <1>2, <1>4
  <2>2. Tail(q)[Len(q) - 1] = q[(Len(q) - 1) + 1]
    BY <1>1, <2>1
  <2>3. QED BY <1>2, <2>1, <2>2
<1>5. QED BY <1>1, <1>3, <1>4

LEMMA PageStepKeeps ==
  ASSUME ShellInv, PageInv, PageStep
  PROVE  PageInv'
<1>0. /\ OnPage /\ Follows /\ Failing /\ pg \in Pages /\ stored \in Phases
      /\ UNCHANGED <<port, kids, sh, stored, quit, world>>
  BY DEF PageInv, ShellInv, ShellTypes, Shell, svars, PageStep, Registered, ListenFailed,
         GetCoreStatus, SnapshotAnswered, SnapshotFailed, Deliver, HealthAnswered, FastPath
<1>1. CASE Registered
  BY <1>0, <1>1 DEF Registered, PageInv, Pages, OnPage, Follows, Failing, Quiet, Shows
<1>2. CASE ListenFailed
  BY <1>0, <1>2 DEF ListenFailed, PageInv, Pages, OnPage, Follows, Failing, Quiet, Shows
<1>3. CASE GetCoreStatus
  BY <1>0, <1>3 DEF GetCoreStatus, PageInv, Pages, OnPage, Follows, Failing, Quiet, Shows
<1>4. CASE SnapshotAnswered
  <2>1. CASE Redundant \/ pg.read = None
    <3>1. pg' = [pg EXCEPT !.snap = "settled", !.read = None]
      BY <1>4, <2>1 DEF SnapshotAnswered
    <3>2. pg' \in Pages
      BY <1>0, <3>1 DEF Pages, Phases
    <3>3. Follows'
      BY <1>0, <1>4, <2>1, <3>1 DEF SnapshotAnswered, Redundant, Pages, Follows, Quiet, Shows
    <3>4. Failing'
      BY <1>0, <1>4, <2>1, <3>1 DEF SnapshotAnswered, Redundant, Pages, Failing, Errors, None
    <3>5. QED BY <3>2, <3>3, <3>4 DEF PageInv
  <2>2. CASE ~Redundant /\ pg.read # None
    <3>1. pg' = [pg EXCEPT !.snap = "settled", !.read = None, !.status = pg.read,
                           !.ready = (pg.read = "ready")]
      BY <1>0, <1>4, <2>2 DEF SnapshotAnswered, Apply, Pages
    <3>2. pg' \in Pages
      <4>1. (pg.read = "ready") \in BOOLEAN
        OBVIOUS
      <4>2. QED BY <4>1, <1>0, <3>1 DEF Pages, Phases
    <3>3. Follows'
      BY <1>0, <1>4, <2>2, <3>1 DEF SnapshotAnswered, Redundant, Pages, Follows, Quiet, Shows
    <3>4. Failing'
      BY <1>0, <1>4, <2>2, <3>1 DEF SnapshotAnswered, Redundant, Pages, Failing, Errors
    <3>5. QED BY <3>2, <3>3, <3>4 DEF PageInv
  <2>3. QED BY <2>1, <2>2
<1>5. CASE SnapshotFailed
  <2>1. pg' \in Pages
    BY <1>0, <1>5 DEF SnapshotFailed, Pages, Phases
  <2>2. QED BY <2>1, <1>0, <1>5 DEF SnapshotFailed, PageInv, Pages, Follows, Failing, Quiet, Shows
<1>6. CASE Deliver
  <2> DEFINE v == Head(pg.events)
  <2>1. /\ v \in Told /\ Tail(pg.events) \in Seq(Told)
        /\ Tail(pg.events) = <<>> => v = pg.events[Len(pg.events)]
        /\ Tail(pg.events) # <<>> =>
             Tail(pg.events)[Len(Tail(pg.events))] = pg.events[Len(pg.events)]
    <3>1. pg.events \in Seq(Told) /\ pg.events # <<>>
      BY <1>0, <1>6 DEF Deliver, Pages
    <3>2. QED BY <3>1, LastOfTail
  <2>2. pg' = [pg EXCEPT !.events = Tail(pg.events), !.live = TRUE, !.status = v,
                         !.ready = (v = "ready")]
    BY <1>0, <1>6 DEF Deliver, Apply, Pages
  <2>3. pg.events \in Seq(Errors) => Tail(pg.events) \in Seq(Errors) /\ v \in Errors
    BY <1>6 DEF Deliver
  <2> HIDE DEF v
  <2>4. pg' \in Pages
    <3>1. (v = "ready") \in BOOLEAN
      OBVIOUS
    <3>2. QED BY <3>1, <1>0, <2>1, <2>2 DEF Pages, Phases
  <2>5. Follows'
    <3>1. /\ pg.events # <<>> /\ pg.listen = "on" /\ stored # None
          /\ sh.say = None => pg.events[Len(pg.events)] = stored
      BY <1>0, <1>6 DEF Deliver, Follows
    <3>2. /\ pg'.listen = "on" /\ pg'.live /\ pg'.status = v /\ (pg'.ready <=> v = "ready")
          /\ pg'.events = Tail(pg.events) /\ pg'.no = pg.no
      <4>1. pg'.ready = (v = "ready")
        BY <1>0, <2>2 DEF Pages
      <4>2. pg'.listen = pg.listen /\ pg'.live = TRUE /\ pg'.status = v
        BY <1>0, <2>2 DEF Pages
      <4>3. pg'.events = Tail(pg.events) /\ pg'.no = pg.no
        BY <1>0, <2>2 DEF Pages
      <4>4. QED BY <3>1, <4>1, <4>2, <4>3
    <3>3. stored' = stored /\ sh' = sh
      BY <1>0
    <3>4. pg'.events # <<>> => (sh'.say = None => pg'.events[Len(pg'.events)] = stored')
      BY <2>1, <3>1, <3>2, <3>3
    <3>5. Quiet' => v = stored /\ stored' = stored
      BY <2>1, <3>1, <3>2, <3>3 DEF Quiet
    <3>6. QED BY <3>1, <3>2, <3>3, <3>4, <3>5 DEF Follows, Shows
  <2>6. Failing'
    BY <1>0, <2>2, <2>3 DEF Pages, Failing, Errors
  <2>7. QED BY <2>4, <2>5, <2>6 DEF PageInv
<1>7. CASE HealthAnswered
  <2>1. PICK h \in {"yes", "done"} : pg' = [pg EXCEPT !.health = h]
    BY <1>7 DEF HealthAnswered
  <2>2. pg' \in Pages
    BY <1>0, <2>1 DEF Pages
  <2>3. Follows' /\ Failing'
    BY <1>0, <2>1 DEF Pages, Follows, Failing, Quiet, Shows
  <2>4. QED BY <2>2, <2>3 DEF PageInv
<1>8. CASE FastPath
  <2>1. pg' = [pg EXCEPT !.health = "done", !.ready = pg.ready \/ MayPass]
    BY <1>8 DEF FastPath
  <2>2. pg' \in Pages
    <3>1. (pg.ready \/ MayPass) \in BOOLEAN
      OBVIOUS
    <3>2. QED BY <3>1, <1>0, <2>1 DEF Pages
  <2>3. Follows'
    BY <1>0, <1>8, <2>1 DEF FastPath, ShellHeard, MayPass, Pages, Follows, Quiet, Shows, None
  <2>4. Failing'
    BY <1>0, <1>8, <2>1 DEF FastPath, ShellHeard, MayPass, Pages, Failing, Errors, None
  <2>5. QED BY <2>2, <2>3, <2>4 DEF PageInv
<1>9. QED BY <1>1, <1>2, <1>3, <1>4, <1>5, <1>6, <1>7, <1>8 DEF PageStep

-----------------------------------------------------------------------------
Inv == ShellInv /\ PageInv

LEMMA InvInit == Init => Inv
  BY ShellInvInit, PageInvInit DEF Init, Inv

LEMMA InvStep == Inv /\ [Next]_vars => Inv'
<1> SUFFICES ASSUME Inv, [Next]_vars PROVE Inv'
  OBVIOUS
<1> USE DEF Inv
<1>1. CASE (Supervise \/ Teardown \/ Environment) /\ UNCHANGED pg
  BY <1>1, SuperviseKeeps, TeardownKeeps, EnvironmentKeeps, ShellStepFollowed
<1>2. CASE Emit
  BY <1>2, EmittedKeeps, EmitHeard DEF Emit, Emitted
<1>3. CASE Open \/ Reload
  <2>1. ShellInv'
    BY <1>3 DEF Open, Reload, Shell, svars, ShellInv, ShellTypes, Handle, Alive, Editions,
                ReadyIsOurEdition, Counting, Said
  <2>2. CASE Open
    <3>1. 1 \in 1..MaxPages
      BY StartupBounds
    <3>2. QED BY <2>1, <2>2, <3>1, FreshPage DEF Open
  <2>3. CASE Reload
    <3>1. pg.no \in 0..MaxPages /\ pg.no < MaxPages
      BY <2>3 DEF Reload, PageInv, Pages
    <3>2. pg.no + 1 \in 1..MaxPages
      BY <3>1, StartupBounds
    <3>3. QED BY <2>1, <2>3, <3>2, FreshPage DEF Reload
  <2>4. QED BY <1>3, <2>2, <2>3
<1>4. CASE PageStep
  <2>1. ShellInv'
    BY <1>4 DEF PageStep, Registered, ListenFailed, GetCoreStatus, SnapshotAnswered,
                SnapshotFailed, Deliver, HealthAnswered, FastPath, Shell, svars, ShellInv,
                ShellTypes, Handle, Alive, Editions, ReadyIsOurEdition, Counting, Said
  <2>2. QED BY <2>1, <1>4, PageStepKeeps
<1>5. CASE UNCHANGED vars
  <2>1. ShellInv'
    BY <1>5 DEF vars, ShellInv, ShellTypes, Handle, Alive, Editions, ReadyIsOurEdition, Counting,
                Said
  <2>2. PageInv'
    BY <1>5 DEF vars, PageInv, OnPage, Follows, Failing, Quiet, Shows
  <2>3. QED BY <2>1, <2>2
<1>6. QED BY <1>1, <1>2, <1>3, <1>4, <1>5 DEF Next

THEOREM StartupInv == Spec => []Inv
  BY InvInit, InvStep, PTL DEF Spec

-----------------------------------------------------------------------------
\* The shell, its engines and the page are well formed for any number of restarts,
\* engines, strangers, page loads and events under way (lib.rs, CoreStartup.tsx).
THEOREM StartupTypes == Spec => []TypesOK
<1>1. Inv => TypesOK
  <2> SUFFICES ASSUME Inv PROVE TypesOK
    OBVIOUS
  <2>1. sh.kid \in 0..Len(kids) /\ sh.restarts \in 0..MaxRestarts
    BY DEF Inv, ShellInv, ShellTypes, Shells
  <2>2. pg.no \in 0..MaxPages /\ pg.status \in Phases
    BY DEF Inv, PageInv, Pages
  <2>3. QED BY <2>1, <2>2 DEF Inv, ShellInv, ShellTypes, TypesOK, Phases, Told
<1>2. QED BY <1>1, StartupInv, PTL

\* No engine the shell started is ever out of the reach of its handle, and none
\* outlives the app: a spawn that races with teardown, an engine stopped because
\* another edition answered, a restart after a crash (spawn_core, take_and_shutdown).
THEOREM NothingOrphaned == Spec => []NoOrphan
<1>1. Inv => NoOrphan
  BY DEF Inv, ShellInv, ShellTypes, Handle, NoOrphan, NoKid
<1>2. QED BY <1>1, StartupInv, PTL

\* A release build never reports ready over another edition's engine, although
\* whoever holds the port answers the probe (start_and_await_core).
THEOREM ReadyIsOurs == Spec => []ReadyIsOurEdition
<1>1. Inv => ReadyIsOurEdition
  BY DEF Inv, ShellInv, Editions
<1>2. QED BY <1>1, StartupInv, PTL

\* Between two long runs the engine is started at most MaxRestarts + 1 times
\* (supervise_core, MAX_CORE_RESTARTS).
THEOREM RestartsLimited == Spec => []RestartsBounded
<1>1. Inv => RestartsBounded
  BY StartupBounds DEF Inv, ShellInv, ShellTypes, Shells, Worlds, Counting, RestartsBounded
<1>2. QED BY <1>1, StartupInv, PTL

\* With nothing under way, a page that could listen shows what is stored, in
\* whatever order its events, its snapshot and its health check were answered, and
\* for any length of the queue (CoreStartup.tsx, apply).
THEOREM PageAgrees == Spec => []Agrees
<1>1. Inv => Agrees
  BY DEF Inv, PageInv, Pages, Follows, Quiet, Shows, Agrees, OnPage
<1>2. QED BY <1>1, StartupInv, PTL

\* A page loaded after the shell gave up never mounts the app (shellStatusSettled).
THEOREM ReloadKeepsError == Spec => []ReloadStaysOnError
<1>1. Inv => ReloadStaysOnError
  BY DEF Inv, PageInv, Failing, ReloadStaysOnError
<1>2. QED BY <1>1, StartupInv, PTL

\* What the run checks of the shell, for any number of restarts: its engine is held,
\* is its own edition, and is not started for ever.
THEOREM EngineHeld == Spec => []EngineIsHeld
<1>1. NoOrphan /\ ReadyIsOurEdition /\ RestartsBounded => EngineIsHeld
  BY DEF EngineIsHeld
<1>2. QED BY <1>1, NothingOrphaned, ReadyIsOurs, RestartsLimited, PTL

\* Whatever the shell stored, the card of an error is headed by its cause and not by
\* the more general case (classifyError): a fact of the words alone, not of the runs.
LEMMA FirstWordWins ==
  ASSUME NEW v \in Errors
  PROVE  ClassifyError(v) = "another edition" <=> v = "foreign"
<1> DEFINE first == CHOOSE i \in Hits(v) : \A j \in Hits(v) : i <= j
<1>1. /\ DOMAIN AskedFor = 1..4
      /\ AskedFor[1] = "another edition" /\ AskedFor[2] = "already running"
      /\ AskedFor[3] = "port in use" /\ AskedFor[4] = "keeps stopping"
  BY DEF AskedFor
<1>2. \A i \in Hits(v) : i \in 1..4 /\ AskedFor[i] \in Words(v)
  BY <1>1 DEF Hits
<1>3. CASE v = "foreign"
  <2>1. Words(v) = {"another edition", "already running"}
    BY <1>3 DEF Words
  <2>2. 1 \in Hits(v)
    <3>1. 1 \in DOMAIN AskedFor
      <4>1. 1 \in 1..4 OBVIOUS
      <4>2. DOMAIN AskedFor = 1..4 BY <1>1
      <4>3. QED BY <4>1, <4>2, Zenon
    <3>2. AskedFor[1] \in Words(v)
      BY <1>1, <2>1
    <3>3. QED BY <3>1, <3>2 DEF Hits
  <2>3. first = 1
    BY <1>2, <2>2
  <2>4. ClassifyError(v) = AskedFor[first]
    BY <2>2 DEF ClassifyError
  <2>5. QED BY <1>1, <1>3, <2>3, <2>4
<1>4. CASE v # "foreign"
  <2>1. "another edition" \notin Words(v)
    BY <1>4 DEF Words, Errors
  <2>2. CASE Hits(v) # {}
    <3>1. \E i \in Hits(v) : \A j \in Hits(v) : i <= j
      <4>1. CASE 1 \in Hits(v) BY <1>2, <4>1
      <4>2. CASE 1 \notin Hits(v) /\ 2 \in Hits(v) BY <1>2, <4>2
      <4>3. CASE 1 \notin Hits(v) /\ 2 \notin Hits(v) /\ 3 \in Hits(v) BY <1>2, <4>3
      <4>4. CASE 1 \notin Hits(v) /\ 2 \notin Hits(v) /\ 3 \notin Hits(v)
        BY <1>2, <2>2, <4>4
      <4>5. QED BY <4>1, <4>2, <4>3, <4>4
    <3>2. first \in Hits(v)
      BY <3>1
    <3>3. ClassifyError(v) = AskedFor[first]
      BY <2>2 DEF ClassifyError
    <3>4. QED BY <1>2, <1>4, <2>1, <3>2, <3>3
  <2>3. CASE Hits(v) = {}
    <3>1. ClassifyError(v) \in {"not found", "crash"}
      BY <2>3 DEF ClassifyError
    <3>2. QED BY <1>4, <3>1
  <2>4. QED BY <2>2, <2>3
<1>5. QED BY <1>3, <1>4

\* What the run checks of the page, for any number of loads and any length of the
\* event queue: it agrees with the shell once nothing is under way, and a page
\* loaded after the shell gave up stays on the card, which says why.
THEOREM PageKnowsShell == Spec => []PageKnows
<1>1. CardNamesCause
  BY FirstWordWins DEF CardNamesCause, Card
<1>2. Agrees /\ ReloadStaysOnError => PageKnows
  BY <1>1 DEF PageKnows
<1>3. QED BY <1>2, PageAgrees, ReloadKeepsError, PTL
=============================================================================
