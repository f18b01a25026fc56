--------------------------- MODULE GatewayModels ---------------------------
(***************************************************************************)
(* Model downloads of the API gateway (apps/api, routes/models.ts): the    *)
(* installed_models table, the downloads that drive its rows, and the two  *)
(* files that every download of one registry entry shares.  A file is an   *)
(* inode: a writer keeps the one it opened although another call unlinks   *)
(* or renames it.                                                          *)
(***************************************************************************)
EXTENDS Naturals, FiniteSets

CONSTANTS
  Dl,       \* install ids
  Registry  \* registry entries: whether they name a checksum and a URL

VARIABLES
  serial,  \* the player starts a download only when none is running
  status,  \* installed_models.install_status, "none" before the INSERT
  task,    \* the runDownload call: where it is, how much it has written,
           \* whether its AbortController fired, whether its bytes are right
  inode,   \* contents of the file a download created, by half
  part,    \* the inode that <filename>.part names
  final,   \* the inode that <filename> names
  active,  \* model_config: the model that is to be loaded
  bench    \* a benchmark that is waiting for the runtime, and the last stored

vars == <<serial, status, task, inode, part, final, active, bench>>

NoFile == "none"
Terminal == {"ready", "failed", "cancelled", "checksum_mismatch"}
Idle == [at |-> "idle", done |-> 0, aborted |-> FALSE, good |-> TRUE, file |-> NoFile]
Running == {d \in Dl : task[d].at # "idle"}
Blank == [h \in 1..2 |-> "hole"]

\* Mutant: a mismatch is not among the final states.
FinishedFew(s) == s \in Terminal \ {"checksum_mismatch"}

\* DELETE's list of states that a cancellation leaves alone.
Finished(s) == s \in Terminal

\* The end of runDownload; the controller is then forgotten.
Settle(d, outcome) ==
  /\ status' = [status EXCEPT ![d] = outcome]
  /\ task' = [task EXCEPT ![d] = Idle]

\* The catch block: the .part file, whoever's it is, is deleted.
Caught(d) == Settle(d, IF task[d].aborted THEN "cancelled" ELSE "failed") /\ part' = NoFile

\* POST /api/models/install, and runDownload up to its first await.
Install(d) ==
  /\ status[d] = "none"
  /\ serial => Running = {}
  /\ \E entry \in Registry, good \in BOOLEAN :
       /\ entry.checksum /\ entry.url
       /\ task' = [task EXCEPT ![d] = [Idle EXCEPT !.at = "fetch", !.good = good]]
  /\ status' = [status EXCEPT ![d] = "downloading"]
  /\ UNCHANGED <<serial, inode, part, final, active, bench>>

\* The response arrives: createWriteStream truncates an existing .part file.
Respond(d) ==
  LET file == IF part = NoFile THEN d ELSE part IN
  /\ task[d].at = "fetch" /\ ~task[d].aborted
  /\ task' = [task EXCEPT ![d].at = "stream", ![d].file = file]
  /\ part' = file
  /\ inode' = [inode EXCEPT ![file] = Blank]
  /\ UNCHANGED <<serial, status, final, active, bench>>

\* pipeline: each chunk goes to this writer's own position in its inode.
Chunk(d) ==
  /\ task[d].at = "stream" /\ task[d].done < 2
  /\ task' = [task EXCEPT ![d].done = @ + 1]
  /\ inode' = [inode EXCEPT ![task[d].file][task[d].done + 1] =
                 IF task[d].good THEN "right" ELSE "wrong"]
  /\ UNCHANGED <<serial, status, part, final, active, bench>>

\* Mutant: the digest is not compared.
VerifiedAny(d) == TRUE

\* The digest is over the bytes this call received, not over the file.
Verified(d) == task[d].good

\* Mutant: a failing rename is not noticed.
RenamedAlways == TRUE

\* renameSync finds the .part file.
Renamed == part # NoFile

\* The rest of runDownload, without an await: check, rename, mark, activate.
\* Renaming a .part that another call took away throws.
Finish(d) ==
  /\ task[d].at = "stream" /\ task[d].done = 2
  /\ CASE ~Verified(d) ->
            /\ Settle(d, "checksum_mismatch") /\ part' = NoFile
            /\ UNCHANGED <<final, active>>
       [] Verified(d) /\ ~Renamed -> Caught(d) /\ UNCHANGED <<final, active>>
       [] OTHER ->
            /\ Settle(d, "ready")
            /\ final' = part /\ part' = NoFile /\ active' = "downloaded"
  /\ UNCHANGED <<serial, inode, bench>>

\* A refused request, a broken connection, a full disk, or the abort signal.
Fail(d) ==
  /\ task[d].at # "idle"
  /\ Caught(d)
  /\ UNCHANGED <<serial, inode, final, active, bench>>

\* DELETE /api/models/install/:id: the row only changes when the call ends.
\* A row that is not final always has its controller (RowsAreDriven).
Cancel(d) ==
  /\ status[d] # "none" /\ ~Finished(status[d])
  /\ IF d \in Running
     THEN task' = [task EXCEPT ![d].aborted = TRUE] /\ UNCHANGED status
     ELSE status' = [status EXCEPT ![d] = "cancelled"] /\ UNCHANGED task
  /\ UNCHANGED <<serial, inode, part, final, active, bench>>

\* POST /api/models/use and register-gguf: an existing file, Ollama or the demo.
Use(m) ==
  /\ active' = m
  /\ UNCHANGED <<serial, status, task, inode, part, final, bench>>

\* POST /api/models/benchmark reads the active model, waits for the runtime and
\* stores its figure under that model whatever is active by then.
BenchBegin ==
  /\ bench.of = "none" /\ active # "none"
  /\ bench' = [bench EXCEPT !.of = active]
  /\ UNCHANGED <<serial, status, task, inode, part, final, active>>

BenchEnd ==
  /\ bench.of # "none"
  /\ bench' = [of |-> "none", last |-> bench.of]
  /\ UNCHANGED <<serial, status, task, inode, part, final, active>>

\* Mutant: rows are left as they were.
InterruptedKept(s) == s

\* initDb: what was in progress when the server went down has failed.
Interrupted(s) == IF s \in {"pending", "downloading"} THEN "failed" ELSE s

Restart ==
  /\ Running # {}
  /\ task' = [d \in Dl |-> Idle]
  /\ status' = [d \in Dl |-> Interrupted(status[d])]
  /\ bench' = [bench EXCEPT !.of = "none"]
  /\ UNCHANGED <<serial, inode, part, final, active>>

Init ==
  /\ serial \in BOOLEAN
  /\ status = [d \in Dl |-> "none"]
  /\ task = [d \in Dl |-> Idle]
  /\ inode = [d \in Dl |-> Blank]
  /\ part = NoFile /\ final = NoFile
  /\ active = "none"
  /\ bench = [of |-> "none", last |-> "none"]

Next ==
  \/ \E d \in Dl : \/ Install(d) \/ Respond(d) \/ Chunk(d)
                   \/ Finish(d) \/ Fail(d) \/ Cancel(d)
  \/ \E m \in {"registered", "ollama"} : Use(m)
  \/ BenchBegin \/ BenchEnd
  \/ Restart

Spec == Init /\ [][Next]_vars

----------------------------------------------------------------------------
Loadable == {"none", "downloaded", "registered", "ollama"}

TypeOK ==
  /\ status \in [Dl -> Terminal \union {"none", "downloading"}]
  /\ task \in [Dl -> [at : {"idle", "fetch", "stream"}, done : 0..2, aborted : BOOLEAN,
                      good : BOOLEAN, file : Dl \union {NoFile}]]
  /\ inode \in [Dl -> [1..2 -> {"hole", "right", "wrong"}]]
  /\ {part, final} \subseteq Dl \union {NoFile}
  /\ active \in Loadable /\ bench \in [of : Loadable, last : Loadable]

\* While the player runs one download at a time, a ready model is the file
\* that was verified: its part was neither truncated, deleted nor renamed by
\* another call, whatever was cancelled or interrupted before.
Intact == final # NoFile /\ inode[final] = [h \in 1..2 |-> "right"]
ReadyIsIntact == \A d \in Dl : serial /\ status[d] = "ready" => Intact

\* However downloads overlap, a model that is marked ready and made active has
\* its file: no other call can take it away again.
ActiveHasFile == active = "downloaded" \/ (\E d \in Dl : status[d] = "ready") => final # NoFile

\* A row shows progress exactly while a call works on it: no phantom bar after
\* a restart, and no download behind a row that says it is over.
RowsAreDriven == \A d \in Dl : status[d] = "downloading" <=> d \in Running

\* An outcome is final: neither a late cancellation nor a restart rewrites it.
OutcomeStays ==
  [][\A d \in Dl : status[d] \in Terminal => status'[d] = status[d]]_vars
=============================================================================
