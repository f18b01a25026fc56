--------------------------- MODULE ModelDownload ---------------------------
(***************************************************************************)
(* The downloads of one model of the registry: execute_download() of       *)
(* services/model_download_service.py with its callers, the install and    *)
(* cancel routes of routers/models.py and the model stage of the setup     *)
(* pipeline (routers/setup_install.py).                                    *)
(*                                                                         *)
(* Every download of the model streams to the same .part file, verifies it *)
(* in a thread and renames it to the same final file; every caller may     *)
(* start one.  Files are what POSIX makes of them: a name points to a      *)
(* file, and a file that lost its name lives on for whoever has it open.   *)
(***************************************************************************)
EXTENDS Naturals, Sequences

CONSTANTS
    Tasks,        \* slots for downloads that run (a bound)
    Files,        \* the files that may exist at once (a bound)
    NoFile,       \* a name that points to nothing
    NoTask,       \* an install without a registered cancel event
    N,            \* chunks of the model
    MaxInstalls,  \* rows of installed_models (a bound)
    Surroundings  \* the sets of hardships that a behaviour may have to meet

\* Downloads overlap; the core is killed; a transfer fails (network, disk); the
\* directory cannot be made; the server sends wrong bytes.
Hardships == {"overlap", "death", "transfer", "directory", "corruption"}

ASSUME DownloadAssumption ==
    /\ N \in Nat \ {0} /\ MaxInstalls \in Nat
    /\ NoFile \notin Files /\ NoTask \notin Tasks
    /\ Surroundings \subseteq SUBSET Hardships

VARIABLES
    may,      \* the hardships of this behaviour
    status,   \* install_status of each row ("none": no row yet)
    part,     \* the file named <registry_id>.gguf.part
    dest,     \* the file named <registry_id>.gguf
    content,  \* the chunks in each file
    event,    \* app.state.cancel_events: whose event is registered for a row
    task      \* the downloads that run

vars == <<may, status, part, dest, content, event, task>>

Installs == 1..MaxInstalls
InProgress == {"pending", "downloading"}
Terminal == {"ready", "failed", "cancelled", "checksum_mismatch"}

\* kind: started by the route, by the setup pipeline, or its one silent retry.
Job(pc, i, kind, from) ==
    [pc |-> pc, id |-> i, kind |-> kind, cancel |-> FALSE, aborted |-> FALSE,
     from |-> from, append |-> FALSE, off |-> 0, file |-> NoFile, verdict |-> "none"]

Idle == Job("idle", 0, "route", 0)

Become(t, r) == task' = [task EXCEPT ![t] = r]

\* The SHA-256 matches.
Complete(s) == Len(s) = N /\ \A k \in 1..N : s[k] = "good"

\* Writing at position k, past the end if need be.
Put(s, k, c) ==
    [j \in 1..(IF k > Len(s) THEN k ELSE Len(s)) |->
        IF j = k THEN c ELSE IF j <= Len(s) THEN s[j] ELSE "bad"]

PartSize == IF part = NoFile THEN 0 ELSE Len(content[part])

\* Nobody can read what is in a file without a name.
Unlink ==
    /\ part' = NoFile
    /\ content' = [f \in Files |-> IF f = part THEN <<>> ELSE content[f]]

Unused(f) == f \notin {part, dest} /\ \A t \in Tasks : task[t].file # f

Init ==
    /\ may \in Surroundings
    /\ status = [i \in Installs |-> "none"]
    /\ part = NoFile /\ dest = NoFile
    /\ content = [f \in Files |-> <<>>]
    /\ event = [i \in Installs |-> NoTask]
    /\ task = [t \in Tasks |-> Idle]

-----------------------------------------------------------------------------
(***************************************************************************)
(* Starting a download.  AUTOINCREMENT gives rows ascending ids.           *)
(***************************************************************************)
NewRow(i) == status[i] = "none" /\ \A j \in 1..(i - 1) : status[j] # "none"

\* A slot for a download, which is the only one unless downloads overlap.
Startable(t) == task[t] = Idle /\ ("overlap" \in may \/ \A u \in Tasks : task[u] = Idle)

\* POST /api/models/install: no look at other downloads of the model.
InstallModel(t) ==
    /\ Startable(t)
    /\ \E i \in Installs :
          /\ NewRow(i)
          /\ status' = [status EXCEPT ![i] = "pending"]
          /\ event' = [event EXCEPT ![i] = t]
          /\ Become(t, Job("pending", i, "route", 0))
    /\ UNCHANGED <<part, dest, content>>

\* execute_download() up to the request; the size of .part is read here.
BeginDownload(t) ==
    /\ task[t].pc = "pending"
    /\ status' = [status EXCEPT ![task[t].id] = "downloading"]
    /\ Become(t, [task[t] EXCEPT !.pc = "requesting", !.from = PartSize])
    /\ UNCHANGED <<part, dest, content, event>>

\* `cancel_events.pop(install_id)` of the route and the pipeline, which then
\* reads what became of the row.
Returned(t) ==
    /\ event' = [event EXCEPT ![task[t].id] = NoTask]
    /\ Become(t, IF task[t].kind = "route" THEN Idle
                 ELSE [Job("returned", task[t].id, task[t].kind, 0)
                          EXCEPT !.aborted = task[t].aborted])

\* The directory cannot be made: raised before any try of execute_download().
NoDirectory(t) ==
    /\ "directory" \in may
    /\ task[t].pc = "pending"
    /\ Returned(t)
    /\ UNCHANGED <<status, part, dest, content>>

\* The row the pipeline downloads into: the newest in progress, or a new one.
SetupRow(i) ==
    IF \E j \in Installs : status[j] \in InProgress
    THEN status[i] \in InProgress /\ \A j \in Installs : status[j] \in InProgress => j <= i
    ELSE NewRow(i)

\* execute_download() called by the pipeline, into a row set to pending.
SetupDownload(t, i, kind) ==
    \/ /\ status' = [status EXCEPT ![i] = "downloading"]
       /\ event' = [event EXCEPT ![i] = t]
       /\ Become(t, Job("requesting", i, kind, PartSize))
    \/ /\ "directory" \in may
       /\ status' = [status EXCEPT ![i] = "pending"]
       /\ event' = [event EXCEPT ![i] = NoTask]
       /\ Become(t, Idle)

\* One job at a time; a model that is ready is not downloaded.
SetupInstall(t) ==
    /\ Startable(t)
    /\ \A u \in Tasks : task[u].kind = "route"
    /\ \A i \in Installs : status[i] # "ready"
    /\ \E i \in Installs : SetupRow(i) /\ SetupDownload(t, i, "setup")
    /\ UNCHANGED <<part, dest, content>>

\* After a checksum mismatch the pipeline tries once more, with a new event.
\* Mutant: and again.
RetryKindAgain == "setup"
RetryKind == "retry"

SetupRetry(t) ==
    /\ task[t].pc = "returned" /\ task[t].kind = "setup" /\ ~task[t].aborted
    /\ status[task[t].id] = "checksum_mismatch"
    /\ SetupDownload(t, task[t].id, RetryKind)
    /\ UNCHANGED <<part, dest, content>>

SetupLeaves(t) ==
    /\ task[t].pc = "returned"
    /\ \/ task[t].aborted \/ task[t].kind = "retry"
       \/ status[task[t].id] # "checksum_mismatch"
    /\ Become(t, Idle)
    /\ UNCHANGED <<status, part, dest, content, event>>

-----------------------------------------------------------------------------
(***************************************************************************)
(* The except clause: whatever .part is by now is deleted.                 *)
(***************************************************************************)
\* Mutant: the row is left as it is.
FailedStatusKept(t) == status
FailedStatus(t) == [status EXCEPT ![task[t].id] = "failed"]

Fail(t) ==
    /\ Unlink
    /\ status' = FailedStatus(t)
    /\ Returned(t)
    /\ UNCHANGED dest

NetworkOrDiskError(t) ==
    /\ "transfer" \in may
    /\ task[t].pc \in {"requesting", "streaming", "closing", "verifying", "verified"}
    /\ Fail(t)

(***************************************************************************)
(* The answer.  206 continues behind the bytes .part had when the request  *)
(* was sent, 200 (also from a server that ignores Range) starts over, and  *)
(* a Range behind the last byte is refused with 416, which is an error.    *)
(***************************************************************************)
OpenPart(t, append) ==
    \E f \in Files :
       /\ IF part = NoFile THEN Unused(f) ELSE f = part
       /\ part' = f
       /\ content' = [content EXCEPT ![f] =
                         IF part # NoFile /\ append THEN @ ELSE <<>>]
       /\ Become(t, [task[t] EXCEPT !.pc = "streaming", !.file = f, !.from = 0,
                                    !.append = append,
                                    !.off = IF append THEN task[t].from ELSE 0])

Answer(t) ==
    /\ task[t].pc = "requesting"
    /\ \/ /\ task[t].from \in 1..(N - 1)
          /\ OpenPart(t, TRUE)
       \/ OpenPart(t, FALSE)
    /\ UNCHANGED <<status, dest, event>>

RangeRefused(t) ==
    /\ task[t].pc = "requesting"
    /\ task[t].from >= N
    /\ Fail(t)

\* One chunk: "ab" writes at the end, whatever that is, "wb" where it stopped.
Position(t) == IF task[t].append THEN Len(content[task[t].file]) + 1 ELSE task[t].off + 1

\* Mutant: off by one.
MoreComesLong(off) == off <= N
MoreComes(off) == off < N

Chunk(t) ==
    /\ task[t].pc = "streaming" /\ ~task[t].cancel /\ MoreComes(task[t].off)
    /\ \E c \in {"good"} \cup (IF "corruption" \in may THEN {"bad"} ELSE {}) :
          content' = [f \in Files |->
                         IF f = task[t].file /\ f \in {part, dest}
                         THEN Put(content[f], Position(t),
                                  IF Position(t) = task[t].off + 1 THEN c ELSE "bad")
                         ELSE content[f]]
    /\ Become(t, [task[t] EXCEPT !.off = @ + 1])
    /\ UNCHANGED <<status, part, dest, event>>

\* The end of the stream, or a chunk that finds the event set.
StreamEnds(t) ==
    /\ task[t].pc = "streaming"
    /\ ~MoreComes(task[t].off) \/ task[t].cancel
    /\ Become(t, [Job("closing", task[t].id, task[t].kind, 0)
                    EXCEPT !.cancel = task[t].cancel, !.aborted = task[t].aborted])
    /\ UNCHANGED <<status, part, dest, content, event>>

\* The client is closed; this is the last look at the event.
Cancelled(t) ==
    /\ task[t].pc = "closing" /\ task[t].cancel
    /\ Unlink
    /\ status' = [status EXCEPT ![task[t].id] = "cancelled"]
    /\ Returned(t)
    /\ UNCHANGED dest

StartVerify(t) ==
    /\ task[t].pc = "closing" /\ ~task[t].cancel
    /\ Become(t, [task[t] EXCEPT !.pc = "verifying"])
    /\ UNCHANGED <<status, part, dest, content, event>>

(***************************************************************************)
(* verify_sha256() runs in a thread and reads the file that is .part then; *)
(* the event loop hears of it later.                                       *)
(***************************************************************************)
\* Mutant: only the size is compared.
ChecksumOkBySize(s) == Len(s) = N
ChecksumOk(s) == Complete(s)

Verify(t) ==
    /\ task[t].pc = "verifying"
    /\ Become(t, [task[t] EXCEPT !.pc = "verified",
                     !.verdict = IF part = NoFile THEN "missing"
                                 ELSE IF ChecksumOk(content[part]) THEN "ok" ELSE "mismatch"])
    /\ UNCHANGED <<status, part, dest, content, event>>

\* Mutant: a .part that is gone is not noticed.
RenamableAlways == TRUE
Renamable == part # NoFile

\* rename() replaces the final file of an earlier install.
Rename ==
    /\ dest' = part /\ part' = NoFile
    /\ content' = [f \in Files |-> IF f = dest THEN <<>> ELSE content[f]]

Promote(t) ==
    /\ task[t].pc = "verified" /\ task[t].verdict = "ok" /\ Renamable
    /\ Rename
    /\ status' = [status EXCEPT ![task[t].id] = "ready"]
    /\ Returned(t)

Mismatch(t) ==
    /\ task[t].pc = "verified" /\ task[t].verdict = "mismatch" /\ part # NoFile
    /\ Unlink
    /\ status' = [status EXCEPT ![task[t].id] = "checksum_mismatch"]
    /\ Returned(t)
    /\ UNCHANGED dest

PartIsGone(t) ==
    /\ task[t].pc = "verified"
    /\ task[t].verdict = "missing" \/ ~Renamable
    /\ Fail(t)

-----------------------------------------------------------------------------
\* DELETE /api/models/install/{id}: 409 for a terminal row.
CancelInstall(i) ==
    /\ status[i] \in InProgress
    /\ IF event[i] # NoTask
       THEN /\ Become(event[i], [task[event[i]] EXCEPT !.cancel = TRUE])
            /\ UNCHANGED status
       ELSE /\ status' = [status EXCEPT ![i] = "cancelled"]
            /\ UNCHANGED task
    /\ UNCHANGED <<part, dest, content, event>>

\* DELETE /api/setup/install/{job}, and _watch_cancel, which forwards the job's
\* event to the download's.
CancelSetup(t) ==
    /\ task[t].kind # "route"
    /\ Become(t, [task[t] EXCEPT !.aborted = TRUE])
    /\ UNCHANGED <<status, part, dest, content, event>>

ForwardCancel(t) ==
    /\ task[t].aborted /\ task[t].pc # "returned"
    /\ Become(t, [task[t] EXCEPT !.cancel = TRUE])
    /\ UNCHANGED <<status, part, dest, content, event>>

\* The core is killed and started again: rows and files are what is left.
CoreDies ==
    /\ "death" \in may
    /\ event' = [i \in Installs |-> NoTask]
    /\ task' = [t \in Tasks |-> Idle]
    /\ UNCHANGED <<status, part, dest, content>>

\* ... between the rename and the commit.
DiesAfterRename(t) ==
    /\ "death" \in may
    /\ task[t].pc = "verified" /\ task[t].verdict = "ok" /\ Renamable
    /\ Rename
    /\ event' = [i \in Installs |-> NoTask]
    /\ task' = [u \in Tasks |-> Idle]
    /\ UNCHANGED status

-----------------------------------------------------------------------------
Progress(t) ==
    \/ BeginDownload(t) \/ NoDirectory(t) \/ SetupRetry(t) \/ SetupLeaves(t)
    \/ NetworkOrDiskError(t) \/ Answer(t) \/ RangeRefused(t) \/ Chunk(t)
    \/ StreamEnds(t) \/ Cancelled(t) \/ StartVerify(t) \/ Verify(t)
    \/ Promote(t) \/ Mismatch(t) \/ PartIsGone(t)

Step ==
    \/ \E t \in Tasks : \/ InstallModel(t) \/ SetupInstall(t) \/ CancelSetup(t) \/ ForwardCancel(t)
                        \/ Progress(t) \/ DiesAfterRename(t)
    \/ \E i \in Installs : CancelInstall(i)
    \/ CoreDies

Next == Step /\ UNCHANGED may

Spec == Init /\ [][Next]_vars

-----------------------------------------------------------------------------
TaskStates ==
    [pc : {"idle", "pending", "requesting", "streaming", "closing", "verifying",
           "verified", "returned"},
     id : 0..MaxInstalls, kind : {"route", "setup", "retry"},
     cancel : BOOLEAN, aborted : BOOLEAN, from : Nat, append : BOOLEAN, off : 0..N,
     file : Files \cup {NoFile}, verdict : {"none", "ok", "mismatch", "missing"}]

\* Rows, names, files and running downloads are well formed.
TypeOK ==
    /\ may \subseteq Hardships
    /\ status \in [Installs -> {"none"} \cup InProgress \cup Terminal]
    /\ part \in Files \cup {NoFile} /\ dest \in Files \cup {NoFile}
    /\ content \in [Files -> Seq({"good", "bad"})]
    /\ event \in [Installs -> Tasks \cup {NoTask}]
    /\ task \in [Tasks -> TaskStates]

Ready == \E i \in Installs : status[i] = "ready"

\* "The final SHA-256 check still gates registration, so a corrupt resume can
\* never be promoted to 'ready'": while a row is ready its file is the model.
\* With one download at a time this holds for any server, resumed or not.
ReadyIsIntact == "overlap" \notin may /\ Ready => dest # NoFile /\ Complete(content[dest])

\* A row that is ready has a file.
ReadyHasFile == Ready => dest # NoFile

\* Unless the core was killed or a directory is missing, a row in progress has a
\* download that will decide it.
InProgressIsDriven == may \cap {"death", "directory"} = {} =>
    \A i \in Installs : status[i] \in InProgress =>
        \E t \in Tasks : task[t].pc \notin {"idle", "returned"} /\ task[t].id = i

\* Pollers are never left with a row that means nothing: what is ready can be
\* loaded, although downloads overlap, rename and delete the same .part and a row
\* is marked after the rename; what is in progress will be decided, also when two
\* downloads share the row.
RowsKeep == ReadyHasFile /\ InProgressIsDriven

\* The stream ends or times out, the thread ends, and the loop goes on.
Fairness ==
    \A t \in Tasks : WF_vars("overlap" \notin may /\ Progress(t) /\ UNCHANGED may)

FairSpec == Spec /\ Fairness

\* Every download returns, with its retry, whatever the server sends.
DownloadsReturn ==
    \A t \in Tasks : "overlap" \notin may /\ task[t] # Idle ~> task[t] = Idle

=============================================================================
