------------------------ MODULE ModelDownloadProofs ------------------------
(***************************************************************************)
(* Theorems about the downloads of a model, in whatever surroundings: types*)
(* and rows, also when downloads overlap; that a ready file is the model,  *)
(* when they take turns.                                                   *)
(***************************************************************************)
EXTENDS ModelDownload, SequenceTheorems, TLAPS

LEMMA TaskType == ASSUME TypeOK, NEW t \in Tasks PROVE task[t] \in TaskStates
BY DEF TypeOK

\* A step that replaces one download by a well-formed one.
LEMMA TaskUpdate ==
    ASSUME TypeOK, NEW t \in Tasks, NEW r \in TaskStates, Become(t, r)
    PROVE  /\ task' \in [Tasks -> TaskStates]
           /\ task'[t] = r
           /\ \A u \in Tasks \ {t} : task'[u] = task[u]
BY DEF TypeOK, Become

LEMMA TaskReplaced ==
    ASSUME TypeOK, NEW t \in Tasks, NEW r, Become(t, r)
    PROVE  task'[t] = r /\ \A u \in Tasks \ {t} : task'[u] = task[u]
BY DEF TypeOK, Become

LEMMA IdleType == Idle \in TaskStates
BY DownloadAssumption DEF Idle, Job, TaskStates

LEMMA JobType ==
    ASSUME NEW pc \in {"idle", "pending", "requesting", "streaming", "closing",
                       "verifying", "verified", "returned"},
           NEW i \in 0..MaxInstalls, NEW kind \in {"route", "setup", "retry"},
           NEW from \in Nat
    PROVE  /\ Job(pc, i, kind, from) \in TaskStates
           /\ Job(pc, i, kind, from).pc = pc
           /\ Job(pc, i, kind, from).id = i
           /\ Job(pc, i, kind, from).file = NoFile
BY DownloadAssumption DEF Job, TaskStates

LEMMA JobOf ==
    ASSUME TypeOK, NEW t \in Tasks, NEW pc \in {"closing", "returned"}
    PROVE  /\ Job(pc, task[t].id, task[t].kind, 0) \in TaskStates
           /\ Job(pc, task[t].id, task[t].kind, 0).pc = pc
           /\ Job(pc, task[t].id, task[t].kind, 0).file = NoFile
<1>1. task[t].id \in 0..MaxInstalls /\ task[t].kind \in {"route", "setup", "retry"}
    BY TaskType DEF TaskStates
<1> QED BY <1>1, DownloadAssumption DEF Job, TaskStates

LEMMA PartSizeType == TypeOK => PartSize \in Nat
BY DEF TypeOK, PartSize

LEMMA PutType ==
    ASSUME NEW S, NEW s \in Seq(S), NEW k \in Nat \ {0}, NEW c \in S, "bad" \in S
    PROVE  Put(s, k, c) \in Seq(S)
<1> DEFINE m == IF k > Len(s) THEN k ELSE Len(s)
<1>1. m \in Nat
    OBVIOUS
<1>2. \A j \in 1..m : (IF j = k THEN c ELSE IF j <= Len(s) THEN s[j] ELSE "bad") \in S
    OBVIOUS
<1>3. Put(s, k, c) \in [1..m -> S]
    BY <1>2 DEF Put
<1> QED BY <1>1, <1>3, SeqDef

\* The end of a download: its slot is free, or the pipeline reads the row.
LEMMA ReturnedType ==
    ASSUME TypeOK, NEW t \in Tasks, Returned(t)
    PROVE  /\ event' \in [Installs -> Tasks \cup {NoTask}]
           /\ task' \in [Tasks -> TaskStates]
           /\ task'[t].pc \in {"idle", "returned"} /\ task'[t].file = NoFile
           /\ \A u \in Tasks \ {t} : task'[u] = task[u]
<1> DEFINE j == Job("returned", task[t].id, task[t].kind, 0)
           r == [j EXCEPT !.aborted = task[t].aborted]
<1>1. task[t] \in TaskStates
    BY TaskType
<1>2. j \in TaskStates /\ j.pc = "returned" /\ j.file = NoFile
    BY JobOf
<1>3. r \in TaskStates /\ r.pc = "returned" /\ r.file = NoFile
    BY <1>1, <1>2 DEF TaskStates
<1>4. Idle.pc = "idle" /\ Idle.file = NoFile
    BY DEF Idle, Job
<1>5. CASE task[t].kind = "route"
    BY <1>4, <1>5, IdleType, TaskUpdate DEF Returned, TypeOK
<1>6. CASE task[t].kind # "route"
  <2>1. Become(t, r)
      BY <1>6 DEF Returned
  <2> HIDE DEF r
  <2> QED BY <1>3, <2>1, TaskUpdate DEF Returned, TypeOK
<1> QED BY <1>5, <1>6

LEMMA UnlinkType ==
    ASSUME TypeOK, Unlink
    PROVE  part' \in Files \cup {NoFile} /\ content' \in [Files -> Seq({"good", "bad"})]
BY DEF TypeOK, Unlink

LEMMA RenameType ==
    ASSUME TypeOK, Rename
    PROVE  /\ part' \in Files \cup {NoFile} /\ dest' \in Files \cup {NoFile}
           /\ content' \in [Files -> Seq({"good", "bad"})]
BY DEF TypeOK, Rename

LEMMA FailType == ASSUME TypeOK, may' = may, NEW t \in Tasks, Fail(t) PROVE TypeOK'
BY ReturnedType, UnlinkType DEF Fail, FailedStatus, TypeOK, Terminal

LEMMA SetupDownloadType ==
    ASSUME TypeOK, may' = may, NEW t \in Tasks, NEW i \in 0..MaxInstalls, NEW kind \in {"setup", "retry"},
           SetupDownload(t, i, kind), UNCHANGED <<part, dest, content>>
    PROVE  TypeOK'
<1>1. Job("requesting", i, kind, PartSize) \in TaskStates
    BY JobType, PartSizeType
<1>2. task' \in [Tasks -> TaskStates]
    BY <1>1, IdleType, TaskUpdate DEF SetupDownload
<1> QED BY <1>2 DEF SetupDownload, TypeOK, InProgress

LEMMA OpenPartType ==
    ASSUME TypeOK, may' = may, NEW t \in Tasks, NEW append \in BOOLEAN, OpenPart(t, append),
           append => task[t].from \in 0..N, UNCHANGED <<status, dest, event>>
    PROVE  TypeOK'
<1>1. PICK f \in Files :
         /\ part' = f
         /\ content' = [content EXCEPT ![f] = IF part # NoFile /\ append THEN @ ELSE <<>>]
         /\ Become(t, [task[t] EXCEPT !.pc = "streaming", !.file = f, !.from = 0,
                                      !.append = append,
                                      !.off = IF append THEN task[t].from ELSE 0])
    BY DEF OpenPart
<1> DEFINE r == [task[t] EXCEPT !.pc = "streaming", !.file = f, !.from = 0,
                               !.append = append,
                               !.off = IF append THEN task[t].from ELSE 0]
<1>r. r \in TaskStates
  <2>1. (IF append THEN task[t].from ELSE 0) \in 0..N
      BY DownloadAssumption
  <2> QED BY <2>1, TaskType DEF TaskStates
<1>2. task' \in [Tasks -> TaskStates]
  <2>1. Become(t, r)
      BY <1>1
  <2> HIDE DEF r
  <2> QED BY <1>r, <2>1, TaskUpdate
<1>3. content' \in [Files -> Seq({"good", "bad"})]
    BY <1>1 DEF TypeOK
<1> QED BY <1>1, <1>2, <1>3 DEF TypeOK

LEMMA NextTypeOK == TypeOK /\ [Next]_vars => TypeOK'
<1> SUFFICES ASSUME TypeOK, [Next]_vars PROVE TypeOK'
    OBVIOUS
<1> USE DownloadAssumption
<1>m. may' = may
    BY DEF Next, vars
<1> USE <1>m
<1>1. ASSUME NEW t \in Tasks, InstallModel(t) PROVE TypeOK'
  <2>1. PICK i \in Installs : /\ status' = [status EXCEPT ![i] = "pending"]
                              /\ event' = [event EXCEPT ![i] = t]
                              /\ Become(t, Job("pending", i, "route", 0))
      BY <1>1 DEF InstallModel
  <2>2. task' \in [Tasks -> TaskStates]
      BY <2>1, JobType, TaskUpdate DEF Installs
  <2> QED BY <1>1, <2>1, <2>2 DEF InstallModel, TypeOK, InProgress
<1>2. ASSUME NEW t \in Tasks, BeginDownload(t) PROVE TypeOK'
  <2>1. task' \in [Tasks -> TaskStates]
      BY <1>2, TaskType, PartSizeType, TaskUpdate DEF BeginDownload, TaskStates
  <2> QED BY <1>2, <2>1 DEF BeginDownload, TypeOK, InProgress
<1>3. ASSUME NEW t \in Tasks, NoDirectory(t) PROVE TypeOK'
    BY <1>3, ReturnedType DEF NoDirectory, TypeOK
<1>4. ASSUME NEW t \in Tasks, SetupInstall(t) PROVE TypeOK'
    BY <1>4, SetupDownloadType DEF SetupInstall, Installs
<1>5. ASSUME NEW t \in Tasks, SetupRetry(t) PROVE TypeOK'
  <2>1. task[t].id \in 0..MaxInstalls
      BY TaskType DEF TaskStates
  <2>2. /\ SetupDownload(t, task[t].id, "retry")
        /\ UNCHANGED <<part, dest, content>>
      BY <1>5 DEF SetupRetry, RetryKind
  <2>3. \A i \in 0..MaxInstalls : SetupDownload(t, i, "retry") => TypeOK'
      BY <2>2, SetupDownloadType
  <2> QED BY <2>1, <2>2, <2>3
<1>6. ASSUME NEW t \in Tasks, SetupLeaves(t) PROVE TypeOK'
    BY <1>6, IdleType, TaskUpdate DEF SetupLeaves, TypeOK
<1>7. ASSUME NEW t \in Tasks, NetworkOrDiskError(t) \/ RangeRefused(t) \/ PartIsGone(t)
      PROVE  TypeOK'
    BY <1>7, FailType DEF NetworkOrDiskError, RangeRefused, PartIsGone
<1>8. ASSUME NEW t \in Tasks, Answer(t) PROVE TypeOK'
  <2>1. CASE task[t].from \in 1..(N - 1) /\ OpenPart(t, TRUE)
    <3>1. task[t].from \in 0..N
        BY <2>1
    <3> QED BY <1>8, <2>1, <3>1, OpenPartType DEF Answer
  <2>2. CASE OpenPart(t, FALSE)
      BY <1>8, <2>2, OpenPartType DEF Answer
  <2> QED BY <1>8, <2>1, <2>2 DEF Answer
<1>9. ASSUME NEW t \in Tasks, Chunk(t) PROVE TypeOK'
  <2>1. task' \in [Tasks -> TaskStates]
      BY <1>9, TaskType, TaskUpdate DEF Chunk, MoreComes, TaskStates
  <2>2. PICK c \in {"good", "bad"} :
           content' = [f \in Files |->
                          IF f = task[t].file /\ f \in {part, dest}
                          THEN Put(content[f], Position(t),
                                   IF Position(t) = task[t].off + 1 THEN c ELSE "bad")
                          ELSE content[f]]
      BY <1>9 DEF Chunk
  <2>3. task[t].file \in Files => Position(t) \in Nat \ {0}
      BY TaskType DEF Position, TypeOK, TaskStates
  <2>4. \A f \in Files : content'[f] \in Seq({"good", "bad"})
    <3> SUFFICES ASSUME NEW f \in Files PROVE content'[f] \in Seq({"good", "bad"})
        OBVIOUS
    <3>1. content[f] \in Seq({"good", "bad"})
        BY DEF TypeOK
    <3>2. CASE f = task[t].file /\ f \in {part, dest}
      <4> DEFINE d == IF Position(t) = task[t].off + 1 THEN c ELSE "bad"
      <4>1. d \in {"good", "bad"}
          OBVIOUS
      <4>2. content'[f] = Put(content[f], Position(t), d)
          BY <2>2, <3>2
      <4> HIDE DEF d
      <4> QED BY <2>3, <3>1, <3>2, <4>1, <4>2, PutType
    <3>3. CASE ~(f = task[t].file /\ f \in {part, dest})
        BY <2>2, <3>1, <3>3
    <3> QED BY <3>2, <3>3
  <2>5. content' \in [Files -> Seq({"good", "bad"})]
      BY <2>2, <2>4
  <2> QED BY <1>9, <2>1, <2>5 DEF Chunk, TypeOK
<1>10. ASSUME NEW t \in Tasks, StreamEnds(t) PROVE TypeOK'
  <2> DEFINE j == Job("closing", task[t].id, task[t].kind, 0)
             r == [j EXCEPT !.cancel = task[t].cancel, !.aborted = task[t].aborted]
  <2>2. j \in TaskStates
      BY JobOf
  <2>3. r \in TaskStates
      BY <2>2, TaskType DEF TaskStates
  <2>4. Become(t, r)
      BY <1>10 DEF StreamEnds
  <2> HIDE DEF r
  <2> QED BY <1>10, <2>3, <2>4, TaskUpdate DEF StreamEnds, TypeOK
<1>11. ASSUME NEW t \in Tasks, Cancelled(t) PROVE TypeOK'
    BY <1>11, ReturnedType, UnlinkType DEF Cancelled, TypeOK, Terminal
<1>12. ASSUME NEW t \in Tasks, StartVerify(t) PROVE TypeOK'
  <2>1. task' \in [Tasks -> TaskStates]
      BY <1>12, TaskType, TaskUpdate DEF StartVerify, TaskStates
  <2> QED BY <1>12, <2>1 DEF StartVerify, TypeOK
<1>13. ASSUME NEW t \in Tasks, Verify(t) PROVE TypeOK'
  <2>1. task' \in [Tasks -> TaskStates]
      BY <1>13, TaskType, TaskUpdate DEF Verify, TaskStates
  <2> QED BY <1>13, <2>1 DEF Verify, TypeOK
<1>14. ASSUME NEW t \in Tasks, Promote(t) PROVE TypeOK'
    BY <1>14, ReturnedType, RenameType DEF Promote, TypeOK, Terminal
<1>15. ASSUME NEW t \in Tasks, Mismatch(t) PROVE TypeOK'
    BY <1>15, ReturnedType, UnlinkType DEF Mismatch, TypeOK, Terminal
<1>16. ASSUME NEW i \in Installs, CancelInstall(i) PROVE TypeOK'
  <2>1. CASE event[i] # NoTask
    <3>e. event[i] \in Tasks
        BY <2>1 DEF TypeOK
    <3>r. [task[event[i]] EXCEPT !.cancel = TRUE] \in TaskStates
        BY <3>e, TaskType DEF TaskStates
    <3>1. task' \in [Tasks -> TaskStates]
        BY <1>16, <2>1, <3>e, <3>r, TaskUpdate DEF CancelInstall
    <3> QED BY <1>16, <2>1, <3>1 DEF CancelInstall, TypeOK
  <2>2. CASE event[i] = NoTask
      BY <1>16, <2>2 DEF CancelInstall, TypeOK, Terminal
  <2> QED BY <2>1, <2>2
<1>17. ASSUME NEW t \in Tasks, CancelSetup(t) \/ ForwardCancel(t) PROVE TypeOK'
  <2>1. task' \in [Tasks -> TaskStates]
      BY <1>17, TaskType, TaskUpdate DEF CancelSetup, ForwardCancel, TaskStates
  <2> QED BY <1>17, <2>1 DEF CancelSetup, ForwardCancel, TypeOK
<1>18. ASSUME NEW t \in Tasks, DiesAfterRename(t) PROVE TypeOK'
    BY <1>18, RenameType, IdleType DEF DiesAfterRename, TypeOK
<1>19. CASE CoreDies
    BY <1>19, IdleType DEF CoreDies, TypeOK
<1>20. CASE UNCHANGED vars
    BY <1>20 DEF vars, TypeOK
<1> QED BY <1>1, <1>2, <1>3, <1>4, <1>5, <1>6, <1>7, <1>8, <1>9, <1>10, <1>11, <1>12,
           <1>13, <1>14, <1>15, <1>16, <1>17, <1>18, <1>19, <1>20
        DEF Next, Step, Progress

LEMMA InitTypeOK == Init => TypeOK
<1> SUFFICES ASSUME Init PROVE TypeOK
    OBVIOUS
<1>1. content \in [Files -> Seq({"good", "bad"})]
    BY DEF Init
<1> QED BY <1>1, IdleType, DownloadAssumption DEF Init, TypeOK

\* Rows, files and running downloads are well formed, for any number of
\* downloads, rows and chunks.
THEOREM DownloadTypes == Spec => []TypeOK
BY InitTypeOK, NextTypeOK, PTL DEF Spec

-----------------------------------------------------------------------------
(***************************************************************************)
(* Overlapping downloads.                                                  *)
(***************************************************************************)
\* What a step does to the rows: it leaves them, gives one its next status,
\* or renames a file before one is ready.
LEMMA ReadyOnlyByRename ==
    ASSUME TypeOK, [Next]_vars, NEW i \in Installs, status'[i] = "ready", status[i] # "ready"
    PROVE  \E t \in Tasks : Promote(t)
BY DEF TypeOK, Next, Step, Progress, InstallModel, BeginDownload, NoDirectory, SetupInstall,
       SetupDownload, SetupRetry, SetupLeaves, NetworkOrDiskError, RangeRefused, PartIsGone,
       Fail, FailedStatus, Answer, Chunk, StreamEnds, Cancelled, StartVerify, Verify,
       Mismatch, CancelInstall, CancelSetup, ForwardCancel, DiesAfterRename, CoreDies, vars

LEMMA DestStays ==
    ASSUME [Next]_vars, dest' # dest
    PROVE  dest' = part /\ part # NoFile
BY DEF Next, Step, Progress, InstallModel, BeginDownload, NoDirectory, SetupInstall, SetupRetry,
       SetupLeaves, NetworkOrDiskError, RangeRefused, PartIsGone, Fail, Answer, Chunk,
       StreamEnds, Cancelled, StartVerify, Verify, Promote, Renamable, Rename, Mismatch,
       CancelInstall, CancelSetup, ForwardCancel, DiesAfterRename, CoreDies, vars

LEMMA NextHasFile == TypeOK /\ ReadyHasFile /\ [Next]_vars => ReadyHasFile'
<1> SUFFICES ASSUME TypeOK, ReadyHasFile, [Next]_vars,
                    NEW i \in Installs, status'[i] = "ready"
             PROVE  dest' # NoFile
    BY DEF ReadyHasFile, Ready
<1>1. CASE status[i] = "ready"
    BY <1>1, DestStays DEF ReadyHasFile, Ready
<1>2. CASE status[i] # "ready"
  <2>1. PICK t \in Tasks : Promote(t)
      BY <1>2, ReadyOnlyByRename
  <2> QED BY <2>1 DEF Promote, Renamable, Rename
<1> QED BY <1>1, <1>2

\* A row that is in progress after a step was so before, or the step's download
\* is the one that drives it; a download that ends decides its row.
LEMMA NextDriven == TypeOK /\ InProgressIsDriven /\ [Next]_vars => InProgressIsDriven'
<1>m. [Next]_vars => may' = may
    BY DEF Next, vars
<1> SUFFICES ASSUME TypeOK, InProgressIsDriven, [Next]_vars,
                    "death" \notin may, "directory" \notin may,
                    NEW i \in Installs, status'[i] \in InProgress
             PROVE  \E u \in Tasks : task'[u].pc \notin {"idle", "returned"} /\ task'[u].id = i
    BY <1>m DEF InProgressIsDriven
<1> DEFINE Drives(u) == task[u].pc \notin {"idle", "returned"} /\ task[u].id = i
           DrivesNow(u) == task'[u].pc \notin {"idle", "returned"} /\ task'[u].id = i
<1>s. status \in [Installs -> {"none"} \cup InProgress \cup Terminal]
    BY DEF TypeOK
<1>d. status[i] \in InProgress => \E u \in Tasks : Drives(u)
    BY DEF InProgressIsDriven
<1>k. ASSUME NEW t \in Tasks, NEW r, Become(t, r), UNCHANGED status,
             Drives(t) => r.pc \notin {"idle", "returned"} /\ r.id = i
      PROVE  \E u \in Tasks : DrivesNow(u)
  <2>1. PICK u \in Tasks : Drives(u)
      BY <1>d, <1>k
  <2>2. DrivesNow(u)
      BY <1>k, <2>1, TaskReplaced
  <2> QED BY <2>2
<1>e. ASSUME NEW t \in Tasks, Returned(t), NEW x \in Terminal,
             status' = [status EXCEPT ![task[t].id] = x]
      PROVE  \E u \in Tasks : DrivesNow(u)
  <2>1. status[i] \in InProgress /\ task[t].id # i
      BY <1>e, <1>s DEF InProgress, Terminal
  <2>2. PICK u \in Tasks : Drives(u)
      BY <1>d, <2>1
  <2>3. DrivesNow(u)
      BY <1>e, <2>1, <2>2, ReturnedType
  <2> QED BY <2>3
<1>b. ASSUME NEW t \in Tasks, NEW j \in 0..MaxInstalls, NEW r,
             Become(t, r), r.pc \notin {"idle", "returned"}, r.id = j,
             NEW x \in InProgress, status' = [status EXCEPT ![j] = x],
             task[t].pc \notin {"idle", "returned"} => task[t].id = j
      PROVE  \E u \in Tasks : DrivesNow(u)
  <2>1. CASE i = j
      BY <1>b, <2>1, TaskReplaced
  <2>2. CASE i # j
    <3>1. PICK u \in Tasks : Drives(u)
        BY <1>b, <1>d, <1>s, <2>2
    <3>2. u # t
        BY <1>b, <2>2, <3>1
    <3>3. DrivesNow(u)
        BY <1>b, <3>1, <3>2, TaskReplaced
    <3> QED BY <3>3
  <2> QED BY <2>1, <2>2
<1> HIDE DEF Drives, DrivesNow
<1>1. ASSUME NEW t \in Tasks, InstallModel(t) PROVE \E u \in Tasks : DrivesNow(u)
  <2>1. PICK j \in Installs : /\ status' = [status EXCEPT ![j] = "pending"]
                              /\ Become(t, Job("pending", j, "route", 0))
      BY <1>1 DEF InstallModel
  <2>2. /\ Job("pending", j, "route", 0) \in TaskStates
        /\ Job("pending", j, "route", 0).pc = "pending" /\ Job("pending", j, "route", 0).id = j
      BY JobType, DownloadAssumption DEF Installs
  <2>3. task[t].pc = "idle" /\ "pending" \in InProgress /\ j \in 0..MaxInstalls
      BY <1>1, DownloadAssumption DEF InstallModel, Startable, Idle, Job, InProgress, Installs
  <2> QED BY <1>b, <2>1, <2>2, <2>3
<1>2. ASSUME NEW t \in Tasks, BeginDownload(t) PROVE \E u \in Tasks : DrivesNow(u)
  <2> DEFINE r == [task[t] EXCEPT !.pc = "requesting", !.from = PartSize]
  <2>1. r.pc = "requesting" /\ r.id = task[t].id /\ task[t].id \in 0..MaxInstalls
      BY TaskType DEF TaskStates
  <2>2. /\ Become(t, r) /\ "downloading" \in InProgress
        /\ status' = [status EXCEPT ![task[t].id] = "downloading"]
      BY <1>2 DEF BeginDownload, InProgress
  <2> HIDE DEF r
  <2> QED BY <1>b, <2>1, <2>2
<1>3. ASSUME NEW t \in Tasks, NEW j \in 0..MaxInstalls, NEW kind \in {"setup", "retry"},
             SetupDownload(t, j, kind), task[t].pc \in {"idle", "returned"}
      PROVE  \E u \in Tasks : DrivesNow(u)
  <2> DEFINE r == Job("requesting", j, kind, PartSize)
  <2>1. r.pc = "requesting" /\ r.id = j
      BY DEF Job
  <2>2. /\ Become(t, r) /\ "downloading" \in InProgress
        /\ status' = [status EXCEPT ![j] = "downloading"]
      BY <1>3 DEF SetupDownload, InProgress
  <2> HIDE DEF r
  <2> QED BY <1>3, <1>b, <2>1, <2>2
<1>4. ASSUME NEW t \in Tasks, SetupInstall(t) PROVE \E u \in Tasks : DrivesNow(u)
    BY <1>3, <1>4, DownloadAssumption DEF SetupInstall, Startable, Idle, Job, Installs
<1>5. ASSUME NEW t \in Tasks, SetupRetry(t) PROVE \E u \in Tasks : DrivesNow(u)
  <2>1. task[t].id \in 0..MaxInstalls
      BY TaskType DEF TaskStates
  <2>2. SetupDownload(t, task[t].id, "retry") /\ task[t].pc = "returned"
      BY <1>5 DEF SetupRetry, RetryKind
  <2> QED BY <1>3, <2>1, <2>2
<1>6. ASSUME NEW t \in Tasks, SetupLeaves(t) PROVE \E u \in Tasks : DrivesNow(u)
    BY <1>6, <1>k DEF SetupLeaves, Drives
<1>7. ASSUME NEW t \in Tasks, NetworkOrDiskError(t) \/ RangeRefused(t) \/ PartIsGone(t)
      PROVE  \E u \in Tasks : DrivesNow(u)
  <2>1. Returned(t) /\ status' = [status EXCEPT ![task[t].id] = "failed"]
      BY <1>7 DEF NetworkOrDiskError, RangeRefused, PartIsGone, Fail, FailedStatus
  <2> QED BY <1>e, <2>1 DEF Terminal
<1>8. ASSUME NEW t \in Tasks, Answer(t) PROVE \E u \in Tasks : DrivesNow(u)
  <2>1. PICK append \in BOOLEAN, f \in Files :
           Become(t, [task[t] EXCEPT !.pc = "streaming", !.file = f, !.from = 0,
                                     !.append = append,
                                     !.off = IF append THEN task[t].from ELSE 0])
      BY <1>8 DEF Answer, OpenPart
  <2> DEFINE r == [task[t] EXCEPT !.pc = "streaming", !.file = f, !.from = 0,
                                  !.append = append,
                                  !.off = IF append THEN task[t].from ELSE 0]
  <2>2. Become(t, r)
      BY <2>1
  <2>3. r.pc = "streaming" /\ r.id = task[t].id
      BY TaskType DEF TaskStates
  <2> HIDE DEF r
  <2> QED BY <1>8, <1>k, <2>2, <2>3 DEF Answer, Drives
<1>9. ASSUME NEW t \in Tasks, Chunk(t) PROVE \E u \in Tasks : DrivesNow(u)
  <2> DEFINE r == [task[t] EXCEPT !.off = @ + 1]
  <2>1. r.pc = task[t].pc /\ r.id = task[t].id
      BY TaskType DEF TaskStates
  <2>2. Become(t, r)
      BY <1>9 DEF Chunk
  <2> HIDE DEF r
  <2> QED BY <1>9, <1>k, <2>1, <2>2 DEF Chunk, Drives
<1>10. ASSUME NEW t \in Tasks, StreamEnds(t) PROVE \E u \in Tasks : DrivesNow(u)
  <2> DEFINE r == [Job("closing", task[t].id, task[t].kind, 0)
                      EXCEPT !.cancel = task[t].cancel, !.aborted = task[t].aborted]
  <2>1. r.pc = "closing" /\ r.id = task[t].id
      BY DEF Job
  <2>2. Become(t, r)
      BY <1>10 DEF StreamEnds
  <2> HIDE DEF r
  <2> QED BY <1>10, <1>k, <2>1, <2>2 DEF StreamEnds, Drives
<1>11. ASSUME NEW t \in Tasks, Cancelled(t) \/ Promote(t) \/ Mismatch(t)
       PROVE  \E u \in Tasks : DrivesNow(u)
    BY <1>11, <1>e DEF Cancelled, Promote, Mismatch, Terminal
<1>12. ASSUME NEW t \in Tasks, StartVerify(t) \/ Verify(t)
       PROVE  \E u \in Tasks : DrivesNow(u)
  <2>1. PICK r : /\ Become(t, r) /\ r.pc \in {"verifying", "verified"} /\ r.id = task[t].id
    <3>1. CASE StartVerify(t)
        BY <3>1, TaskType DEF StartVerify, TaskStates
    <3>2. CASE Verify(t)
      <4>1. PICK v : Become(t, [task[t] EXCEPT !.pc = "verified", !.verdict = v])
          BY <3>2 DEF Verify
      <4> DEFINE r == [task[t] EXCEPT !.pc = "verified", !.verdict = v]
      <4>2. r.pc = "verified" /\ r.id = task[t].id
          BY TaskType DEF TaskStates
      <4>3. Become(t, r)
          BY <4>1
      <4> HIDE DEF r
      <4> QED BY <4>2, <4>3
    <3> QED BY <1>12, <3>1, <3>2
  <2> QED BY <1>12, <1>k, <2>1 DEF StartVerify, Verify, Drives
<1>13. ASSUME NEW j \in Installs, CancelInstall(j) PROVE \E u \in Tasks : DrivesNow(u)
  <2>1. CASE event[j] # NoTask
    <3> DEFINE t == event[j]
               r == [task[t] EXCEPT !.cancel = TRUE]
    <3>1. t \in Tasks
        BY <2>1 DEF TypeOK
    <3>2. r.pc = task[t].pc /\ r.id = task[t].id
        BY <3>1, TaskType DEF TaskStates
    <3>3. Become(t, r) /\ UNCHANGED status
        BY <1>13, <2>1 DEF CancelInstall
    <3>4. PICK u \in Tasks : Drives(u)
        BY <1>d, <3>3
    <3>5. DrivesNow(u)
      <4> HIDE DEF r
      <4> QED BY <3>1, <3>2, <3>3, <3>4, TaskReplaced DEF Drives, DrivesNow
    <3> QED BY <3>5
  <2>2. CASE event[j] = NoTask
    <3>1. status' = [status EXCEPT ![j] = "cancelled"] /\ task' = task
        BY <1>13, <2>2 DEF CancelInstall
    <3>2. status[i] \in InProgress
        BY <1>s, <3>1 DEF InProgress
    <3> QED BY <1>d, <3>1, <3>2 DEF Drives, DrivesNow
  <2> QED BY <2>1, <2>2
<1>14. ASSUME NEW t \in Tasks, CancelSetup(t) \/ ForwardCancel(t)
       PROVE  \E u \in Tasks : DrivesNow(u)
  <2>1. PICK r : Become(t, r) /\ r.pc = task[t].pc /\ r.id = task[t].id
      BY <1>14, TaskType DEF CancelSetup, ForwardCancel, TaskStates
  <2> QED BY <1>14, <1>k, <2>1 DEF CancelSetup, ForwardCancel, Drives
<1>15. CASE UNCHANGED vars
    BY <1>15, <1>d DEF vars, Drives, DrivesNow
<1>16. ASSUME NEW t \in Tasks, Progress(t) PROVE \E u \in Tasks : DrivesNow(u)
  <2>1. ~NoDirectory(t)
      BY DEF NoDirectory
  <2> QED BY <1>2, <1>5, <1>6, <1>7, <1>8, <1>9, <1>10, <1>11, <1>12, <1>16, <2>1 DEF Progress
<1>17. ~CoreDies /\ \A t \in Tasks : ~DiesAfterRename(t)
    BY DEF CoreDies, DiesAfterRename
<1>18. ASSUME Next PROVE \E u \in Tasks : DrivesNow(u)
  <2>1. CASE \E j \in Installs : CancelInstall(j)
      BY <1>13, <2>1
  <2>2. CASE \E t \in Tasks : \/ InstallModel(t) \/ SetupInstall(t) \/ CancelSetup(t)
                              \/ ForwardCancel(t) \/ Progress(t)
      BY <1>1, <1>4, <1>14, <1>16, <2>2
  <2> QED BY <1>17, <1>18, <2>1, <2>2 DEF Next, Step
<1> QED BY <1>15, <1>18 DEF DrivesNow

\* However downloads overlap, fail or die, a ready row has a file; in a core that
\* is not killed and can make its directory, no row stays in progress without a
\* download that decides it, also when two share the row.
THEOREM RowsAreKept == Spec => []RowsKeep
<1>1. Init => RowsKeep
    BY DEF Init, RowsKeep, ReadyHasFile, Ready, InProgressIsDriven, InProgress
<1>2. TypeOK /\ RowsKeep /\ [Next]_vars => RowsKeep'
    BY NextHasFile, NextDriven DEF RowsKeep
<1> QED BY <1>1, <1>2, InitTypeOK, NextTypeOK, PTL DEF Spec

-----------------------------------------------------------------------------
(***************************************************************************)
(* Downloads that take turns: the SHA-256 check gates registration.  What  *)
(* was hashed is what is renamed, because nobody else touches the names.   *)
(***************************************************************************)
TakesTurns == \A t, u \in Tasks : task[t].pc # "idle" /\ task[u].pc # "idle" => t = u

Apart == part # NoFile => part # dest

StreamsToPart == \A t \in Tasks : task[t].pc = "streaming" => part # NoFile /\ task[t].file = part

VerifiedIsComplete ==
    \A t \in Tasks : task[t].pc = "verified" /\ task[t].verdict = "ok" =>
        part # NoFile /\ Complete(content[part])

Whole == Ready => dest # NoFile /\ Complete(content[dest])

Intact == TakesTurns /\ Apart /\ StreamsToPart /\ VerifiedIsComplete /\ Whole

IntactInv == "overlap" \notin may => Intact

\* No download but this one runs.
Alone(t) == \A u \in Tasks \ {t} : task[u].pc = "idle"

LEMMA RunsAlone ==
    ASSUME TakesTurns, NEW t \in Tasks, task[t].pc # "idle" PROVE Alone(t)
BY DEF TakesTurns, Alone

LEMMA StartsAlone ==
    ASSUME "overlap" \notin may, NEW t \in Tasks, Startable(t) PROVE Alone(t)
<1>1. Idle.pc = "idle"
    BY DEF Idle, Job
<1> QED BY <1>1 DEF Startable, Alone

\* No row becomes ready by another status.
LEMMA ReadyIsOld ==
    ASSUME TypeOK, NEW j, NEW x, x # "ready",
           status' = status \/ status' = [status EXCEPT ![j] = x]
    PROVE  Ready' => Ready
BY DEF TypeOK, Ready

LEMMA SlotAfterReturn ==
    ASSUME TypeOK, NEW t \in Tasks, Returned(t)
    PROVE  task'[t].pc \notin {"streaming", "verified"}
BY ReturnedType

LEMMA AloneAfter ==
    ASSUME NEW t \in Tasks, Alone(t), \A u \in Tasks \ {t} : task'[u] = task[u]
    PROVE  Alone(t)'
BY DEF Alone

\* While one download runs, what it says of itself is all there is to say.
LEMMA IntactAfter ==
    ASSUME NEW t \in Tasks, Alone(t)', Apart', Whole',
           task'[t].pc = "streaming" => part' # NoFile /\ task'[t].file = part',
           task'[t].pc = "verified" /\ task'[t].verdict = "ok" =>
               part' # NoFile /\ Complete(content[part])'
    PROVE  Intact'
BY DEF Alone, Intact, TakesTurns, StreamsToPart, VerifiedIsComplete

\* A step of one download that leaves the files alone.
LEMMA FilesAlone ==
    ASSUME TypeOK, Intact, NEW t \in Tasks, UNCHANGED <<part, dest, content>>, Ready' => Ready,
           \A u \in Tasks \ {t} : task'[u] = task[u],
           \/ Alone(t) /\ task'[t].pc \notin {"streaming", "verified"}
           \/ /\ task'[t].pc = task[t].pc /\ task'[t].file = task[t].file
              /\ task'[t].verdict = task[t].verdict
    PROVE  Intact'
<1>1. Apart' /\ Whole'
    BY DEF Intact, Apart, Whole, Complete
<1>2. StreamsToPart' /\ VerifiedIsComplete'
    BY DEF Intact, StreamsToPart, VerifiedIsComplete, Complete
<1>3. TakesTurns'
    BY DEF Intact, TakesTurns, Alone
<1> QED BY <1>1, <1>2, <1>3 DEF Intact

\* A download that deletes .part and ends.
LEMMA UnlinkKeepsIntact ==
    ASSUME TypeOK, Intact, NEW t \in Tasks, Alone(t), Returned(t), Unlink, UNCHANGED dest,
           Ready' => Ready
    PROVE  Intact'
<1>1. Apart'
    BY DEF Unlink, Apart
<1>2. ASSUME Ready' PROVE dest' # NoFile /\ Complete(content'[dest'])
  <2>1. dest \in Files /\ Complete(content[dest])
      BY <1>2 DEF Intact, Whole, TypeOK
  <2>2. dest # part
      BY <2>1, DownloadAssumption DEF Intact, Apart
  <2>3. content'[dest] = content[dest]
      BY <2>1, <2>2 DEF Unlink
  <2> QED BY <2>1, <2>3, DownloadAssumption
<1>3. Whole'
    BY <1>2 DEF Whole, Complete
<1> QED BY <1>1, <1>3, SlotAfterReturn, ReturnedType, AloneAfter, IntactAfter

\* A verified .part takes the place of the final file.
LEMMA RenameKeepsIntact ==
    ASSUME TypeOK, Intact, NEW t \in Tasks, task[t].pc = "verified", task[t].verdict = "ok",
           Rename, Alone(t)', task'[t].pc \notin {"streaming", "verified"}
    PROVE  Intact'
<1>1. part \in Files /\ Complete(content[part]) /\ part # dest
    BY DEF Intact, VerifiedIsComplete, Apart, TypeOK
<1>2. dest' = part /\ content'[dest'] = content[part]
    BY <1>1 DEF Rename
<1>3. Apart'
    BY DEF Rename, Apart
<1>4. Whole'
    BY <1>1, <1>2, DownloadAssumption DEF Whole, Complete
<1> QED BY <1>3, <1>4, IntactAfter

LEMMA OpenPartKeepsIntact ==
    ASSUME TypeOK, Intact, NEW t \in Tasks, Alone(t), NEW append \in BOOLEAN,
           OpenPart(t, append),
           UNCHANGED <<status, dest>>
    PROVE  Intact'
<1>1. PICK f \in Files :
         /\ IF part = NoFile THEN Unused(f) ELSE f = part
         /\ part' = f
         /\ content' = [content EXCEPT ![f] = IF part # NoFile /\ append THEN @ ELSE <<>>]
         /\ Become(t, [task[t] EXCEPT !.pc = "streaming", !.file = f, !.from = 0,
                                      !.append = append,
                                      !.off = IF append THEN task[t].from ELSE 0])
    BY DEF OpenPart
<1> DEFINE r == [task[t] EXCEPT !.pc = "streaming", !.file = f, !.from = 0,
                                !.append = append,
                                !.off = IF append THEN task[t].from ELSE 0]
<1>r. r.pc = "streaming" /\ r.file = f
    BY TaskType DEF TaskStates
<1>2. task'[t].pc = "streaming" /\ task'[t].file = f /\ Alone(t)'
  <2>1. Become(t, r)
      BY <1>1
  <2> HIDE DEF r
  <2> QED BY <1>r, <2>1, TaskReplaced, AloneAfter
<1>3. f # dest
    BY <1>1 DEF Unused, Intact, Apart
<1>4. Apart' /\ part' # NoFile
    BY <1>1, <1>3, DownloadAssumption DEF Apart
<1>5. ASSUME Ready' PROVE dest' # NoFile /\ Complete(content'[dest'])
  <2>1. dest \in Files /\ Complete(content[dest]) /\ dest # NoFile
      BY <1>5 DEF Intact, Whole, TypeOK, Ready
  <2>2. content'[dest] = content[dest]
      BY <1>1, <1>3, <2>1 DEF TypeOK
  <2> QED BY <2>1, <2>2
<1>6. Whole'
    BY <1>5 DEF Whole, Complete
<1> QED BY <1>1, <1>2, <1>4, <1>6, IntactAfter

LEMMA ChunkKeepsIntact ==
    ASSUME TypeOK, Intact, NEW t \in Tasks, Alone(t), Chunk(t)
    PROVE  Intact'
<1> DEFINE r == [task[t] EXCEPT !.off = @ + 1]
<1>1. r.pc = "streaming" /\ r.file = task[t].file
    BY TaskType DEF TaskStates, Chunk
<1>2. task'[t].pc = "streaming" /\ task'[t].file = task[t].file /\ Alone(t)'
  <2>1. Become(t, r)
      BY DEF Chunk
  <2> HIDE DEF r
  <2> QED BY <1>1, <2>1, TaskReplaced, AloneAfter
<1>3. part # NoFile /\ task[t].file = part /\ part # dest
    BY DEF Chunk, Intact, StreamsToPart, Apart
<1>4. Apart' /\ part' = part
    BY <1>3 DEF Chunk, Apart
<1>5. ASSUME Ready' PROVE dest' # NoFile /\ Complete(content'[dest'])
  <2>1. dest \in Files /\ Complete(content[dest]) /\ dest # NoFile
      BY <1>5 DEF Chunk, Intact, Whole, TypeOK, Ready
  <2>2. content'[dest] = content[dest] /\ dest' = dest
      BY <1>3, <2>1 DEF Chunk
  <2> QED BY <2>1, <2>2
<1>6. Whole'
    BY <1>5 DEF Whole, Complete
<1> QED BY <1>2, <1>3, <1>4, <1>6, IntactAfter

LEMMA NextIntact == TypeOK /\ IntactInv /\ [Next]_vars => IntactInv'
<1>m. [Next]_vars => may' = may
    BY DEF Next, vars
<1> SUFFICES ASSUME TypeOK, Intact, [Next]_vars, "overlap" \notin may PROVE Intact'
    BY <1>m DEF IntactInv
<1>a. ASSUME NEW t \in Tasks, task[t].pc # "idle" PROVE Alone(t)
    BY <1>a, RunsAlone DEF Intact
<1>f. ASSUME NEW t \in Tasks, NEW r, Become(t, r), UNCHANGED <<part, dest, content>>,
             Ready' => Ready,
             \/ Alone(t) /\ r.pc \notin {"streaming", "verified"}
             \/ r.pc = task[t].pc /\ r.file = task[t].file /\ r.verdict = task[t].verdict
      PROVE  Intact'
  <2>1. task'[t] = r /\ \A u \in Tasks \ {t} : task'[u] = task[u]
      BY <1>f, TaskReplaced
  <2> QED BY <1>f, <2>1, FilesAlone
<1>1. ASSUME NEW t \in Tasks, InstallModel(t) PROVE Intact'
  <2>1. PICK j \in Installs : /\ status' = [status EXCEPT ![j] = "pending"]
                              /\ Become(t, Job("pending", j, "route", 0))
      BY <1>1 DEF InstallModel
  <2>2. Job("pending", j, "route", 0).pc = "pending"
      BY DEF Job
  <2>3. Ready' => Ready
      BY <2>1, ReadyIsOld
  <2> QED BY <1>1, <1>f, <2>1, <2>2, <2>3, StartsAlone DEF InstallModel
<1>2. ASSUME NEW t \in Tasks, BeginDownload(t) PROVE Intact'
  <2> DEFINE r == [task[t] EXCEPT !.pc = "requesting", !.from = PartSize]
  <2>1. r.pc = "requesting"
      BY TaskType DEF TaskStates
  <2>2. Become(t, r) /\ (Ready' => Ready)
      BY <1>2, ReadyIsOld DEF BeginDownload
  <2> HIDE DEF r
  <2> QED BY <1>2, <1>a, <1>f, <2>1, <2>2 DEF BeginDownload
<1>3. ASSUME NEW t \in Tasks, NoDirectory(t) PROVE Intact'
  <2>1. /\ task'[t].pc \notin {"streaming", "verified"} /\ (Ready' => Ready)
        /\ \A u \in Tasks \ {t} : task'[u] = task[u]
      BY <1>3, SlotAfterReturn, ReturnedType DEF NoDirectory, Ready
  <2> QED BY <1>3, <1>a, <2>1, FilesAlone DEF NoDirectory
<1>4. ASSUME NEW t \in Tasks, Alone(t), NEW j, NEW kind, SetupDownload(t, j, kind),
             UNCHANGED <<part, dest, content>>
      PROVE  Intact'
  <2>1. Ready' => Ready
      BY <1>4, ReadyIsOld DEF SetupDownload
  <2>2. Job("requesting", j, kind, PartSize).pc = "requesting" /\ Idle.pc = "idle"
      BY DEF Idle, Job
  <2> QED BY <1>4, <1>f, <2>1, <2>2 DEF SetupDownload
<1>5. ASSUME NEW t \in Tasks, SetupInstall(t) \/ SetupRetry(t) PROVE Intact'
    BY <1>4, <1>5, <1>a, StartsAlone DEF SetupInstall, SetupRetry
<1>6. ASSUME NEW t \in Tasks, SetupLeaves(t) PROVE Intact'
  <2>1. Idle.pc = "idle"
      BY DEF Idle, Job
  <2> QED BY <1>6, <1>a, <1>f, <2>1 DEF SetupLeaves, Ready
<1>7. ASSUME NEW t \in Tasks, NetworkOrDiskError(t) \/ RangeRefused(t) \/ PartIsGone(t)
      PROVE  Intact'
  <2>1. Fail(t) /\ Alone(t)
      BY <1>7, <1>a DEF NetworkOrDiskError, RangeRefused, PartIsGone
  <2>2. Ready' => Ready
      BY <2>1, ReadyIsOld DEF Fail, FailedStatus
  <2> QED BY <2>1, <2>2, UnlinkKeepsIntact DEF Fail
<1>8. ASSUME NEW t \in Tasks, Answer(t) PROVE Intact'
    BY <1>8, <1>a, OpenPartKeepsIntact DEF Answer
<1>9. ASSUME NEW t \in Tasks, Chunk(t) PROVE Intact'
    BY <1>9, <1>a, ChunkKeepsIntact DEF Chunk
<1>10. ASSUME NEW t \in Tasks, StreamEnds(t) PROVE Intact'
  <2> DEFINE r == [Job("closing", task[t].id, task[t].kind, 0)
                      EXCEPT !.cancel = task[t].cancel, !.aborted = task[t].aborted]
  <2>1. r.pc = "closing"
      BY DEF Job
  <2>2. Become(t, r)
      BY <1>10 DEF StreamEnds
  <2> HIDE DEF r
  <2> QED BY <1>10, <1>a, <1>f, <2>1, <2>2 DEF StreamEnds, Ready
<1>11. ASSUME NEW t \in Tasks, Cancelled(t) \/ Mismatch(t) PROVE Intact'
  <2>1. Alone(t) /\ (Ready' => Ready)
      BY <1>11, <1>a, ReadyIsOld DEF Cancelled, Mismatch
  <2> QED BY <1>11, <2>1, UnlinkKeepsIntact DEF Cancelled, Mismatch
<1>12. ASSUME NEW t \in Tasks, StartVerify(t) PROVE Intact'
  <2> DEFINE r == [task[t] EXCEPT !.pc = "verifying"]
  <2>1. r.pc = "verifying"
      BY TaskType DEF TaskStates
  <2>2. Become(t, r)
      BY <1>12 DEF StartVerify
  <2> HIDE DEF r
  <2> QED BY <1>12, <1>a, <1>f, <2>1, <2>2 DEF StartVerify, Ready
<1>13. ASSUME NEW t \in Tasks, Verify(t) PROVE Intact'
  <2> DEFINE v == IF part = NoFile THEN "missing"
                  ELSE IF Complete(content[part]) THEN "ok" ELSE "mismatch"
             r == [task[t] EXCEPT !.pc = "verified", !.verdict = v]
  <2>1. r.pc = "verified" /\ r.verdict = v
      BY TaskType DEF TaskStates
  <2>2. Become(t, r)
      BY <1>13 DEF Verify, ChecksumOk
  <2>3. task'[t].pc = "verified" /\ task'[t].verdict = v /\ Alone(t)'
    <3> HIDE DEF r
    <3> QED BY <1>13, <1>a, <2>1, <2>2, TaskReplaced, AloneAfter DEF Verify
  <2>4. v = "ok" => part # NoFile /\ Complete(content[part])
      OBVIOUS
  <2> HIDE DEF v, r
  <2>5. Apart' /\ Whole'
      BY <1>13 DEF Verify, Intact, Apart, Whole, Ready, Complete
  <2>6. v = "ok" => part' # NoFile /\ Complete(content[part])'
      BY <1>13, <2>4 DEF Verify, Complete
  <2> QED BY <2>3, <2>5, <2>6, IntactAfter
<1>14. ASSUME NEW t \in Tasks, Promote(t) PROVE Intact'
  <2>1. Alone(t)'
      BY <1>14, <1>a, ReturnedType, AloneAfter DEF Promote
  <2> QED BY <1>14, <2>1, SlotAfterReturn, RenameKeepsIntact DEF Promote
<1>15. ASSUME NEW t \in Tasks, DiesAfterRename(t) PROVE Intact'
  <2>1. task'[t].pc = "idle" /\ Alone(t)'
      BY <1>15 DEF DiesAfterRename, Alone, Idle, Job
  <2> QED BY <1>15, <2>1, RenameKeepsIntact DEF DiesAfterRename
<1>16. ASSUME NEW t \in Tasks, NEW u \in Tasks,
              \/ Become(u, [task[u] EXCEPT !.cancel = TRUE])
              \/ Become(u, [task[u] EXCEPT !.aborted = TRUE]),
              UNCHANGED <<status, part, dest, content>>
       PROVE  Intact'
  <2>1. PICK r : /\ Become(u, r) /\ r.pc = task[u].pc /\ r.file = task[u].file
                 /\ r.verdict = task[u].verdict
      BY <1>16, TaskType DEF TaskStates
  <2> QED BY <1>16, <1>f, <2>1 DEF Ready
<1>17. ASSUME NEW j \in Installs, CancelInstall(j) PROVE Intact'
  <2>1. CASE event[j] # NoTask
    <3>1. event[j] \in Tasks
        BY <2>1 DEF TypeOK
    <3> QED BY <1>16, <1>17, <2>1, <3>1 DEF CancelInstall
  <2>2. CASE event[j] = NoTask
    <3>1. Ready' => Ready
        BY <1>17, <2>2, ReadyIsOld DEF CancelInstall
    <3> QED BY <1>17, <2>2, <3>1
            DEF CancelInstall, Intact, TakesTurns, Apart, StreamsToPart, VerifiedIsComplete, Whole,
                Complete
  <2> QED BY <2>1, <2>2
<1>18. ASSUME NEW t \in Tasks, CancelSetup(t) \/ ForwardCancel(t) PROVE Intact'
    BY <1>16, <1>18 DEF CancelSetup, ForwardCancel
<1>19. CASE CoreDies
    BY <1>19 DEF CoreDies, Idle, Job, Intact, TakesTurns, Apart, StreamsToPart,
                 VerifiedIsComplete, Whole, Ready, Complete
<1>20. CASE UNCHANGED vars
    BY <1>20 DEF vars, Intact, TakesTurns, Apart, StreamsToPart, VerifiedIsComplete, Whole,
                 Ready, Complete
<1> QED BY <1>1, <1>2, <1>3, <1>5, <1>6, <1>7, <1>8, <1>9, <1>10, <1>11, <1>12, <1>13, <1>14,
           <1>15, <1>17, <1>18, <1>19, <1>20 DEF Next, Step, Progress

\* When downloads of the model take turns, whatever the server sends, however
\* often the transfer fails, is cancelled, resumed or killed, also between the
\* rename and the commit: while a row is ready, the final file is the model.
THEOREM GateKeeps == Spec => []ReadyIsIntact
<1>1. Init => IntactInv
    BY DEF Init, Idle, Job, IntactInv, Intact, TakesTurns, Apart, StreamsToPart,
           VerifiedIsComplete, Whole, Ready
<1>2. TypeOK /\ IntactInv /\ [Next]_vars => IntactInv'
    BY NextIntact
<1>3. IntactInv => ReadyIsIntact
    BY DEF IntactInv, Intact, Whole, ReadyIsIntact
<1> QED BY <1>1, <1>2, <1>3, InitTypeOK, NextTypeOK, PTL DEF Spec

=============================================================================
