---------------------------- MODULE AgentSession ----------------------------
(***************************************************************************)
(* One student's agent during one session: the SessionController of the    *)
(* Electron app, its socket, the workspace on the machine, the snapshot    *)
(* kept in object storage, and the handlers of the API that answer it.     *)
(*                                                                         *)
(* File contents are versions: every save of the student makes the next    *)
(* number, so that a larger number is newer work.  A handler of the agent  *)
(* runs to its first await in one step; what follows an await is a step of *)
(* its own, which anything else may precede.                               *)
(***************************************************************************)
EXTENDS Integers, Sequences

CONSTANTS
    Files,      \* number of required deliverables, each one file
    MaxEdits,   \* bound on the saves and deletions of the student
    MaxFaults   \* bound on disconnections, restarts and failed requests

ASSUME AgentAssumption == Files \in Nat \ {0} /\ {MaxEdits, MaxFaults} \subseteq Nat

VARIABLES
    session,        \* exam_session.status; "expired": the grace period is over
    attended,       \* the student has an agent_connection_event
    conn,           \* the socket, as the API knows it
    asked,          \* an agent:join the API has not read
    inbox,          \* what the API has sent and the agent not yet handled
    dialling,       \* the agent has created its socket
    phase,          \* AgentState.joinPhase
    hasJoinedOnce, examEnded,
    backupStatus,   \* AgentState.backup.status
    fetched,        \* what restoreBackup has still to write back, or None
    entry,          \* the file it found empty and is about to write, or 0
    settling,       \* a handleJoinAck is past its files: materials, instructions
    snapshots,      \* stopSnapshots is not null
    flight,         \* the archive uploadSnapshot is sending, or None
    round,          \* the running collectAll; file 0: `finalizing` is false
    atStart,        \* history: the workspace when that round began
    lost,           \* history: files the student deleted, or that were written
                    \* back over a save nobody had looked for
    unwritten,      \* history: files that could not be written back
    disk,           \* the required files in the workspace
    folder,         \* none, made, or briefed once the instructions are in it
    backup,         \* the snapshot in object storage
    object, row,    \* the uploaded deliverables, and the submissions collected
    edits, faults

server == <<session, attended>>
network == <<conn, asked, inbox>>
student == <<disk, folder, edits>>
joining == <<dialling, phase, hasJoinedOnce, examEnded>>
restoring == <<backupStatus, fetched, entry, settling>>
losses == <<lost, unwritten>>
storage == <<object, row>>
collecting == <<round, atStart>>
snapshotting == <<snapshots, flight>>
vars == <<server, network, student, joining, restoring, losses, storage, collecting,
          snapshotting, backup, faults>>

File == 1..Files
Absent == -1
Blank == 0
Content == Absent..MaxEdits
None == <<>>
NoFiles == [f \in File |-> Absent]
Idle == [file |-> 0, step |-> "read", held |-> Absent, clean |-> TRUE]

Conn == {"down", "up", "admitting", "inRoom", "joined"}
Phase == {"form", "joining", "joined", "refused"}
Message == {"ack", "ackBackup", "error", "finalize", "recollect"}
Round == [file : 0..Files, step : {"read", "put", "confirm"}, held : Content,
          clean : BOOLEAN]

TypeOK ==
    /\ session \in {"active", "collecting", "expired"}
    /\ attended \in BOOLEAN /\ asked \in BOOLEAN /\ dialling \in BOOLEAN
    /\ hasJoinedOnce \in BOOLEAN /\ examEnded \in BOOLEAN
    /\ settling \in BOOLEAN /\ snapshots \in BOOLEAN
    /\ conn \in Conn /\ inbox \in Seq(Message)
    /\ phase \in Phase
    /\ backupStatus \in {"idle", "restoring", "restored", "failed"}
    /\ fetched \in {None} \cup [File -> Content]
    /\ entry \in 0..Files
    /\ flight \in {None} \cup [File -> Content]
    /\ round \in Round
    /\ disk \in [File -> Content] /\ atStart \in [File -> Content]
    /\ backup \in [File -> Content]
    /\ object \in [File -> Content] /\ row \in [File -> Content]
    /\ folder \in {"none", "made", "briefed"}
    /\ edits \in 0..MaxEdits /\ faults \in 0..MaxFaults
    /\ lost \subseteq File /\ unwritten \subseteq File

Init ==
    /\ session = "active" /\ attended = FALSE
    /\ conn = "down" /\ asked = FALSE /\ inbox = <<>>
    /\ dialling = FALSE /\ phase = "form"
    /\ hasJoinedOnce = FALSE /\ examEnded = FALSE
    /\ backupStatus = "idle" /\ fetched = None /\ settling = FALSE
    /\ entry = 0 /\ lost = {} /\ unwritten = {}
    /\ snapshots = FALSE /\ flight = None
    /\ round = Idle /\ atStart = NoFiles
    /\ disk = NoFiles /\ folder = "none"
    /\ backup = NoFiles /\ object = NoFiles /\ row = NoFiles
    /\ edits = 0 /\ faults = 0

-----------------------------------------------------------------------------
(* The session, as the teacher, the sweeps and the clock move it.          *)

(* The socket is a member of the agents' room, and carries an identity.    *)
Identified == conn \in {"inRoom", "joined"}

Send(m) == inbox' = Append(inbox, m)

(* finalizeExamSession, by the teacher or the sweep: the conditional       *)
(* UPDATE, then the broadcast to who is in the room at that moment.        *)
Finalize ==
    /\ session = "active" /\ session' = "collecting"
    /\ IF Identified THEN Send("finalize") ELSE UNCHANGED inbox

(* endTime and the grace period have passed: isAcceptingUploads is false.  *)
(* confirmEnd before that only ends the orders of the teacher below.       *)
Expire == session = "collecting" /\ session' = "expired"

(* The teacher's "collect again", to a student who attended and has fewer  *)
(* collected rows than there are deliverables.  One order at a time waits. *)
Waiting(m) == \E i \in DOMAIN inbox : inbox[i] = m

Missing == attended /\ \E f \in File : row[f] = Absent

Recollect ==
    /\ session = "collecting" /\ Missing /\ Identified
    /\ ~Waiting("recollect")
    /\ Send("recollect")

-----------------------------------------------------------------------------
(* The connection, and agent:join on the API.                              *)

Fault == faults < MaxFaults /\ faults' = faults + 1

EmitJoin == phase' = "joining" /\ asked' = TRUE

(* join(): the first press creates the socket; on a live one it asks anew. *)
PressJoin ==
    /\ phase \in {"form", "refused"}
    /\ \/ ~dialling /\ dialling' = TRUE /\ UNCHANGED <<phase, asked>>
       \/ dialling /\ conn # "down" /\ EmitJoin /\ UNCHANGED dialling

(* Mutant: asks again only if it never asked.                              *)
ConnectOnce ==
    /\ dialling /\ conn = "down"
    /\ conn' = "up"
    /\ IF phase # "form" THEN UNCHANGED <<phase, asked>> ELSE EmitJoin

(* `connect`: socket.io reconnects by itself, and the agent joins anew     *)
(* unless its exam has ended.                                              *)
Connect ==
    /\ dialling /\ conn = "down"
    /\ conn' = "up"
    /\ IF examEnded THEN UNCHANGED <<phase, asked>> ELSE EmitJoin

Disconnect ==
    /\ conn # "down" /\ Fault
    /\ conn' = "down" /\ asked' = FALSE /\ inbox' = <<>>

(* handleAgentJoin up to its queries.                                      *)
ReadJoin ==
    /\ asked
    /\ asked' = FALSE
    /\ IF session = "active" THEN conn' = "admitting" /\ UNCHANGED inbox
       ELSE Send("error") /\ UNCHANGED conn

EnterRoom == conn = "admitting" /\ conn' = "inRoom"

(* The rest of the handler: backup lookup, attendance, ack.  A storage     *)
(* failure is reported to the agent as "no backup".                        *)
Acknowledge ==
    /\ conn = "inRoom"
    /\ conn' = "joined" /\ attended' = TRUE
    /\ \/ backup # NoFiles /\ Send("ackBackup") /\ UNCHANGED faults
       \/ backup = NoFiles /\ Send("ack") /\ UNCHANGED faults
       \/ backup # NoFiles /\ Send("ack") /\ Fault

-----------------------------------------------------------------------------
(* The agent, handling what the API sent.                                  *)

Receive(m) == inbox # <<>> /\ Head(inbox) = m /\ inbox' = Tail(inbox)

(* handleJoinError: ignored once the exam has ended.                       *)
HandleJoinError ==
    /\ Receive("error")
    /\ phase' = IF examEnded THEN phase ELSE "refused"

(* Mutant: without `wx`, what is there is truncated.                       *)
CreatedAnew(d) == [f \in File |-> Blank]

(* createSubmissionFiles: `wx`, so what is there stays.                    *)
Created(d) == [f \in File |-> IF d[f] = Absent THEN Blank ELSE d[f]]

CreateFiles(d) ==
    /\ disk' = Created(d)
    /\ folder' = IF folder = "none" THEN "made" ELSE folder
    /\ settling' = TRUE

(* doHandleJoinAck.  The first ack of this process restores the snapshot,  *)
(* when there is one, and then creates the files; a later one leaves the   *)
(* workspace alone.                                                        *)
HandleJoinAck ==
    \E m \in {"ack", "ackBackup"} :
       /\ Receive(m)
       /\ phase' = "joined" /\ hasJoinedOnce' = TRUE
       /\ \/ /\ hasJoinedOnce /\ settling' = TRUE
             /\ UNCHANGED <<disk, folder, backupStatus>>
          \/ /\ ~hasJoinedOnce /\ m = "ackBackup" /\ backupStatus' = "restoring"
             /\ UNCHANGED <<disk, folder, settling>>
          \/ /\ ~hasJoinedOnce /\ m = "ack" /\ CreateFiles(disk)
             /\ UNCHANGED backupStatus

(* restoreBackup: the URL, then the archive; a failure leaves the student  *)
(* with blank files.                                                       *)
FetchBackup ==
    /\ backupStatus = "restoring" /\ fetched = None /\ Identified
    /\ fetched' = backup

RestoreFails ==
    /\ backupStatus = "restoring" /\ fetched = None
    /\ (~Identified /\ UNCHANGED faults) \/ Fault
    /\ backupStatus' = "failed" /\ CreateFiles(disk)

(* shouldRestoreOver: only a file that is absent or empty is written.      *)
ShouldRestoreOver(f) == disk[f] \in {Absent, Blank}

(* The loop over the archive, from one await to the next: entries whose    *)
(* file has content are skipped, and the next that may be written is       *)
(* chosen and its folder made.  The archive lists the files in one order.  *)
NextEntry ==
    /\ fetched # None /\ entry = 0
    /\ \E f \in File :
          /\ fetched[f] # Absent /\ ShouldRestoreOver(f)
          /\ \A g \in 1..(f - 1) : fetched[g] # Absent => ~ShouldRestoreOver(g)
          /\ entry' = f
          /\ fetched' = [g \in File |-> IF g < f THEN Absent ELSE fetched[g]]
    /\ folder' = IF folder = "none" THEN "made" ELSE folder

(* writeFile truncates what is there: what the student has saved since     *)
(* shouldRestoreOver looked is lost.                                       *)
Overwrite(content) ==
    /\ disk' = [disk EXCEPT ![entry] = content]
    /\ lost' = IF disk[entry] > Blank THEN lost \cup {entry} ELSE lost

EntryDone == entry' = 0 /\ fetched' = [fetched EXCEPT ![entry] = Absent]

WriteEntry ==
    /\ entry # 0 /\ folder # "none"
    /\ Overwrite(fetched[entry]) /\ EntryDone

(* An entry that cannot be inflated, or whose file cannot be opened - the  *)
(* folder may be gone - or be filled once it is truncated, costs a line in *)
(* the log, and the loop goes on.                                          *)
EntryFails ==
    /\ entry # 0
    /\ (folder = "none" /\ UNCHANGED faults) \/ Fault
    /\ UNCHANGED <<disk, lost>> \/ (folder # "none" /\ Overwrite(Blank))
    /\ unwritten' = unwritten \cup {entry}
    /\ EntryDone

(* No entry is left: "restored", however many were skipped or failed.      *)
FinishRestore ==
    /\ fetched # None /\ entry = 0
    /\ \A f \in File : fetched[f] # Absent => ~ShouldRestoreOver(f)
    /\ fetched' = None /\ backupStatus' = "restored"
    /\ CreateFiles(disk)

(* The end of doHandleJoinAck: the instructions, if there is a folder, and *)
(* the snapshot loop, unless it runs.                                      *)
Settle ==
    /\ settling
    /\ settling' = FALSE /\ snapshots' = TRUE
    /\ folder' = IF folder = "made" THEN "briefed" ELSE folder

-----------------------------------------------------------------------------
(* Snapshots.                                                              *)

(* The timer: what is in the workspace is archived, unless there is        *)
(* nothing at all.  One upload at a time is in flight; one that equals the *)
(* stored snapshot would change nothing and is left out.                   *)
TakeSnapshot ==
    /\ snapshots /\ flight = None /\ disk # backup
    /\ folder = "briefed" \/ disk # NoFiles
    /\ flight' = disk

SendSnapshot ==
    /\ flight # None /\ Identified
    /\ backup' = flight /\ flight' = None

SnapshotFails ==
    /\ flight # None
    /\ (~Identified /\ UNCHANGED faults) \/ Fault
    /\ flight' = None

-----------------------------------------------------------------------------
(* The collection.                                                         *)

Collecting == round.file # 0

(* The history is of one process, and of one collection or the time        *)
(* between two.                                                            *)
Forget == lost' = {} /\ unwritten' = {}

(* Mutant: a second order starts the running collection over.              *)
CollectAnew ==
    IF ~hasJoinedOnce THEN UNCHANGED <<round, atStart, losses, snapshots>>
    ELSE /\ round' = [Idle EXCEPT !.file = 1]
         /\ atStart' = disk /\ snapshots' = FALSE /\ Forget

(* collectAll: nothing while one runs, nothing before the first ack.       *)
CollectAll ==
    IF Collecting \/ ~hasJoinedOnce THEN UNCHANGED <<round, atStart, losses, snapshots>>
    ELSE /\ round' = [Idle EXCEPT !.file = 1]
         /\ atStart' = disk /\ snapshots' = FALSE /\ Forget

HandleFinalize == Receive("finalize") /\ examEnded' = TRUE /\ CollectAll

HandleRecollect == Receive("recollect") /\ CollectAll

(* removeWorkspaceAfterCollection, when every file was handed in.          *)
EndRound(clean) ==
    /\ round' = Idle /\ atStart' = NoFiles /\ Forget
    /\ IF clean THEN disk' = NoFiles /\ folder' = "none"
       ELSE UNCHANGED <<disk, folder>>

(* Mutant: off by one at the end of the list.                              *)
ProceedPast(ok) ==
    LET clean == round.clean /\ ok IN
    IF round.file > Files THEN EndRound(clean)
    ELSE /\ round' = [Idle EXCEPT !.file = round.file + 1, !.clean = clean]
         /\ UNCHANGED <<disk, folder, atStart, losses>>

(* Mutant: only the last file decides about the workspace.                 *)
ProceedForgetting(ok) ==
    IF round.file = Files THEN EndRound(ok)
    ELSE /\ round' = [Idle EXCEPT !.file = round.file + 1]
         /\ UNCHANGED <<disk, folder, atStart, losses>>

(* One file done, in one way or another: the next, or the end of the round.*)
Proceed(ok) ==
    LET clean == round.clean /\ ok IN
    IF round.file = Files THEN EndRound(clean)
    ELSE /\ round' = [Idle EXCEPT !.file = round.file + 1, !.clean = clean]
         /\ UNCHANGED <<disk, folder, atStart, losses>>

(* Mutant: an absent file is handed in empty.                              *)
ReadFileOrEmpty ==
    /\ Collecting /\ round.step = "read"
    /\ round' = [round EXCEPT !.step = "put", !.held = Created(disk)[round.file]]
    /\ UNCHANGED <<disk, folder, atStart, losses>>

(* uploadOne reads the file; one that is absent is reported and skipped.   *)
ReadFile ==
    /\ Collecting /\ round.step = "read"
    /\ IF disk[round.file] = Absent THEN Proceed(FALSE)
       ELSE /\ round' = [round EXCEPT !.step = "put", !.held = disk[round.file]]
            /\ UNCHANGED <<disk, folder, atStart, losses>>

(* resolveTarget and isAcceptingUploads; the socket must have an identity. *)
Accepted == Identified /\ session # "expired"

(* The URL and the PUT.                                                    *)
PutFile ==
    /\ Collecting /\ round.step = "put" /\ Accepted
    /\ object' = [object EXCEPT ![round.file] = round.held]
    /\ round' = [round EXCEPT !.step = "confirm"]

(* submission:confirm: the object is there, the row becomes `collected`.   *)
ConfirmFile ==
    /\ Collecting /\ round.step = "confirm" /\ Accepted
    /\ row' = [row EXCEPT ![round.file] = round.held]
    /\ Proceed(TRUE)

(* Mutant: a refused file is tried again.                                  *)
UploadRetries ==
    /\ Collecting /\ round.step # "read" /\ ~Accepted
    /\ round' = [round EXCEPT !.step = "read"]
    /\ UNCHANGED <<storage, faults, disk, folder, atStart, losses>>

(* A refusal, a timeout, or an answer lost after the work was done: the    *)
(* file has failed and the others go on.                                   *)
UploadFails ==
    /\ Collecting /\ round.step # "read"
    /\ \/ ~Accepted /\ UNCHANGED <<storage, faults>>
       \/ Fault /\ UNCHANGED storage
       \/ /\ Fault /\ Accepted /\ round.step = "put"
          /\ object' = [object EXCEPT ![round.file] = round.held] /\ UNCHANGED row
       \/ /\ Fault /\ Accepted /\ round.step = "confirm"
          /\ row' = [row EXCEPT ![round.file] = round.held] /\ UNCHANGED object
    /\ Proceed(FALSE)

-----------------------------------------------------------------------------
(* The student, and the machine.                                           *)

Save(f) ==
    /\ folder # "none" /\ edits < MaxEdits
    /\ edits' = edits + 1 /\ disk' = [disk EXCEPT ![f] = edits + 1]
    /\ UNCHANGED lost

Delete(f) ==
    /\ disk[f] # Absent /\ edits < MaxEdits
    /\ edits' = edits + 1 /\ disk' = [disk EXCEPT ![f] = Absent]
    /\ lost' = lost \cup {f}

(* The process ends and is started again; `wiped`: on another machine.     *)
Restart(wiped) ==
    /\ dialling /\ Fault
    /\ conn' = "down" /\ asked' = FALSE /\ inbox' = <<>>
    /\ dialling' = FALSE /\ phase' = "form"
    /\ hasJoinedOnce' = FALSE /\ examEnded' = FALSE
    /\ backupStatus' = "idle" /\ fetched' = None /\ settling' = FALSE
    /\ entry' = 0 /\ Forget
    /\ snapshots' = FALSE /\ flight' = None
    /\ round' = Idle /\ atStart' = NoFiles
    /\ disk' = IF wiped THEN NoFiles ELSE disk
    /\ folder' = IF wiped THEN "none" ELSE folder

-----------------------------------------------------------------------------
others == <<student, restoring, losses, storage, collecting, snapshotting, backup>>

ApiStep ==
    \/ Finalize /\ UNCHANGED <<attended, conn, asked, joining, others, faults>>
    \/ Expire /\ UNCHANGED <<attended, network, joining, others, faults>>
    \/ Recollect /\ UNCHANGED <<server, conn, asked, joining, others, faults>>
    \/ ReadJoin /\ UNCHANGED <<server, joining, others, faults>>
    \/ EnterRoom /\ UNCHANGED <<server, asked, inbox, joining, others, faults>>
    \/ Acknowledge /\ UNCHANGED <<session, asked, joining, others>>

SocketStep ==
    \/ /\ PressJoin
       /\ UNCHANGED <<server, conn, inbox, hasJoinedOnce, examEnded, others, faults>>
    \/ /\ Connect
       /\ UNCHANGED <<server, inbox, dialling, hasJoinedOnce, examEnded, others, faults>>
    \/ Disconnect /\ UNCHANGED <<server, joining, others>>

AnswerStep ==
    \/ /\ HandleJoinError
       /\ UNCHANGED <<server, conn, asked, dialling, hasJoinedOnce, examEnded,
                      others, faults>>
    \/ /\ HandleJoinAck
       /\ UNCHANGED <<server, conn, asked, edits, dialling, examEnded, fetched,
                      entry, losses, storage, collecting, snapshotting, backup, faults>>

RestoreStep ==
    /\ \/ /\ FetchBackup
          /\ UNCHANGED <<student, backupStatus, entry, settling, losses, faults>>
       \/ NextEntry /\ UNCHANGED <<disk, edits, backupStatus, settling, losses, faults>>
       \/ WriteEntry /\ UNCHANGED <<folder, edits, backupStatus, settling, unwritten, faults>>
       \/ EntryFails /\ UNCHANGED <<folder, edits, backupStatus, settling>>
       \/ FinishRestore /\ UNCHANGED <<edits, entry, losses, faults>>
       \/ RestoreFails /\ UNCHANGED <<edits, fetched, entry, losses>>
    /\ UNCHANGED <<server, network, joining, storage, collecting, snapshotting, backup>>

JoinStep ==
    \/ RestoreStep
    \/ /\ Settle
       /\ UNCHANGED <<server, network, joining, disk, edits, backupStatus, fetched, entry,
                      losses, storage, collecting, flight, backup, faults>>

SnapshotStep ==
    /\ \/ TakeSnapshot /\ UNCHANGED <<backup, faults>>
       \/ SendSnapshot /\ UNCHANGED faults
       \/ SnapshotFails /\ UNCHANGED backup
    /\ UNCHANGED <<server, network, student, joining, restoring, losses, storage,
                   collecting, snapshots>>

CallStep ==
    /\ HandleFinalize \/ (HandleRecollect /\ UNCHANGED examEnded)
    /\ UNCHANGED <<server, conn, asked, student, dialling, phase, hasJoinedOnce,
                   restoring, storage, flight, backup, faults>>

UploadStep ==
    /\ \/ ReadFile /\ UNCHANGED <<storage, faults>>
       \/ PutFile /\ UNCHANGED <<row, disk, folder, atStart, losses, faults>>
       \/ ConfirmFile /\ UNCHANGED <<object, faults>>
       \/ UploadFails
    /\ UNCHANGED <<server, network, edits, joining, restoring, snapshotting, backup>>

StudentStep ==
    /\ \E f \in File : Save(f) \/ Delete(f)
    /\ UNCHANGED <<server, network, folder, unwritten, joining, restoring, storage,
                   collecting, snapshotting, backup, faults>>

MachineStep ==
    /\ \E wiped \in BOOLEAN : Restart(wiped)
    /\ UNCHANGED <<server, edits, storage, backup>>

Next ==
    \/ ApiStep \/ SocketStep \/ AnswerStep \/ JoinStep
    \/ SnapshotStep \/ CallStep \/ UploadStep \/ StudentStep \/ MachineStep

Spec == Init /\ [][Next]_vars

(* The event loops of both processes run; socket.io keeps reconnecting and *)
(* the network comes back; every request has a timeout.  Nothing is        *)
(* assumed of the student, the teacher, the clock, the snapshot timer or   *)
(* the faults.                                                             *)
Fairness ==
    /\ WF_vars(SocketStep /\ Connect)
    /\ WF_vars(ApiStep /\ (ReadJoin \/ EnterRoom \/ Acknowledge))
    /\ WF_vars(AnswerStep \/ CallStep) /\ WF_vars(JoinStep) /\ WF_vars(UploadStep)

FairSpec == Spec /\ Fairness

-----------------------------------------------------------------------------
(* What the agent and the API promise.                                     *)

(* collectAll: the workspace is deleted only once every required file is   *)
(* collected, and what was collected is no older than what the workspace   *)
(* held when the collection began, but for a file that was lost meanwhile: *)
(* the student deleted it, or restoreBackup wrote over it, having found it *)
(* empty before the student saved it.  (dialling' sets aside a machine     *)
(* replaced in the middle.)                                                *)
RemovedIsCollected ==
    [][folder # "none" /\ folder' = "none" /\ Collecting /\ dialling' =>
          \A f \in File : row'[f] # Absent /\ row'[f] = object'[f]
                          /\ (row'[f] >= atStart[f] \/ f \in lost)]_vars

(* doHandleJoinAck, "restore MUST finish before the required files are     *)
(* created": while the session runs, an agent that was given the snapshot  *)
(* back has no blank file where the snapshot holds work, so that no later  *)
(* snapshot replaces work by nothing - but for a file the student deleted, *)
(* one that restoreBackup wrote over a save it had not seen, and one that  *)
(* it failed to write: backup.ts:176-191 reports these as restored too.    *)
RestoredIsNotBlank ==
    session = "active" /\ backupStatus = "restored" =>
        \A f \in File \ (lost \cup unwritten) : backup[f] > Blank => disk[f] # Blank

(* uploadOne: an upload is replaced by an older one only by a process that *)
(* asked for a snapshot: what it writes back, or the blank files it        *)
(* creates when that fails, may come after a collection.                   *)
OlderOnlyByRestore ==
    [][\A f \in File : object'[f] < object[f] => backupStatus # "idle"]_vars

(* connect, emitJoin: an agent that dials, for the first time or after a   *)
(* lost connection, is let in and knows it, or is refused, unless its exam *)
(* ends or the process does: no student is left for good with the screen   *)
(* of `joining', which has no button.                                      *)
JoinIsAnswered ==
    []<>(\/ conn = "joined" /\ phase = "joined"
         \/ phase = "refused" \/ examEnded \/ ~dialling)

(* The safety half of JoinIsAnswered, in every state: until the agent      *)
(* knows it is in and the API has it in, somebody owes the next move - the *)
(* socket that reconnects and asks anew, the API that holds the question,  *)
(* or the agent that has an answer to read.                                *)
JoinIsOwed ==
    dialling /\ phase # "refused" /\ ~examEnded =>
        \/ conn = "joined" /\ phase = "joined"
        \/ conn = "down" \/ asked \/ conn \in {"admitting", "inRoom"}
        \/ \E m \in {"ack", "ackBackup", "error"} : Waiting(m)

(* The safety half of CollectionEnds, `if (this.finalizing) return': while *)
(* the process lives, no order of the teacher, failure or save restarts a  *)
(* running collection, turns it back or forgets a file that failed: each   *)
(* file is read once, what was read is what is uploaded, and after the     *)
(* last one the collection is over.                                        *)
Onward(r, next) ==
    /\ next.clean => r.clean
    /\ \/ next.file = r.file /\ r.step = "read" /\ next.step = "put"
       \/ next.file = r.file /\ r.step = "put" /\ next.step = "confirm" /\ next.held = r.held
       \/ next.file = r.file + 1 /\ next.step = "read"

RoundAdvances ==
    [][Collecting /\ dialling' =>
          \/ UNCHANGED <<round, atStart>>
          \/ Onward(round, round') /\ UNCHANGED atStart
          \/ round.file = Files /\ ~Collecting']_vars

(* A collection that began ends: `finalizing` does not stay true.          *)
CollectionEnds == []<>~Collecting
=============================================================================
