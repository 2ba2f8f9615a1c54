---------------------------- MODULE ExamSession ----------------------------
(***************************************************************************)
(* One exam session on the API server: its status column, its roster       *)
(* snapshot (session_roster), the seats seeded from it (submission), the   *)
(* three scheduler sweeps and every teacher or student request that reads  *)
(* or writes them.                                                         *)
(*                                                                         *)
(* PostgreSQL runs every transaction at READ COMMITTED and the code takes  *)
(* no row locks here, so a handler is split where the source reads and     *)
(* later writes on the strength of what it read: in the controllers        *)
(* between findEntityForOwner and the service, inside a transaction        *)
(* between its SELECTs and its writes.  A single conditional UPDATE is one *)
(* step.  Uncommitted writes are seen by nobody, so a transaction's writes *)
(* take effect in its last step.                                           *)
(***************************************************************************)
EXTENDS Naturals, FiniteSets

CONSTANTS
    Student,      \* students that may sit, be added to or ask for the session
    Deliverable,  \* ids available to required_deliverable rows
    Worker,       \* slots for requests that are in flight at the same time
    OpenLead,     \* start_time - 10 min: the auto-open sweep starts trying
    EarlyJoin,    \* start_time - 5 min: agents may join
    Start,        \* start_time
    End,          \* end_time
    GraceEnd,     \* end_time + 30 min: last instant an upload is accepted
    Horizon,      \* bound on the clock
    MaxCrashes    \* bound on restarts of the API process

ASSUME TimesAssumption ==
    /\ {OpenLead, EarlyJoin, Start, End, GraceEnd, Horizon, MaxCrashes} \subseteq Nat
    /\ OpenLead <= EarlyJoin /\ EarlyJoin <= Start /\ Start < End
    /\ End < GraceEnd /\ GraceEnd <= Horizon

VARIABLES
    status,       \* exam_session.status
    signed,       \* exam_session.completed_by IS NOT NULL
    roster,       \* session_roster: each student's `source`, or "none"
    seat,         \* submission: the status of each (student, deliverable) row
    deliverables, \* required_deliverable rows of this session
    enrolled,     \* students enrolled in the session's class
    clock,
    seated,       \* students whose socket carries an identity (client.data)
    asked,        \* AccessRequestStore: students waiting for a decision
    handler,      \* the requests in flight
    autoOpen,     \* the auto-open tick (runningAutoOpen)
    toPublish,    \* finalize UPDATEs committed, exam:finalize not yet published
    broadcasts,   \* history: exam:finalize events published
    opens,        \* history: times the status became active
    crashes

db == <<status, signed, roster, seat, deliverables, enrolled>>
memory == <<seated, asked, handler, autoOpen, toPublish>>
vars == <<db, clock, memory, broadcasts, opens, crashes>>

SessionStatus == {"draft", "scheduled", "not_ready", "active", "collecting",
                  "completed", "cancelled", "missed"}
RosterSource == {"none", "frozen", "manual", "attached"}
SeatStatus == {"none", "not_submitted", "absent", "collected"}

-----------------------------------------------------------------------------
(* exam-session.types.ts: the predicates every guard is written with.      *)

IsAwaitingOpen(st) == st \in {"scheduled", "not_ready"}
IsExamOver(st) == st \in {"collecting", "completed"}
CanCancel(st) == st \in {"draft", "scheduled", "not_ready", "missed"}
IsCollectionOpen(st) == st \in {"active", "collecting", "completed"}

IsAgentJoinOpen == status = "active" /\ EarlyJoin <= clock /\ clock <= End
IsAcceptingUploads == IsCollectionOpen(status) /\ Start <= clock /\ clock <= GraceEnd

OnRoster == {s \in Student : roster[s] # "none"}
HasLiveWork(s) == \E d \in Deliverable : seat[s][d] = "collected"

-----------------------------------------------------------------------------
(* What a request remembers between two of its steps.                      *)

Idle == [op |-> "idle"]

Request ==
         [op : {"idle", "cancel", "copy", "materialize"}]
    \cup [op : {"seed"}, rows : SUBSET Student]
    \cup [op : {"replace"}, files : SUBSET Deliverable]
    \cup [op : {"import"}, students : SUBSET Student, removeMissing : BOOLEAN]
    \cup [op : {"add", "remove"}, student : Student, awaiting : BOOLEAN]
    \cup [op : {"delete"}, student : Student, row : {"there", "copied", "gone"}]
    \cup [op : {"confirm"}, student : Student, file : Deliverable]
    \cup [op : {"write"}, student : Student, file : Deliverable, old : SeatStatus]

Tick == [pc : {"idle"}]
    \cup [pc : {"begun", "copy", "unready"}, now : Nat]
    \cup [pc : {"seed"}, now : Nat, rows : SUBSET Student]

Enter(w, request) == handler[w] = Idle /\ handler' = [handler EXCEPT ![w] = request]
Advance(w, request) == handler' = [handler EXCEPT ![w] = request]
Finish(w) == handler' = [handler EXCEPT ![w] = Idle]

-----------------------------------------------------------------------------
(* ExamSessionService.create writes `scheduled`, with no roster and any    *)
(* number of required files.                                               *)
Init ==
    /\ status = "scheduled"
    /\ signed = FALSE
    /\ roster = [s \in Student |-> "none"]
    /\ seat = [s \in Student |-> [d \in Deliverable |-> "none"]]
    /\ deliverables \in SUBSET Deliverable
    /\ enrolled \in SUBSET Student
    /\ clock = 0
    /\ seated = {} /\ asked = {}
    /\ handler = [w \in Worker |-> Idle]
    /\ autoOpen = [pc |-> "idle"]
    /\ toPublish = 0 /\ broadcasts = 0 /\ opens = 0 /\ crashes = 0

-----------------------------------------------------------------------------
(* Helpers of SessionRosterService.                                        *)

(* Mutant: seeding as an upsert.                                           *)
SeededByUpsert(students) ==
    [s \in Student |-> [d \in Deliverable |->
        IF s \in students /\ d \in deliverables THEN "not_submitted" ELSE seat[s][d]]]

(* seedSeats: INSERT ... ON CONFLICT DO NOTHING, one row per deliverable.  *)
Seeded(students) ==
    [s \in Student |-> [d \in Deliverable |->
        IF s \in students /\ d \in deliverables /\ seat[s][d] = "none"
        THEN "not_submitted" ELSE seat[s][d]]]

(* insertChunked of the class enrollment into an empty snapshot.           *)
CopiedRoster == [s \in Student |-> IF s \in enrolled THEN "frozen" ELSE roster[s]]

(* The roster a transaction works on after materializeIfEmpty.             *)
Materialized == IF OnRoster = {} THEN CopiedRoster ELSE roster

(* deleteRosterRow: the student's submission rows, then the roster row.    *)
WithoutSeats(students) ==
    [s \in Student |-> IF s \in students THEN [d \in Deliverable |-> "none"] ELSE seat[s]]

(* The roster rows of `students` are deleted: another removal that has     *)
(* read one of them will not find it again, whoever is inserted meanwhile. *)
FinishDeleting(w, students) ==
    handler' = [v \in Worker |->
        IF v = w THEN Idle
        ELSE IF /\ handler[v].op = "delete" /\ handler[v].row = "there"
                /\ handler[v].student \in students
        THEN [handler[v] EXCEPT !.row = "gone"] ELSE handler[v]]

-----------------------------------------------------------------------------
(* freeze: "Mở phiên".  Its SELECTs decide one of three ways.              *)

FreezeBadRequest ==
    \/ deliverables = {}
    \/ OnRoster = {} /\ IsAwaitingOpen(status) /\ enrolled = {}

(* Mutant: a customised roster is opened again from any status.            *)
FreezeKeepsAnyRoster == deliverables # {} /\ OnRoster # {} /\ status # "active"

FreezeKeepsRoster == deliverables # {} /\ OnRoster # {} /\ IsAwaitingOpen(status)
FreezeCopiesClass == deliverables # {} /\ OnRoster = {} /\ IsAwaitingOpen(status)
                                       /\ enrolled # {}

(* Its writes: the snapshot and the seats, then UPDATE ... SET status =    *)
(* 'active' WHERE id = :id.                                                *)
Activate ==
    /\ status' = "active"
    /\ opens' = IF status = "active" THEN opens ELSE opens + 1

SeedAndActivate(rows) ==
    /\ seat' = Seeded(rows)
    /\ Activate
    /\ UNCHANGED <<signed, roster, deliverables, enrolled>>

(* A row inserted meanwhile makes uq_session_roster_session_student abort  *)
(* the copy.                                                               *)
CopyAndActivate ==
    /\ enrolled \cap OnRoster = {}
    /\ roster' = CopiedRoster
    /\ seat' = Seeded(enrolled)
    /\ Activate
    /\ UNCHANGED <<signed, deliverables, enrolled>>

(* POST :id/open.  The controller's own read adds only the `missed` check, *)
(* which the transaction's read repeats.                                   *)
OpenRead(w) ==
    /\ \/ FreezeKeepsRoster /\ Enter(w, [op |-> "seed", rows |-> OnRoster])
       \/ FreezeCopiesClass /\ Enter(w, [op |-> "copy"])
    /\ UNCHANGED <<db, clock, seated, asked, autoOpen, toPublish, broadcasts, opens, crashes>>

OpenCommit(w) ==
    /\ \/ handler[w].op = "seed" /\ SeedAndActivate(handler[w].rows)
       \/ handler[w].op = "copy" /\ CopyAndActivate
    /\ Finish(w)
    /\ UNCHANGED <<clock, seated, asked, autoOpen, toPublish, broadcasts, crashes>>

-----------------------------------------------------------------------------
(* cancel: the controller's read decides, the service writes by id.        *)

CancelRead(w) ==
    /\ CanCancel(status)
    /\ Enter(w, [op |-> "cancel"])
    /\ UNCHANGED <<db, clock, seated, asked, autoOpen, toPublish, broadcasts, opens, crashes>>

CancelWrite(w) ==
    /\ handler[w].op = "cancel"
    /\ status' = "cancelled"
    /\ Finish(w)
    /\ UNCHANGED <<signed, roster, seat, deliverables, enrolled, clock, seated, asked,
                   autoOpen, toPublish, broadcasts, opens, crashes>>

-----------------------------------------------------------------------------
(* Leaving `active` and `collecting`: conditional UPDATEs.                 *)

(* Mutant: UPDATE ... WHERE id = :id, without the condition on the status. *)
FinalizeById ==
    /\ status' = "collecting"
    /\ toPublish' = toPublish + 1
    /\ UNCHANGED <<signed, roster, seat, deliverables, enrolled, clock, seated, asked,
                   handler, autoOpen, broadcasts, opens, crashes>>

FinalizeUpdate ==
    /\ status = "active"
    /\ status' = "collecting"
    /\ toPublish' = toPublish + 1
    /\ UNCHANGED <<signed, roster, seat, deliverables, enrolled, clock, seated, asked,
                   handler, autoOpen, broadcasts, opens, crashes>>

FinalizeManually == FinalizeUpdate

FinalizeSweep == End <= clock /\ FinalizeUpdate

(* Mutant: publishes without asking whether its UPDATE matched.            *)
PublishUnasked ==
    /\ toPublish' = toPublish - 1
    /\ broadcasts' = broadcasts + 1
    /\ UNCHANGED <<db, clock, seated, asked, handler, autoOpen, opens, crashes>>

(* publishFinalized, after the UPDATE's promise has resolved.              *)
PublishFinalized ==
    /\ toPublish > 0
    /\ toPublish' = toPublish - 1
    /\ broadcasts' = broadcasts + 1
    /\ UNCHANGED <<db, clock, seated, asked, handler, autoOpen, opens, crashes>>

(* markAbsentees: UPDATE ... SET status = 'absent' WHERE status =          *)
(* 'not_submitted'.                                                        *)
AbsenteesMarked ==
    [s \in Student |-> [d \in Deliverable |->
        IF seat[s][d] = "not_submitted" THEN "absent" ELSE seat[s][d]]]

(* Mutant: a session the sweep has already closed is signed unjudged.      *)
ConfirmEndUnjudged ==
    /\ \/ status = "collecting"
       \/ status = "completed" /\ ~signed /\ clock <= GraceEnd
    /\ status' = "completed"
    /\ signed' = TRUE
    /\ seat' = IF status = "collecting" THEN AbsenteesMarked ELSE seat
    /\ UNCHANGED <<roster, deliverables, enrolled, clock, memory, broadcasts, opens, crashes>>

(* confirmEnd: one transaction, absentees only when the UPDATE matched.    *)
ConfirmEnd ==
    /\ \/ status = "collecting"
       \/ status = "completed" /\ ~signed /\ clock <= GraceEnd
    /\ status' = "completed"
    /\ signed' = TRUE
    /\ seat' = AbsenteesMarked
    /\ UNCHANGED <<roster, deliverables, enrolled, clock, memory, broadcasts, opens, crashes>>

(* Mutant: the sweep concludes absences like confirmEnd does.              *)
CollectionSweepJudges ==
    /\ status = "collecting"
    /\ GraceEnd <= clock
    /\ status' = "completed"
    /\ seat' = AbsenteesMarked
    /\ UNCHANGED <<signed, roster, deliverables, enrolled, clock, memory,
                   broadcasts, opens, crashes>>

(* Mutant: the sweep looks only at sessions whose window closes right now. *)
CollectionSweepOnTheDot ==
    /\ status = "collecting"
    /\ GraceEnd = clock
    /\ status' = "completed"
    /\ UNCHANGED <<signed, roster, seat, deliverables, enrolled, clock, memory,
                   broadcasts, opens, crashes>>

(* completeExpired, for the ids findCollectionExpiredIds returned.         *)
CollectionSweep ==
    /\ status = "collecting"
    /\ GraceEnd <= clock
    /\ status' = "completed"
    /\ UNCHANGED <<signed, roster, seat, deliverables, enrolled, clock, memory,
                   broadcasts, opens, crashes>>

-----------------------------------------------------------------------------
(* The auto-open sweep.  `now` is fixed when the tick begins; each tick    *)
(* re-reads the row before it acts.                                        *)

AutoOpenBegin ==
    /\ autoOpen.pc = "idle"
    /\ IsAwaitingOpen(status)
    /\ OpenLead <= clock
    /\ autoOpen' = [pc |-> "begun", now |-> clock]
    /\ UNCHANGED <<db, clock, seated, asked, handler, toPublish, broadcasts, opens, crashes>>

AutoOpenEnds ==
    /\ autoOpen' = [pc |-> "idle"]
    /\ UNCHANGED <<clock, seated, asked, handler, toPublish, broadcasts, crashes>>

(* Mutant: the verdict is written by id.                                   *)
TransitionById(st) ==
    /\ status' = st
    /\ UNCHANGED <<signed, roster, seat, deliverables, enrolled, opens>>

(* transitionUnopened: UPDATE ... WHERE status IN (scheduled, not_ready).  *)
TransitionUnopened(st) ==
    /\ status' = IF IsAwaitingOpen(status) THEN st ELSE status
    /\ UNCHANGED <<signed, roster, seat, deliverables, enrolled, opens>>

(* Mutant: a session whose end has passed is skipped, not closed.          *)
AutoOpenSkips ==
    /\ autoOpen.pc = "begun"
    /\ End <= autoOpen.now
    /\ AutoOpenEnds
    /\ UNCHANGED <<db, opens>>

AutoOpenTooLate ==
    /\ autoOpen.pc = "begun"
    /\ End <= autoOpen.now
    /\ TransitionUnopened("missed")
    /\ AutoOpenEnds

AutoOpenRead ==
    /\ autoOpen.pc = "begun"
    /\ autoOpen.now < End
    /\ \/ /\ FreezeKeepsRoster
          /\ autoOpen' = [pc |-> "seed", now |-> autoOpen.now, rows |-> OnRoster]
       \/ FreezeCopiesClass /\ autoOpen' = [pc |-> "copy", now |-> autoOpen.now]
       \/ /\ IsAwaitingOpen(status) /\ FreezeBadRequest
          /\ autoOpen' = [pc |-> "unready", now |-> autoOpen.now]
       \/ ~IsAwaitingOpen(status) /\ autoOpen' = [pc |-> "idle"]
    /\ UNCHANGED <<db, clock, seated, asked, handler, toPublish, broadcasts, opens, crashes>>

AutoOpenCommit ==
    /\ \/ autoOpen.pc = "seed" /\ SeedAndActivate(autoOpen.rows)
       \/ autoOpen.pc = "copy" /\ CopyAndActivate
    /\ AutoOpenEnds

(* Any other error (here the unique violation) is logged and the tick ends.*)
AutoOpenFails ==
    /\ autoOpen.pc = "copy"
    /\ enrolled \cap OnRoster # {}
    /\ AutoOpenEnds
    /\ UNCHANGED <<db, opens>>

AutoOpenGivesUp ==
    /\ autoOpen.pc = "unready"
    /\ TransitionUnopened(IF Start <= autoOpen.now THEN "missed" ELSE "not_ready")
    /\ AutoOpenEnds

AutoOpen ==
    \/ AutoOpenBegin \/ AutoOpenTooLate \/ AutoOpenRead
    \/ AutoOpenCommit \/ AutoOpenFails \/ AutoOpenGivesUp

-----------------------------------------------------------------------------
(* Edits of the snapshot.  Each guard below is the service's check of the  *)
(* entity its controller read; the transaction comes later.                *)

EditUnchanged == UNCHANGED <<clock, seated, asked, autoOpen, toPublish, broadcasts,
                             opens, crashes>>

ReplaceRead(w, files) ==
    /\ IsAwaitingOpen(status)
    /\ Enter(w, [op |-> "replace", files |-> files])
    /\ EditUnchanged /\ UNCHANGED db

(* The foreign key of `submission` is RESTRICT: a deliverable with a seat  *)
(* cannot be deleted.                                                      *)
ReplaceCommit(w) ==
    /\ handler[w].op = "replace"
    /\ \A s \in Student, d \in deliverables : seat[s][d] = "none"
    /\ deliverables' = handler[w].files
    /\ Finish(w)
    /\ EditUnchanged /\ UNCHANGED <<status, signed, roster, seat, enrolled>>

MaterializeRead(w) ==
    /\ IsAwaitingOpen(status)
    /\ Enter(w, [op |-> "materialize"])
    /\ EditUnchanged /\ UNCHANGED db

MaterializeCommit(w) ==
    /\ handler[w].op = "materialize"
    /\ OnRoster = {} => enrolled # {}
    /\ roster' = Materialized
    /\ Finish(w)
    /\ EditUnchanged /\ UNCHANGED <<status, signed, seat, deliverables, enrolled>>

ImportRead(w, students, removeMissing) ==
    /\ IsAwaitingOpen(status)
    /\ Enter(w, [op |-> "import", students |-> students, removeMissing |-> removeMissing])
    /\ EditUnchanged /\ UNCHANGED db

(* importStudents seeds no seats: freeze is to do it.  Its check of each   *)
(* missing student and the deletion are one step here; the window between  *)
(* the two is RemoveCheck / RemoveDelete below.                            *)
ImportCommit(w) ==
    /\ handler[w].op = "import"
    /\ LET listed == handler[w].students
           missing == IF handler[w].removeMissing
                      THEN {s \in Student \ listed : Materialized[s] # "none"} ELSE {}
       IN /\ \A s \in missing : ~HasLiveWork(s)
          /\ roster' = [s \in Student |->
                          IF s \in listed THEN "attached"
                          ELSE IF s \in missing THEN "none" ELSE Materialized[s]]
          /\ seat' = WithoutSeats(missing)
          /\ FinishDeleting(w, missing)
    /\ EditUnchanged /\ UNCHANGED <<status, signed, deliverables, enrolled>>

AddRead(w, s) ==
    /\ status # "missed" /\ ~IsExamOver(status)
    /\ Enter(w, [op |-> "add", student |-> s, awaiting |-> IsAwaitingOpen(status)])
    /\ EditUnchanged /\ UNCHANGED db

(* Mutant: a student added by hand gets no seats.                          *)
AddWithoutSeats(w) ==
    /\ handler[w].op = "add"
    /\ LET s == handler[w].student
           base == IF handler[w].awaiting THEN Materialized ELSE roster
       IN /\ handler[w].awaiting /\ OnRoster = {} => enrolled # {}
          /\ base[s] = "none"
          /\ roster' = [base EXCEPT ![s] = "manual"]
    /\ Finish(w)
    /\ EditUnchanged /\ UNCHANGED <<status, signed, seat, deliverables, enrolled>>

AddCommit(w) ==
    /\ handler[w].op = "add"
    /\ LET s == handler[w].student
           base == IF handler[w].awaiting THEN Materialized ELSE roster
       IN /\ handler[w].awaiting /\ OnRoster = {} => enrolled # {}
          /\ base[s] = "none"
          /\ roster' = [base EXCEPT ![s] = "manual"]
          /\ seat' = Seeded({s})
    /\ Finish(w)
    /\ EditUnchanged /\ UNCHANGED <<status, signed, deliverables, enrolled>>

RemoveRead(w, s) ==
    /\ status # "missed" /\ ~IsExamOver(status)
    /\ Enter(w, [op |-> "remove", student |-> s, awaiting |-> IsAwaitingOpen(status)])
    /\ EditUnchanged /\ UNCHANGED db

(* Inside the transaction: find the row, count the live submissions ...    *)
RemoveCheck(w) ==
    /\ handler[w].op = "remove"
    /\ LET s == handler[w].student
           copied == handler[w].awaiting /\ OnRoster = {}
           base == IF handler[w].awaiting THEN Materialized ELSE roster
       IN /\ base[s] # "none"
          /\ handler[w].awaiting \/ base[s] = "manual"
          /\ ~HasLiveWork(s)
          /\ Advance(w, [op |-> "delete", student |-> s,
                         row |-> IF copied THEN "copied" ELSE "there"])
    /\ EditUnchanged /\ UNCHANGED db

(* ... then DELETE the submissions of the student, whatever they hold by   *)
(* now, and the roster row by the id that was read: no row, no error.      *)
RemoveDelete(w) ==
    /\ handler[w].op = "delete"
    /\ LET s == handler[w].student
           row == handler[w].row
           base == IF row = "copied" THEN CopiedRoster ELSE roster
           deleted == IF row = "gone" THEN {} ELSE {s}
       IN /\ row = "copied" => enrolled \cap OnRoster = {}
          /\ roster' = [t \in Student |-> IF t \in deleted THEN "none" ELSE base[t]]
          /\ seat' = WithoutSeats({s})
          /\ FinishDeleting(w, deleted)
    /\ EditUnchanged /\ UNCHANGED <<status, signed, deliverables, enrolled>>

-----------------------------------------------------------------------------
(* The agents' side: joining, asking to be let in, handing work in.        *)

DbUnchanged == UNCHANGED <<db, clock, autoOpen, toPublish, broadcasts, opens, crashes>>

Join(s) ==
    /\ IsAgentJoinOpen
    /\ s \in OnRoster
    /\ seated' = seated \cup {s}
    /\ DbUnchanged /\ UNCHANGED <<asked, handler>>

Leave(s) ==
    /\ s \in seated \cup asked
    /\ seated' = seated \ {s}
    /\ asked' = asked \ {s}
    /\ DbUnchanged /\ UNCHANGED handler

(* The handler asks only about the roster.  The agent shows its form after *)
(* a join was refused as NOT_ENROLLED, so the session was opened before;   *)
(* by the time the student has typed a reason it may be over.              *)
RequestAccess(s) ==
    /\ opens > 0
    /\ s \notin OnRoster
    /\ asked' = asked \cup {s}
    /\ DbUnchanged /\ UNCHANGED <<seated, handler>>

(* handleResolve, approved: ensureManual, then the request is dropped.  It *)
(* asks nothing about the session's status.                                *)
Grant(s) ==
    /\ s \in asked
    /\ roster' = IF roster[s] = "none" THEN [roster EXCEPT ![s] = "manual"] ELSE roster
    /\ seat' = Seeded({s})
    /\ asked' = asked \ {s}
    /\ UNCHANGED <<status, signed, deliverables, enrolled, clock, seated, handler,
                   autoOpen, toPublish, broadcasts, opens, crashes>>

Deny(s) ==
    /\ s \in asked
    /\ asked' = asked \ {s}
    /\ DbUnchanged /\ UNCHANGED <<seated, handler>>

(* submission:confirm: resolveTarget and objectExists, then a transaction  *)
(* that reads the row and walks it to `collected`.                         *)
ConfirmCheck(w, s, d) ==
    /\ s \in seated
    /\ IsAcceptingUploads
    /\ d \in deliverables
    /\ Enter(w, [op |-> "confirm", student |-> s, file |-> d])
    /\ DbUnchanged /\ UNCHANGED <<seated, asked>>

ConfirmRead(w) ==
    /\ handler[w].op = "confirm"
    /\ LET r == handler[w]
       IN Advance(w, [op |-> "write", student |-> r.student, file |-> r.file,
                      old |-> seat[r.student][r.file]])
    /\ DbUnchanged /\ UNCHANGED <<seated, asked>>

(* What the trigger and the unique index let writeCollected do to a row    *)
(* that was `old` when it was read and is `now` when it is written.  Row   *)
(* ids are abstracted: a row deleted and seeded again is the same seat.    *)
MayCollect(old, now) ==
    \/ old = "none" /\ now = "none"
    \/ old = "collected" /\ now = "collected"
    \/ old \in {"not_submitted", "absent"} /\ now \in {"not_submitted", "absent"}

ConfirmWrite(w) ==
    /\ handler[w].op = "write"
    /\ LET r == handler[w]
       IN /\ MayCollect(r.old, seat[r.student][r.file])
          /\ r.file \in deliverables
          /\ seat' = [seat EXCEPT ![r.student][r.file] = "collected"]
    /\ Finish(w)
    /\ UNCHANGED <<status, signed, roster, deliverables, enrolled, clock, seated, asked,
                   autoOpen, toPublish, broadcasts, opens, crashes>>

(* uq_submission_identity: the loser of two inserts reads again.           *)
ConfirmRetry(w) ==
    /\ handler[w].op = "write"
    /\ handler[w].old = "none" /\ seat[handler[w].student][handler[w].file] # "none"
    /\ Advance(w, [op |-> "confirm", student |-> handler[w].student,
                   file |-> handler[w].file])
    /\ DbUnchanged /\ UNCHANGED <<seated, asked>>

-----------------------------------------------------------------------------
(* Any request can end early: refused inside its transaction (409, unique  *)
(* violation, trigger), object missing, storage or database unreachable.   *)
Abort(w) ==
    /\ handler[w] # Idle
    /\ Finish(w)
    /\ DbUnchanged /\ UNCHANGED <<seated, asked>>

(* The API process restarts: what was in memory is gone, the database is   *)
(* what was committed.                                                     *)
Crash ==
    /\ crashes < MaxCrashes
    /\ crashes' = crashes + 1
    /\ seated' = {} /\ asked' = {} /\ toPublish' = 0
    /\ handler' = [w \in Worker |-> Idle]
    /\ autoOpen' = [pc |-> "idle"]
    /\ UNCHANGED <<db, clock, broadcasts, opens>>

Tock ==
    /\ clock < Horizon
    /\ clock' = clock + 1
    /\ UNCHANGED <<db, memory, broadcasts, opens, crashes>>

-----------------------------------------------------------------------------
SessionStep == FinalizeManually \/ FinalizeSweep \/ PublishFinalized
               \/ ConfirmEnd \/ CollectionSweep \/ Crash \/ Tock

HandlerStep(w) ==
    \/ OpenRead(w) \/ OpenCommit(w)
    \/ CancelRead(w) \/ CancelWrite(w)
    \/ \E files \in (SUBSET Deliverable) \ {{}} : ReplaceRead(w, files)
    \/ ReplaceCommit(w)
    \/ MaterializeRead(w) \/ MaterializeCommit(w)
    \/ \E students \in (SUBSET Student) \ {{}}, removeMissing \in BOOLEAN :
          ImportRead(w, students, removeMissing)
    \/ ImportCommit(w)
    \/ \E s \in Student : AddRead(w, s) \/ RemoveRead(w, s)
    \/ AddCommit(w) \/ RemoveCheck(w) \/ RemoveDelete(w)
    \/ \E s \in Student, d \in Deliverable : ConfirmCheck(w, s, d)
    \/ ConfirmRead(w) \/ ConfirmWrite(w) \/ ConfirmRetry(w)
    \/ Abort(w)

StudentStep(s) == Join(s) \/ Leave(s) \/ RequestAccess(s) \/ Grant(s) \/ Deny(s)

Next ==
    \/ SessionStep
    \/ AutoOpen
    \/ \E w \in Worker : HandlerStep(w)
    \/ \E s \in Student : StudentStep(s)

(* Real time passes and @Interval keeps firing; teachers, students and     *)
(* the network owe nothing.                                                *)
Fairness ==
    /\ WF_vars(Tock)
    /\ WF_vars(FinalizeSweep)
    /\ WF_vars(CollectionSweep)
    /\ WF_vars(AutoOpen)

Spec == Init /\ [][Next]_vars
FairSpec == Spec /\ Fairness

-----------------------------------------------------------------------------
(* Properties.                                                             *)

(* Type invariant of the database, the process memory and the history.     *)
TypeOK ==
    /\ status \in SessionStatus
    /\ signed \in BOOLEAN
    /\ roster \in [Student -> RosterSource]
    /\ seat \in [Student -> [Deliverable -> SeatStatus]]
    /\ deliverables \subseteq Deliverable
    /\ enrolled \subseteq Student
    /\ clock \in Nat
    /\ seated \subseteq Student
    /\ asked \subseteq Student
    /\ handler \in [Worker -> Request]
    /\ autoOpen \in Tick
    /\ toPublish \in Nat /\ broadcasts \in Nat /\ opens \in Nat /\ crashes \in Nat

(* Only a teacher's signature concludes that a student was absent: as long *)
(* as confirmEnd has not matched, no seat is `absent`, whatever the sweeps *)
(* did to the session (collection-phase.service.ts, completeExpired).      *)
AbsentOnlyWhenSigned ==
    ~signed => \A s \in Student, d \in Deliverable : seat[s][d] # "absent"

(* exam:finalize is owed and published at most once for each time the      *)
(* session became active, however the sweep, the teacher's button and a    *)
(* crash between UPDATE and publish interleave (finalizeExamSession).      *)
FinalizePerActivation ==
    broadcasts + toPublish + (IF status = "active" THEN 1 ELSE 0) <= opens

(* `scheduled`, `not_ready` and `missed` say that the session never        *)
(* opened: no slow verdict of the auto-open sweep puts a session back      *)
(* there once someone has opened it, so no work and no judgement can hang  *)
(* on such a session (transitionUnopened).                                 *)
NeverOpenedIsUntouched ==
    status \in {"draft", "scheduled", "not_ready", "missed"} =>
        /\ opens = 0 /\ ~signed
        /\ \A s \in Student, d \in Deliverable : seat[s][d] \in {"none", "not_submitted"}

(* An opening in flight that will not seed `s`: it read the roster before  *)
(* the student's row was there.                                            *)
Unseen(s) ==
    \/ \E w \in Worker :
          \/ handler[w].op = "seed" /\ s \notin handler[w].rows
          \/ handler[w].op = "copy" /\ s \notin enrolled
    \/ autoOpen.pc = "seed" /\ s \notin autoOpen.rows
    \/ autoOpen.pc = "copy" /\ s \notin enrolled

(* On the roster of a session that is open, or is being opened without     *)
(* him, and without a row for some required file: outside the grade book.  *)
Seatless(s) ==
    /\ roster[s] # "none"
    /\ \E d \in deliverables : seat[s][d] = "none"
    /\ IsCollectionOpen(status) \/ Unseen(s)

(* A removal that had read an earlier roster row of the student deletes    *)
(* the seats of the row inserted since.                                    *)
RemovedTooLate(s) ==
    \E w \in Worker : RemoveDelete(w) /\ handler[w].student = s /\ handler[w].row = "gone"

(* An edit that passed its check while the session was waiting inserts the *)
(* student's row after the opening has read the roster, and leaves the     *)
(* seats to it: an import, or the copy of the class that any edit begins   *)
(* with.                                                                   *)
EditedTooLate(s) ==
    /\ roster[s] = "none" /\ roster'[s] \in {"frozen", "attached"}
    /\ \E w \in Worker :
          \/ ImportCommit(w) \/ MaterializeCommit(w)
          \/ (AddCommit(w) \/ RemoveDelete(w)) /\ handler[w].student # s

(* Nobody on the roster of an opened session falls out of the grade book   *)
(* but by a removal or an edit that comes too late; who was let in by hand *)
(* - added by the teacher, admitted from the door - only by such a removal *)
(* (addManually, ensureManual, freeze, deleteRosterRow), whatever was      *)
(* imported, replaced, removed or opened meanwhile.                        *)
SeatsAreKept ==
    [][\A s \in Student :
          Seatless(s)' => Seatless(s) \/ RemovedTooLate(s) \/ EditedTooLate(s)]_vars

(* A seat that still awaits its file although a teacher has signed.        *)
Unjudged(s) == signed /\ \E d \in Deliverable : seat[s][d] = "not_submitted"

(* The student is seated by a request that did not ask whether the session *)
(* has been signed: an approval at the door, an add or an opening that had *)
(* read an earlier status.                                                 *)
SeatedAfterwards(s) ==
    \/ Grant(s)
    \/ \E w \in Worker : AddCommit(w) /\ handler[w].student = s
    \/ AutoOpenCommit \/ \E w \in Worker : OpenCommit(w)

(* A signature judges every seat there is, however the session came to its *)
(* end - by the teacher or by the sweep - and no seat escapes it later but *)
(* one that such a request creates (confirmEnd, markAbsentees).            *)
JudgedOnceSigned ==
    [][\A s \in Student : Unjudged(s)' => Unjudged(s) \/ SeatedAfterwards(s)]_vars

(* A request or tick that has read the status and will overwrite it.       *)
StaleWriter ==
    \/ \E w \in Worker : handler[w].op \in {"seed", "copy", "cancel"}
    \/ autoOpen.pc \in {"seed", "copy"}

(* A session that is over or cancelled, with no such writer in flight, is  *)
(* settled: it never comes back and no new writer can start.  The lost     *)
(* updates of freeze and cancel are thereby the only way back.             *)
Settled == status \in {"collecting", "completed", "cancelled"} /\ ~StaleWriter

SettledForGood == [][Settled => Settled']_vars

(* The seats of the session behave as the submission rows' contract says:  *)
(* seedSeats never pulls a submitted file back to `not_submitted`,         *)
(* markAbsentees judges only empty seats and only under a signature, a     *)
(* late confirm lifts `absent` (seedSeats, markAbsentees, writeCollected). *)
Seats == INSTANCE SeatLifecycle WITH seat <- seat, signed <- signed

SeatsAsPromised == Seats!SeatSpec

(* The auto-open sweep leaves no session waiting for ever: opened,         *)
(* cancelled, or at the latest `missed` (advanceAutoOpen).                 *)
AwaitingResolves == IsAwaitingOpen(status) ~> ~IsAwaitingOpen(status)

(* An opened session is closed in the end although nobody presses          *)
(* anything: the finalize sweep, then the collection sweep.                *)
ActiveResolves == status = "active" ~> status \in {"completed", "cancelled"}
=============================================================================
