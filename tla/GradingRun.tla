----------------------------- MODULE GradingRun -----------------------------
(***************************************************************************)
(* The grading of one session: `grading_result` rows, their attempts and   *)
(* score computations in PostgreSQL, one BullMQ job per row, the worker    *)
(* calls that grade, and the teacher's requests.                           *)
(*                                                                         *)
(* A call outlives its job: GradingProcessor.withTimeout gives the slot    *)
(* back and leaves the call running, so a submission may have a live call, *)
(* which its job awaits, and a stray one that nobody awaits.  Everything   *)
(* that writes under lockTeacherScoring is one step, because nothing else  *)
(* that takes the lock can come in between; finalizeGrades is two, with    *)
(* the lock held from its reads to its commit, so that what does NOT take  *)
(* the lock can.  Each submission belongs to a student of its own.         *)
(***************************************************************************)
EXTENDS Naturals, Sequences, FiniteSets

CONSTANTS
    Submission,    \* submissions the session may collect
    Investigated,  \* those of the `investigator` pipeline; others: `one_shot`
    Request,       \* slots for teacher requests that take several steps
    Tries,         \* GRADE_JOB_OPTIONS.attempts
    MinAudited,    \* AUDIT_MIN_PER_SESSION
    MaxPresses,    \* bound on startGrading, regradeStuck and regrade requests
    MaxFaults      \* bound on errors, timeouts and restarts together

ASSUME GradingAssumption ==
    /\ Investigated \subseteq Submission /\ IsFiniteSet(Submission)
    /\ Tries \in Nat \ {0} /\ {MinAudited, MaxPresses, MaxFaults} \subseteq Nat

VARIABLES
    status, class,  \* grading_result.status ("none": no row), ungradable_class
    scored,         \* rows with ai_total_score
    attempts,       \* grading_attempt rows of a submission: their outcomes
    current,        \* grading_result.current_attempt_id, 0 for NULL
    computed,       \* the newest score_computation: none, score or floor
    manual,         \* rows with a teacher_review of kind manual_score
    reviewed,       \* rows with a teacher_review of kind review
    promoted,       \* history: rows a rule change took from flagged to auto
    job,            \* the BullMQ job grade-<submissionId>
    call,           \* the live and the stray call of each submission
    failures,       \* `failed` events whose listener still has to run
    request,
    publishing,     \* statuses finalizeGrades has read; all "none": not running
    presses, faults

rows == <<status, class, scored, attempts, current, computed, manual, reviewed, promoted>>
workers == <<job, call, failures>>
teacher == <<request, publishing, presses>>
vars == <<rows, workers, teacher, faults>>

Status == {"none", "ai_grading", "ai_graded", "auto_approved", "audit_pending",
           "flagged_for_review", "teacher_reviewed", "finalized"}
BlocksFinalize == {"ai_grading", "ai_graded", "flagged_for_review", "audit_pending"}
Publishable == {"auto_approved", "teacher_reviewed"}
Editable == {"auto_approved", "flagged_for_review", "teacher_reviewed"}
Reviewable == Editable \cup {"finalized"}

Outcome == {"open", "graded", "ungradable"}
Slot == {"live", "stray"}
Idle == [step |-> "idle", attempt |-> 0]
Working == {"model", "flag", "start", "investigate"}
NoJob == [state |-> "none", tries |-> 0]
NewJob == [state |-> "waiting", tries |-> 0]
NoRequest == [op |-> "none", todo |-> {}]
NotPublishing == [s \in Submission |-> "none"]

IsLive(s) == job[s].state \in {"waiting", "active"}
Unlocked == publishing = NotPublishing
CurrentOutcome(s) == IF current[s] = 0 THEN "none" ELSE attempts[s][current[s]]
Statuses(S, to) == [s \in Submission |-> IF s \in S THEN to ELSE status[s]]

Init ==
    /\ status = [s \in Submission |-> "none"] /\ class = [s \in Submission |-> "none"]
    /\ scored = {} /\ manual = {} /\ reviewed = {} /\ promoted = {}
    /\ attempts = [s \in Submission |-> <<>>] /\ current = [s \in Submission |-> 0]
    /\ computed = [s \in Submission |-> "none"]
    /\ job = [s \in Submission |-> NoJob]
    /\ call = [s \in Submission |-> [c \in Slot |-> Idle]]
    /\ failures = [s \in Submission |-> 0]
    /\ request = [r \in Request |-> NoRequest]
    /\ publishing = NotPublishing
    /\ presses = 0 /\ faults = 0

-----------------------------------------------------------------------------
(* GradingRunService.startGrading: read what is collected and has no row,  *)
(* create the rows, then queue one job for each.                           *)

Press(r, what) ==
    /\ request[r] = NoRequest /\ presses < MaxPresses
    /\ request' = [request EXCEPT ![r] = what]
    /\ presses' = presses + 1

StartRead(r) ==
    \E collected \in SUBSET Submission :
        LET todo == {s \in collected : status[s] = "none"} IN
        /\ todo # {}
        /\ Press(r, [op |-> "save", todo |-> todo])
        /\ UNCHANGED <<rows, workers, publishing, faults>>

Fault == faults < MaxFaults /\ faults' = faults + 1

StartSave(r) ==
    /\ request[r].op = "save"
    /\ \A s \in request[r].todo : status[s] = "none"
    /\ status' = Statuses(request[r].todo, "ai_grading")
    /\ request' = [request EXCEPT ![r] = [op |-> "add", todo |-> request[r].todo]]
    /\ UNCHANGED <<class, scored, attempts, current, computed, manual, reviewed,
                   promoted, workers, publishing, presses, faults>>

(* The rows are saved in batches.  A row another request has created in    *)
(* between (uq_grading_result_submission) or an error ends the request     *)
(* with the batches before it committed and nothing queued.                *)
SaveFails(r) ==
    /\ request[r].op = "save"
    /\ \E saved \in SUBSET request[r].todo :
          /\ \A s \in saved : status[s] = "none"
          /\ \/ (\E s \in request[r].todo \ saved : status[s] # "none") /\ UNCHANGED faults
             \/ Fault
          /\ status' = Statuses(saved, "ai_grading")
    /\ request' = [request EXCEPT ![r] = NoRequest]
    /\ UNCHANGED <<class, scored, attempts, current, computed, manual, reviewed,
                   promoted, workers, publishing, presses>>

(* BullMQ ignores an add whose jobId exists, in whatever state.            *)
Add(S) == job' = [s \in Submission |->
                     IF s \in S /\ job[s] = NoJob THEN NewJob ELSE job[s]]

StartEnqueue(r) ==
    /\ request[r].op = "add"
    /\ Add(request[r].todo)
    /\ request' = [request EXCEPT ![r] = NoRequest]
    /\ UNCHANGED <<rows, call, failures, publishing, presses, faults>>

(* Mutant: a live job is replaced as well.                                 *)
RequeueAny(s) == job' = [job EXCEPT ![s] = NewJob]

(* Both rescue paths: a dead job is removed first, a live one left alone.  *)
Requeue(s) == job' = IF IsLive(s) THEN job ELSE [job EXCEPT ![s] = NewJob]

(* GradingRunService.regradeStuck: every row in `ai_grading`, one by one.  *)
StuckRead(r) ==
    LET stuck == {s \in Submission : status[s] = "ai_grading"} IN
    /\ stuck # {}
    /\ Press(r, [op |-> "stuck", todo |-> stuck])
    /\ UNCHANGED <<rows, workers, publishing, faults>>

StuckEnqueue(r) ==
    /\ request[r].op = "stuck"
    /\ \E s \in request[r].todo :
          LET rest == request[r].todo \ {s} IN
          /\ Requeue(s)
          /\ request' = [request EXCEPT ![r] = IF rest = {} THEN NoRequest
                                               ELSE [op |-> "stuck", todo |-> rest]]
    /\ UNCHANGED <<rows, call, failures, publishing, presses, faults>>

(* Mutant: any flagged row may be graded again.                            *)
CanRegradeFlagged(s) == status[s] = "flagged_for_review"

(* RegradeService: back to `ai_grading` first, then the job.               *)
CanRegrade(s) ==
    status[s] = "flagged_for_review" /\ class[s] = "system" /\ s \notin scored

RegradeRequeue(r, s) ==
    /\ Unlocked /\ CanRegrade(s)
    /\ status' = Statuses({s}, "ai_grading")
    /\ class' = [class EXCEPT ![s] = "none"]
    /\ Press(r, [op |-> "requeued", todo |-> {s}])
    /\ UNCHANGED <<scored, attempts, current, computed, manual, reviewed, promoted,
                   workers, publishing, faults>>

RegradeEnqueue(r) ==
    /\ request[r].op = "requeued"
    /\ \E s \in request[r].todo : Requeue(s)
    /\ request' = [request EXCEPT ![r] = NoRequest]
    /\ UNCHANGED <<rows, call, failures, publishing, presses, faults>>

(* Redis fails while jobs are queued, after the rows are committed: what   *)
(* the request had reached keeps its job, or has lost its dead one, and    *)
(* the rest is dropped.                                                    *)
EnqueueFails(r) ==
    /\ \/ /\ request[r].op = "add"
          /\ \E reached \in SUBSET request[r].todo : Add(reached)
       \/ /\ request[r].op \in {"stuck", "requeued"}
          /\ \E s \in request[r].todo :
                \/ UNCHANGED job
                \/ Requeue(s)
                \/ ~IsLive(s) /\ job' = [job EXCEPT ![s] = NoJob]
    /\ request' = [request EXCEPT ![r] = NoRequest]
    /\ Fault
    /\ UNCHANGED <<rows, call, failures, publishing, presses>>

-----------------------------------------------------------------------------
(* The worker: GradingProcessor.process and what it calls.                 *)

Goto(s, c, step, n) ==
    call' = [call EXCEPT ![s][c] = [step |-> step, attempt |-> n]]

(* Mutant: a call that returns is forgotten, its job never completed.      *)
Forget(s, c) == Goto(s, c, "idle", 0)

(* A call returns: its job still has to be completed, a stray is over.     *)
Return(s, c) == Goto(s, c, IF c = "live" THEN "returned" ELSE "idle", 0)

(* Mutant: only a job that ran out of tries is told to the listener.       *)
FailExhausted(s, permanent) ==
    LET last == job[s].tries + 1 >= Tries IN
    /\ job' = [job EXCEPT ![s] = [state |-> IF permanent \/ last THEN "failed" ELSE "waiting",
                                  tries |-> job[s].tries + 1]]
    /\ failures' = [failures EXCEPT ![s] = IF last THEN @ + 1 ELSE @]

(* An attempt of the job failed: try again, or fail for good and say so.   *)
FailJob(s, permanent) ==
    LET over == permanent \/ job[s].tries + 1 >= Tries IN
    /\ job' = [job EXCEPT ![s] = [state |-> IF over THEN "failed" ELSE "waiting",
                                  tries |-> job[s].tries + 1]]
    /\ failures' = [failures EXCEPT ![s] = IF over THEN @ + 1 ELSE @]

(* gradeOneById: a row that has a score is left alone.                     *)
Take(s) ==
    /\ job[s].state = "waiting"
    /\ job' = [job EXCEPT ![s].state = "active"]
    /\ Goto(s, "live", IF s \in scored THEN "returned"
                       ELSE IF s \in Investigated THEN "start" ELSE "model", 0)
    /\ UNCHANGED <<rows, failures, teacher, faults>>

(* gradeOne writes the score and, in another UPDATE, the flag; each only   *)
(* over the status it expects.                                             *)
WriteScore(s, c) ==
    /\ call[s][c].step = "model"
    /\ IF status[s] = "ai_grading"
       THEN /\ status' = Statuses({s}, "ai_graded")
            /\ scored' = scored \cup {s}
            /\ Goto(s, c, "flag", 0)
       ELSE Return(s, c) /\ UNCHANGED <<status, scored>>
    /\ UNCHANGED <<class, attempts, current, computed, manual, reviewed, promoted,
                   job, failures, teacher, faults>>

Flag(s, c) ==
    /\ call[s][c].step = "flag"
    /\ status' = IF status[s] = "ai_graded" THEN Statuses({s}, "flagged_for_review")
                 ELSE status
    /\ Return(s, c)
    /\ UNCHANGED <<class, scored, attempts, current, computed, manual, reviewed,
                   promoted, job, failures, teacher, faults>>

(* InvestigatorRunService.startAttempt: leave, resume or open an attempt.  *)
StartAttempt(s, c) ==
    /\ Unlocked /\ call[s][c].step = "start"
    /\ \/ /\ status[s] # "ai_grading"
          /\ Return(s, c) /\ UNCHANGED <<attempts, current>>
       \/ /\ status[s] = "ai_grading" /\ CurrentOutcome(s) = "open"
          /\ Goto(s, c, "investigate", current[s]) /\ UNCHANGED <<attempts, current>>
       \/ /\ status[s] = "ai_grading" /\ CurrentOutcome(s) # "open"
          /\ attempts' = [attempts EXCEPT ![s] = Append(@, "open")]
          /\ current' = [current EXCEPT ![s] = Len(attempts[s]) + 1]
          /\ Goto(s, c, "investigate", Len(attempts[s]) + 1)
    /\ UNCHANGED <<status, class, scored, computed, manual, reviewed, promoted,
                   job, failures, teacher, faults>>

(* Mutant: the row's status is all that is checked.                        *)
IsBeingGraded(s, n) == status[s] = "ai_grading"

(* ScoreService.lockRunning: the attempt must still be the running one.    *)
IsRunning(s, n) ==
    status[s] = "ai_grading" /\ current[s] = n /\ CurrentOutcome(s) = "open"

Close(s, n, outcome) == attempts' = [attempts EXCEPT ![s][n] = outcome]

(* topUpSessionAudit: once nothing is being graded, enough students that   *)
(* were approved automatically go to the audit sample.                     *)
Drawn(after, drawn) ==
    LET auto == {s \in Investigated : after[s] = "auto_approved"}
        sampled == {s \in Investigated : after[s] = "audit_pending"}
        wanted == IF MinAudited < Cardinality(auto \cup sampled)
                  THEN MinAudited ELSE Cardinality(auto \cup sampled) IN
    IF \E s \in Submission : after[s] \in {"ai_grading", "ai_graded"}
    THEN drawn = {}
    ELSE /\ drawn \subseteq auto
         /\ \/ Cardinality(sampled) + Cardinality(drawn) = wanted
            \/ Cardinality(sampled) >= wanted /\ drawn = {}

(* finishAttempt with a grade: attempt, computation, score and status in   *)
(* one transaction; `sampled` is drawnForAudit, a hash of the student.     *)
FinishGraded(s, c, first) ==
    /\ Unlocked /\ call[s][c].step = "investigate"
    /\ IsRunning(s, call[s][c].attempt)
    /\ Close(s, call[s][c].attempt, "graded")
    /\ computed' = [computed EXCEPT ![s] = "score"]
    /\ scored' = scored \cup {s}
    /\ \E drawn \in SUBSET Investigated :
          /\ Drawn(Statuses({s}, first), drawn)
          /\ status' = [x \in Submission |-> IF x \in drawn THEN "audit_pending"
                                             ELSE Statuses({s}, first)[x]]
    /\ Return(s, c)
    /\ UNCHANGED <<class, current, manual, reviewed, promoted, job, failures, teacher,
                   faults>>

(* finishAttempt or finishUngradable without one.                          *)
FinishUngradable(s, c, why) ==
    /\ Unlocked /\ call[s][c].step = "investigate"
    /\ IsRunning(s, call[s][c].attempt)
    /\ Close(s, call[s][c].attempt, "ungradable")
    /\ status' = Statuses({s}, "flagged_for_review")
    /\ class' = [class EXCEPT ![s] = why]
    /\ Return(s, c)
    /\ UNCHANGED <<scored, current, computed, manual, reviewed, promoted, job,
                   failures, teacher, faults>>

(* A call throws; only a live one is missed.                               *)
Throw(s, c, permanent) ==
    /\ call' = [call EXCEPT ![s][c] = Idle]
    /\ IF c = "live" THEN FailJob(s, permanent) ELSE UNCHANGED <<job, failures>>
    /\ UNCHANGED <<rows, teacher>>

(* lockRunning throws when its attempt is no longer the running one.       *)
FinishStale(s, c) ==
    /\ Unlocked /\ call[s][c].step = "investigate"
    /\ ~IsRunning(s, call[s][c].attempt)
    /\ Throw(s, c, FALSE) /\ UNCHANGED faults

(* The model, storage or the database may fail a call at any point.        *)
CallFails(s, c) ==
    /\ call[s][c].step \in Working
    /\ \E permanent \in BOOLEAN : Throw(s, c, permanent)
    /\ Fault

CallStep(s, c) ==
    \/ WriteScore(s, c) \/ Flag(s, c) \/ StartAttempt(s, c)
    \/ \E first \in {"auto_approved", "audit_pending", "flagged_for_review"} :
          FinishGraded(s, c, first)
    \/ \E why \in {"system", "submission"} : FinishUngradable(s, c, why)
    \/ FinishStale(s, c)

(* withTimeout: the job's attempt fails, the call goes on unattended.  One *)
(* stray at a time bounds the calls of a submission.                       *)
Timeout(s) ==
    /\ call[s]["live"].step \in Working /\ call[s]["stray"] = Idle
    /\ call' = [call EXCEPT ![s] = [live |-> Idle, stray |-> call[s]["live"]]]
    /\ FailJob(s, FALSE)
    /\ Fault
    /\ UNCHANGED <<rows, teacher>>

Complete(s) ==
    /\ call[s]["live"].step = "returned"
    /\ call' = [call EXCEPT ![s]["live"] = Idle]
    /\ job' = [job EXCEPT ![s].state = "completed"]
    /\ UNCHANGED <<rows, failures, teacher, faults>>

(* The attempt that failed: the open one is closed, or an empty one added. *)
AddFailure(s) ==
    /\ attempts' = [attempts EXCEPT ![s] = Append(@, "ungradable")]
    /\ current' = [current EXCEPT ![s] = Len(attempts[s]) + 1]

RecordFailure(s) ==
    IF CurrentOutcome(s) = "open"
    THEN Close(s, current[s], "ungradable") /\ UNCHANGED current
    ELSE AddFailure(s)

(* onFailed and GradingService.markUngradable: conclude a row that no      *)
(* retry will.                                                             *)
MarkUngradable(s) ==
    /\ failures[s] > 0 /\ Unlocked
    /\ failures' = [failures EXCEPT ![s] = @ - 1]
    /\ IF status[s] # "ai_grading"
       THEN UNCHANGED <<status, class, attempts, current>>
       ELSE /\ status' = Statuses({s}, "flagged_for_review")
            /\ class' = [class EXCEPT ![s] = "system"]
            /\ RecordFailure(s)
    /\ UNCHANGED <<scored, computed, manual, reviewed, promoted, job, call, teacher,
                   faults>>

(* The listener's own write may fail; that is logged and forgotten.        *)
MarkFails(s) ==
    /\ failures[s] > 0
    /\ failures' = [failures EXCEPT ![s] = @ - 1]
    /\ UNCHANGED <<rows, job, call, teacher, faults>>

-----------------------------------------------------------------------------
(* The teacher.  advanceStatus(S): out of what waits for a person.         *)

Judged(S) == [s \in Submission |->
    IF s \in S /\ status[s] \in {"auto_approved", "flagged_for_review"}
    THEN "teacher_reviewed" ELSE status[s]]

(* TeacherReviewService.review of a one_shot row: the status is judged on  *)
(* the entity the controller loaded, and no lock is taken.                 *)
ReviewRead(r, s) ==
    /\ request[r] = NoRequest
    /\ s \notin Investigated /\ status[s] \in Reviewable
    /\ request' = [request EXCEPT ![r] = [op |-> "review", todo |-> {s}]]
    /\ UNCHANGED <<rows, workers, publishing, presses, faults>>

ReviewWrite(r) ==
    /\ request[r].op = "review"
    /\ status' = Judged(request[r].todo)
    /\ reviewed' = reviewed \cup request[r].todo
    /\ request' = [request EXCEPT ![r] = NoRequest]
    /\ UNCHANGED <<class, scored, attempts, current, computed, manual, promoted,
                   workers, publishing, presses, faults>>

(* ErrorExceptionService.setManualScore, open even after publication.      *)
SetManualScore(s) ==
    /\ Unlocked /\ status[s] \in Reviewable
    /\ status' = Judged({s})
    /\ manual' = manual \cup {s}
    /\ UNCHANGED <<class, scored, attempts, current, computed, reviewed, promoted,
                   workers, teacher, faults>>

(* ErrorExceptionService.setErrorException, which recomputes the row.      *)
SetErrorException(s) ==
    /\ Unlocked /\ s \in Investigated /\ status[s] \in Editable
    /\ computed[s] # "none"
    /\ \E result \in {"score", "floor"} : computed' = [computed EXCEPT ![s] = result]
    /\ status' = Judged({s})
    /\ UNCHANGED <<class, scored, attempts, current, manual, reviewed, promoted,
                   workers, teacher, faults>>

(* recomputeForTeacher over the rows in the scope of a change of rules or  *)
(* prices; ruleLayerTransition moves them.                                 *)
Recomputable ==
    {s \in Investigated : /\ status[s] \in Editable \cup {"audit_pending"}
                          /\ CurrentOutcome(s) = "graded" /\ s \notin manual}

Recompute(outcome, after) ==
    /\ computed' = [s \in Submission |->
           IF s \notin DOMAIN outcome THEN computed[s]
           ELSE IF outcome[s] = "floor" THEN "floor" ELSE "score"]
    /\ status' = [s \in Submission |->
           IF s \notin DOMAIN outcome THEN after[s]
           ELSE IF outcome[s] = "auto"
                THEN IF after[s] = "flagged_for_review" /\ class[s] = "none"
                     THEN "auto_approved" ELSE after[s]
                ELSE IF after[s] \in {"auto_approved", "audit_pending"}
                     THEN "flagged_for_review" ELSE after[s]]
    /\ promoted' = promoted \cup {s \in DOMAIN outcome :
           outcome[s] = "auto" /\ after[s] = "flagged_for_review" /\ class[s] = "none"}

(* Mutant: recomputing without the teacher lock.                           *)
ChangeRulesUnlocked ==
    /\ \E scope \in SUBSET Recomputable \ {{}} :
       \E outcome \in [scope -> {"auto", "flagged", "floor"}] : Recompute(outcome, status)
    /\ UNCHANGED <<class, scored, attempts, current, manual, reviewed, workers,
                   teacher, faults>>

ChangeRules ==
    /\ Unlocked
    /\ \E scope \in SUBSET Recomputable \ {{}} :
       \E outcome \in [scope -> {"auto", "flagged", "floor"}] : Recompute(outcome, status)
    /\ UNCHANGED <<class, scored, attempts, current, manual, reviewed, workers,
                   teacher, faults>>

(* AuditReviewService.record: the label may trip a breaker, which switches *)
(* automatic approval off for other rows and recomputes them.              *)
RecordAudit(s) ==
    /\ Unlocked /\ status[s] = "audit_pending"
    /\ \E scope \in SUBSET (Recomputable \ {s}) :
       \E outcome \in [scope -> {"flagged", "floor"}] :
          Recompute(outcome, Statuses({s}, "teacher_reviewed"))
    /\ UNCHANGED <<class, scored, attempts, current, manual, reviewed, workers,
                   teacher, faults>>

(* ReviewGroupConfirmService.confirmGroup, with confirmVerdict.            *)
ConfirmGroup ==
    /\ Unlocked
    /\ \E group \in SUBSET Investigated \ {{}} :
          /\ \A s \in group : /\ status[s] = "flagged_for_review" /\ class[s] = "none"
                              /\ s \notin manual /\ computed[s] = "score"
          /\ status' = Judged(group)
    /\ UNCHANGED <<class, scored, attempts, current, computed, manual, reviewed,
                   promoted, workers, teacher, faults>>

(* Mutant: an older computation that carries a score is good enough.       *)
HadGrade(s) == computed[s] # "none" \/ s \in manual

HasGrade(s) == computed[s] = "score" \/ s \in manual

(* TeacherReviewService.finalizeGrades: lock, read and check everything    *)
(* (a one_shot row is never `auto_approved`: gradeOne flags every one)...  *)
FinalizeRead ==
    /\ Unlocked /\ status # NotPublishing
    /\ \A s \in Submission : status[s] \notin BlocksFinalize
    /\ \A s \in Investigated : status[s] \in Publishable => HasGrade(s)
    /\ publishing' = status
    /\ UNCHANGED <<rows, workers, request, presses, faults>>

(* ...then publish each row that is still in the status it was read in;    *)
(* one that has moved rolls the whole publication back.                    *)
ToPublish == {s \in Submission : publishing[s] \in Publishable}

FinalizeCommit ==
    /\ ~Unlocked
    /\ \A s \in ToPublish : status[s] = publishing[s]
    /\ status' = Statuses(ToPublish, "finalized")
    /\ publishing' = NotPublishing
    /\ UNCHANGED <<class, scored, attempts, current, computed, manual, reviewed,
                   promoted, workers, request, presses, faults>>

-----------------------------------------------------------------------------
(* The process dies: calls, listeners, requests and open transactions are  *)
(* gone.  BullMQ hands an active job to the next worker, unless Redis was  *)
(* lost as well.                                                           *)
Crash ==
    /\ Fault
    /\ \/ job' = [s \in Submission |-> NoJob]
       \/ job' = [s \in Submission |-> IF job[s].state = "active"
                     THEN [job[s] EXCEPT !.state = "waiting"] ELSE job[s]]
    /\ call' = [s \in Submission |-> [c \in Slot |-> Idle]]
    /\ failures' = [s \in Submission |-> 0]
    /\ request' = [r \in Request |-> NoRequest]
    /\ publishing' = NotPublishing
    /\ UNCHANGED <<rows, presses>>

RequestStep(r) ==
    \/ StartSave(r) \/ SaveFails(r)
    \/ StartEnqueue(r) \/ StuckEnqueue(r) \/ RegradeEnqueue(r) \/ EnqueueFails(r)
    \/ ReviewWrite(r)

Next ==
    \/ \E r \in Request : \/ StartRead(r) \/ StuckRead(r) \/ RequestStep(r)
                          \/ \E s \in Submission : RegradeRequeue(r, s) \/ ReviewRead(r, s)
    \/ \E s \in Submission :
          \/ Take(s) \/ Timeout(s) \/ Complete(s) \/ MarkUngradable(s) \/ MarkFails(s)
          \/ \E c \in Slot : CallStep(s, c) \/ CallFails(s, c)
          \/ SetManualScore(s) \/ SetErrorException(s) \/ RecordAudit(s)
    \/ ChangeRules \/ ConfirmGroup \/ FinalizeRead \/ FinalizeCommit
    \/ Crash

Spec == Init /\ [][Next]_vars

(* The worker keeps taking jobs, completing them and running its calls and *)
(* listeners.  PostgreSQL serves the waiters of a lock in their order, so  *)
(* what waits for the teacher lock gets it; no teacher ever has to act.    *)
Fairness ==
    /\ \A s \in Submission :
        /\ WF_vars(Take(s)) /\ WF_vars(Complete(s))
        /\ SF_vars(CallStep(s, "live")) /\ SF_vars(MarkUngradable(s))
    /\ WF_vars(FinalizeCommit)

FairSpec == Spec /\ Fairness
-----------------------------------------------------------------------------
(* Every variable keeps its type, and a job is active exactly while its    *)
(* live call is not idle.                                                  *)
TypeOK ==
    /\ status \in [Submission -> Status]
    /\ class \in [Submission -> {"none", "system", "submission"}]
    /\ {scored, manual, reviewed, promoted} \subseteq SUBSET Submission
    /\ attempts \in [Submission -> Seq(Outcome)]
    /\ current \in [Submission -> Nat]
    /\ computed \in [Submission -> {"none", "score", "floor"}]
    /\ job \in [Submission -> [state : {"none", "waiting", "active", "failed", "completed"},
                               tries : Nat]]
    /\ call \in [Submission -> [Slot -> [step : Working \cup {"idle", "returned"},
                                         attempt : Nat]]]
    /\ failures \in [Submission -> Nat]
    /\ request \in [Request -> [op : {"none", "save", "add", "stuck", "requeued", "review"},
                                todo : SUBSET Submission]]
    /\ publishing \in [Submission -> Status]
    /\ presses \in Nat /\ faults \in Nat
    /\ \A s \in Submission : job[s].state = "active" <=> call[s]["live"] # Idle

(* The row and its newest attempt tell one story, however the retry, the   *)
(* stray call, the failure listener and a regrade interleave: a score of   *)
(* the investigator stands on a graded attempt, a reason on an ungradable  *)
(* one, and an attempt is open only as the newest of a row being graded.   *)
AttemptMatchesRow ==
    \A s \in Submission :
        /\ current[s] = Len(attempts[s])
        /\ class[s] # "none" => CurrentOutcome(s) = "ungradable"
        /\ s \in Investigated => (s \in scored <=> CurrentOutcome(s) = "graded")
        /\ \A n \in 1 .. Len(attempts[s]) :
              attempts[s][n] = "open" => n = current[s] /\ status[s] = "ai_grading"

(* score.service.ts closes an attempt once: no retry, stray call, listener *)
(* or regrade rewrites what an earlier attempt ended in.                   *)
ClosedAttemptsStay ==
    [][\A s \in Submission :
          /\ Len(attempts[s]) <= Len(attempts'[s])
          /\ \A n \in 1 .. Len(attempts[s]) :
                attempts[s][n] # "open" => attempts'[s][n] = attempts[s][n]]_vars

(* The AI has not finished the row.                                        *)
Unfinished(s) == status[s] \in {"ai_grading", "ai_graded"}

(* A request is about to see to the job of the row.                        *)
Claims(r, s) ==
    /\ s \in request[r].todo
    /\ \/ request[r].op \in {"stuck", "requeued"}
       \/ request[r].op = "add" /\ job[s] = NoJob

(* Somebody will: the call between its two writes; or a listener, a job    *)
(* that is to be taken, a live call that is not back yet, or a request.    *)
Owed(s) ==
    \/ status[s] = "ai_graded" /\ \E c \in Slot : call[s][c].step = "flag"
    \/ /\ status[s] = "ai_grading"
       /\ \/ failures[s] > 0
          \/ job[s].state = "waiting"
          \/ job[s].state = "active" /\ call[s]["live"].step # "returned"
          \/ \E r \in Request : Claims(r, s)

Abandoned(s) == Unfinished(s) /\ ~Owed(s)

(* onFailed and gradeOne leave no row for ever in `ai_grading` or          *)
(* `ai_graded` (grading.processor.ts:156-162): one is abandoned only by a  *)
(* restart, a listener whose own write fails, a call that fails between    *)
(* its two writes, a regrade that trusts a live job whose call is back, or *)
(* a request that fails on the row after committing it (the failures that  *)
(* grading-run.service.ts:464-466 and regrade.service.ts:199 speak of).    *)
NeverAbandoned ==
    [][\A s \in Submission : Abandoned(s)' =>
          \/ Abandoned(s) \/ Crash \/ MarkFails(s)
          \/ \E c \in Slot : call[s][c].step = "flag" /\ CallFails(s, c)
          \/ /\ call[s]["live"].step = "returned"
             /\ \E r \in Request : StuckEnqueue(r) \/ RegradeEnqueue(r)
          \/ \E r \in Request : /\ SaveFails(r) \/ EnqueueFails(r)
                                /\ s \in request[r].todo]_vars

(* finalizeGrades (teacher-review.service.ts:257-286): a published grade   *)
(* exists.  A rule change may take a row's score away before, never        *)
(* between the check and the commit.                                       *)
PublishedHasScore ==
    \A s \in Submission : status[s] = "finalized" =>
        IF s \in Investigated THEN computed[s] = "score" \/ s \in manual
                              ELSE s \in reviewed \cup manual

(* While finalizeGrades runs, what it has read of the rows it will publish *)
(* stays true, so its 409 `a grade has just moved` is never reached: the   *)
(* teacher lock alone keeps recomputations and exceptions out.             *)
PublicationIsStable ==
    \A s \in ToPublish :
        /\ status[s] = publishing[s]
        /\ s \in Investigated => computed[s] = "score" \/ s \in manual

(* GRADE_JOB_OPTIONS and the processor: a job is not tried for ever, and   *)
(* when it has ended for good the failure listener has run.                *)
JobEnds ==
    \A s \in Submission :
        IsLive(s) \/ failures[s] > 0 ~> ~IsLive(s) /\ failures[s] = 0

(* What a teacher sees of a row; both AI statuses are "not finished".      *)
Phase(st) ==
    CASE st \in {"ai_grading", "ai_graded"} -> "grading"
      [] st = "flagged_for_review" -> "flagged"
      [] st = "auto_approved"      -> "proposed"
      [] st = "audit_pending"      -> "sampled"
      [] st = "teacher_reviewed"   -> "reviewed"
      [] st = "finalized"          -> "published"
      [] OTHER                     -> "none"

Lifecycle == INSTANCE GradingLifecycle
                 WITH phase <- [s \in Submission |-> Phase(status[s])]

(* The rows keep the contract of their triggers, every step of every actor.*)
ImplementsLifecycle == Lifecycle!LifecycleSpec
=============================================================================
