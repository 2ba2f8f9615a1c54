----------------------------- MODULE OwedProofs -----------------------------
(***************************************************************************)
(* Proof that the grading of a session abandons no row, but in the five    *)
(* ways NeverAbandoned names.                                              *)
(***************************************************************************)
EXTENDS GradingRunProofs

-----------------------------------------------------------------------------
(* What ties jobs, calls and requests to the rows, which no guard reads: a *)
(* flag is put on a score, a job and a rescue are of a row that exists,    *)
(* and a regrade is of one row.                                            *)
FlagOnScore ==
    \A s \in Submission, c \in Slot : call[s][c].step = "flag" => s \in scored

JobOfRow == \A s \in Submission : status[s] = "none" => job[s] = NoJob

RequestOfRows ==
    \A r \in Request :
        /\ request[r].op \in {"add", "stuck", "requeued"} =>
              \A s \in request[r].todo : status[s] # "none"
        /\ request[r].op = "requeued" => \A s, t \in request[r].todo : s = t

WorkInv == FlagOnScore /\ JobOfRow /\ RequestOfRows

(* A row, once there, stays; a score as well.                              *)
LEMMA RowStays ==
  ASSUME IInv, [Next]_vars, NEW s \in Submission
  PROVE  /\ status[s] # "none" => status'[s] # "none"
         /\ s \in scored => s \in scored'
  <1>1. RowMove(s)
    BY NextMove
  <1> QED BY <1>1 DEF RowMove, Opens, Restarts, IsScored, IsFlagged, IsAttempted, IsGraded,
                      IsGivenUp, IsRejudged, IsPublished, SameScore

LEMMA FlagNext ==
  ASSUME IInv, FlagOnScore, [Next]_vars
  PROVE  FlagOnScore'
  <1>0. /\ call \in [Submission -> [Slot -> [step : Step, attempt : Nat]]]
        /\ Slot = {"live", "stray"}
    BY DEF IInv, TypeOK, Step, Slot
  <1>1. \A x \in Submission : x \in scored => x \in scored'
    BY RowStays
  <1>2. ASSUME \A x \in Submission, d \in Slot :
                  call'[x][d].step = "flag" =>
                     x \in scored' \/ \E e \in Slot : call[x][e].step = "flag"
        PROVE  FlagOnScore'
    BY <1>1, <1>2 DEF FlagOnScore
  <1>3. ASSUME NEW s \in Submission, NEW c \in Slot, NEW step, NEW n, Goto(s, c, step, n),
               step = "flag" => s \in scored'
        PROVE  FlagOnScore'
    <2>1. \A x \in Submission, d \in Slot :
             call'[x][d].step = IF x = s /\ d = c THEN step ELSE call[x][d].step
      BY <1>0, <1>3 DEF Goto
    <2> QED BY <1>2, <1>3, <2>1
  <1>4. ASSUME NEW s \in Submission, NEW c \in Slot,
               Return(s, c) \/ call' = [call EXCEPT ![s][c] = Idle]
        PROVE  FlagOnScore'
    <2>1. \E step, n : Goto(s, c, step, n) /\ step # "flag"
      BY <1>4 DEF Return, Goto, Idle
    <2> QED BY <1>3, <2>1
  <1>5. CASE UNCHANGED call
    BY <1>2, <1>5
  <1>6. ASSUME NEW s \in Submission, NEW c \in Slot, CallStep(s, c) \/ CallFails(s, c)
        PROVE  FlagOnScore'
    <2>1. CASE WriteScore(s, c)
      <3>1. CASE status[s] = "ai_grading"
        <4>1. s \in scored' /\ Goto(s, c, "flag", 0)
          BY <1>6, <2>1, <3>1 DEF WriteScore
        <4> QED BY <1>3, <1>6, <4>1
      <3>2. CASE status[s] # "ai_grading"
        BY <1>4, <1>6, <2>1, <3>2 DEF WriteScore
      <3> QED BY <3>1, <3>2
    <2>2. CASE StartAttempt(s, c)
      <3>1. Return(s, c) \/ \E n : Goto(s, c, "investigate", n)
        BY <2>2 DEF StartAttempt
      <3> QED BY <1>3, <1>4, <1>6, <3>1
    <2>3. CASE \/ Flag(s, c) \/ FinishStale(s, c) \/ CallFails(s, c)
               \/ \E first \in {"auto_approved", "audit_pending", "flagged_for_review"} :
                     FinishGraded(s, c, first)
               \/ \E why \in {"system", "submission"} : FinishUngradable(s, c, why)
      <3>1. Return(s, c) \/ call' = [call EXCEPT ![s][c] = Idle]
        BY <2>3 DEF Flag, FinishGraded, FinishUngradable, FinishStale, CallFails, Throw
      <3> QED BY <1>4, <1>6, <3>1
    <2> QED BY <1>6, <2>1, <2>2, <2>3 DEF CallStep
  <1>7. ASSUME NEW s \in Submission, Take(s) PROVE FlagOnScore'
    <2>1. \E step \in {"returned", "start", "model"} : Goto(s, "live", step, 0)
      BY <1>7 DEF Take
    <2> QED BY <1>0, <1>3, <1>7, <2>1
  <1>8. ASSUME NEW s \in Submission, Timeout(s) PROVE FlagOnScore'
    <2>1. \A x \in Submission, d \in Slot :
             \/ call'[x][d] = call[x][d]
             \/ call'[x][d] = Idle
             \/ call'[x][d] = call[x]["live"]
      BY <1>0, <1>8 DEF Timeout
    <2> QED BY <1>0, <1>2, <2>1 DEF Idle
  <1>9. ASSUME NEW s \in Submission, Complete(s) PROVE FlagOnScore'
    BY <1>0, <1>4, <1>9 DEF Complete
  <1>10. CASE Crash
    BY <1>2, <1>10 DEF Crash, Idle
  <1>11. CASE \E r \in Request :
                 \/ StartRead(r) \/ StuckRead(r) \/ RequestStep(r)
                 \/ \E s \in Submission : RegradeRequeue(r, s) \/ ReviewRead(r, s)
    <2>1. UNCHANGED call
      BY <1>11 DEF StartRead, StuckRead, RequestStep, StartSave, SaveFails, StartEnqueue,
                   StuckEnqueue, RegradeEnqueue, EnqueueFails, ReviewWrite, RegradeRequeue,
                   ReviewRead, workers
    <2> QED BY <1>5, <2>1
  <1>12. CASE \/ \E s \in Submission : \/ MarkUngradable(s) \/ MarkFails(s)
                                       \/ SetManualScore(s) \/ SetErrorException(s)
                                       \/ RecordAudit(s)
              \/ ChangeRules \/ ConfirmGroup \/ FinalizeRead \/ FinalizeCommit
    <2>1. UNCHANGED call
      BY <1>12 DEF MarkUngradable, MarkFails, SetManualScore, SetErrorException, RecordAudit,
                   ChangeRules, ConfirmGroup, FinalizeRead, FinalizeCommit, workers
    <2> QED BY <1>5, <2>1
  <1>13. CASE UNCHANGED vars
    BY <1>5, <1>13 DEF vars, workers
  <1> QED BY <1>6, <1>7, <1>8, <1>9, <1>10, <1>11, <1>12, <1>13 DEF Next

(* BullMQ holds a job only of a row that is there.                         *)
LEMMA JobNext ==
  ASSUME IInv, WorkInv, [Next]_vars
  PROVE  JobOfRow'
  <1>0. TypeOK /\ JobOfRow /\ RequestOfRows
    BY DEF IInv, WorkInv
  <1>1. ASSUME \A x \in Submission : job[x] = NoJob /\ status[x] = "none" => job'[x] = NoJob
        PROVE  JobOfRow'
    <2>1. \A x \in Submission : status'[x] = "none" => status[x] = "none"
      BY RowStays
    <2> QED BY <1>0, <1>1, <2>1 DEF JobOfRow
  <1>2. CASE UNCHANGED job
    BY <1>1, <1>2
  <1>3. ASSUME NEW s \in Submission, job[s] # NoJob \/ status[s] # "none",
               \A x \in Submission : x # s => job'[x] = job[x]
        PROVE  JobOfRow'
    BY <1>1, <1>3
  <1>4. ASSUME NEW s \in Submission, NEW c \in Slot, CallStep(s, c) \/ CallFails(s, c)
        PROVE  JobOfRow'
    <2>1. CASE \/ WriteScore(s, c) \/ Flag(s, c) \/ StartAttempt(s, c)
               \/ \E first \in {"auto_approved", "audit_pending", "flagged_for_review"} :
                     FinishGraded(s, c, first)
               \/ \E why \in {"system", "submission"} : FinishUngradable(s, c, why)
      <3>1. UNCHANGED job
        BY <2>1 DEF WriteScore, Flag, StartAttempt, FinishGraded, FinishUngradable
      <3> QED BY <1>2, <3>1
    <2>2. CASE FinishStale(s, c) \/ CallFails(s, c)
      <3>1. call[s][c].step # "idle" /\ \E permanent \in BOOLEAN : Throw(s, c, permanent)
        BY <2>2 DEF FinishStale, CallFails, Working
      <3>2. CASE c = "live"
        <4>1. job[s].state = "active"
          BY <1>0, <3>1, <3>2 DEF TypeOK, Idle
        <4>2. \A x \in Submission : x # s => job'[x] = job[x]
          BY <1>0, <3>1, <3>2 DEF Throw, FailJob, TypeOK
        <4> QED BY <1>3, <4>1, <4>2 DEF NoJob
      <3>3. CASE c # "live"
        BY <1>2, <3>1, <3>3 DEF Throw
      <3> QED BY <3>2, <3>3
    <2> QED BY <1>4, <2>1, <2>2 DEF CallStep
  <1>5. ASSUME NEW s \in Submission, Take(s) \/ Timeout(s) \/ Complete(s) PROVE JobOfRow'
    <2>1. job[s].state \in {"waiting", "active"}
      <3>1. Take(s) => job[s].state = "waiting"
        BY DEF Take
      <3>2. Timeout(s) \/ Complete(s) => call[s]["live"].step # "idle"
        BY DEF Timeout, Complete, Working
      <3>3. call[s]["live"].step # "idle" => job[s].state = "active"
        BY <1>0 DEF TypeOK, Idle
      <3> QED BY <1>5, <3>1, <3>2, <3>3
    <2>2. \A x \in Submission : x # s => job'[x] = job[x]
      BY <1>0, <1>5 DEF TypeOK, Take, Timeout, Complete, FailJob
    <2> QED BY <1>3, <2>1, <2>2 DEF NoJob
  <1>6. CASE Crash
    BY <1>0, <1>1, <1>6 DEF Crash, NoJob
  <1>7. ASSUME NEW r \in Request, StartEnqueue(r) PROVE JobOfRow'
    BY <1>0, <1>1, <1>7 DEF StartEnqueue, Add, RequestOfRows
  <1>8. ASSUME NEW r \in Request, StuckEnqueue(r) \/ RegradeEnqueue(r) PROVE JobOfRow'
    <2>1. PICK s \in request[r].todo : Requeue(s) /\ status[s] # "none"
      BY <1>0, <1>8 DEF StuckEnqueue, RegradeEnqueue, RequestOfRows
    <2>2. s \in Submission
      BY <1>0, <2>1 DEF TypeOK
    <2>3. \A x \in Submission : x # s => job'[x] = job[x]
      BY <1>0, <2>1, <2>2 DEF Requeue, TypeOK
    <2> QED BY <1>3, <2>1, <2>2, <2>3
  <1>9. CASE \E r \in Request :
                \/ StartRead(r) \/ StuckRead(r) \/ StartSave(r) \/ SaveFails(r) \/ ReviewWrite(r)
                \/ \E s \in Submission : RegradeRequeue(r, s) \/ ReviewRead(r, s)
    <2>1. UNCHANGED job
      BY <1>9 DEF StartRead, StuckRead, StartSave, SaveFails, ReviewWrite, RegradeRequeue,
                  ReviewRead, workers
    <2> QED BY <1>2, <2>1
  <1>10. CASE \/ \E s \in Submission : \/ MarkUngradable(s) \/ MarkFails(s)
                                       \/ SetManualScore(s) \/ SetErrorException(s)
                                       \/ RecordAudit(s)
              \/ ChangeRules \/ ConfirmGroup \/ FinalizeRead \/ FinalizeCommit
    <2>1. UNCHANGED job
      BY <1>10 DEF MarkUngradable, MarkFails, SetManualScore, SetErrorException, RecordAudit,
                   ChangeRules, ConfirmGroup, FinalizeRead, FinalizeCommit, workers
    <2> QED BY <1>2, <2>1
  <1>11. CASE UNCHANGED vars
    BY <1>2, <1>11 DEF vars, workers
  <1>12. ASSUME NEW r \in Request, EnqueueFails(r) PROVE JobOfRow'
    <2>1. /\ request[r].todo \in SUBSET Submission
          /\ \A s \in request[r].todo : status[s] # "none"
      BY <1>0, <1>12 DEF EnqueueFails, RequestOfRows, TypeOK
    <2>2. \A x \in Submission \ request[r].todo : job'[x] = job[x]
      BY <1>0, <1>12, <2>1 DEF EnqueueFails, Add, Requeue, TypeOK
    <2> QED BY <1>1, <2>1, <2>2
  <1> QED BY <1>4, <1>5, <1>6, <1>7, <1>8, <1>9, <1>10, <1>11, <1>12 DEF Next, RequestStep

(* The rescues take the rows they have read, which were there.             *)
LEMMA RequestRowsNext ==
  ASSUME IInv, RequestOfRows, [Next]_vars
  PROVE  RequestOfRows'
  <1>0. /\ request \in [Request -> [op : {"none", "save", "add", "stuck", "requeued", "review"},
                                    todo : SUBSET Submission]]
        /\ status \in [Submission -> Status]
    BY DEF IInv, TypeOK
  <1>1. \A s \in Submission : status[s] # "none" => status'[s] # "none"
    BY RowStays
  <1>2. CASE UNCHANGED request
    BY <1>0, <1>1, <1>2 DEF RequestOfRows
  <1>3. ASSUME NEW r \in Request, \A q \in Request : q # r => request'[q] = request[q],
               request'[r].op \in {"add", "stuck", "requeued"} =>
                  \A s \in request'[r].todo : status'[s] # "none",
               request'[r].op = "requeued" => \A s, t \in request'[r].todo : s = t
        PROVE  RequestOfRows'
    BY <1>0, <1>1, <1>3 DEF RequestOfRows
  <1>4. ASSUME NEW r \in Request, request' = [request EXCEPT ![r] = NoRequest]
        PROVE  RequestOfRows'
    <2>1. /\ \A q \in Request : q # r => request'[q] = request[q]
          /\ request'[r].op = "none"
      BY <1>0, <1>4 DEF NoRequest
    <2> QED BY <1>3, <2>1
  <1>5. ASSUME NEW r \in Request,
               StartRead(r) \/ \E s \in Submission : ReviewRead(r, s)
        PROVE  RequestOfRows'
    <2>1. /\ \A q \in Request : q # r => request'[q] = request[q]
          /\ request'[r].op \in {"save", "review"}
      BY <1>0, <1>5 DEF StartRead, ReviewRead, Press
    <2> QED BY <1>3, <2>1
  <1>6. ASSUME NEW r \in Request, StuckRead(r) PROVE RequestOfRows'
    <2> DEFINE stuck == {s \in Submission : status[s] = "ai_grading"}
    <2>1. request' = [request EXCEPT ![r] = [op |-> "stuck", todo |-> stuck]]
      BY <1>6 DEF StuckRead, Press
    <2>2. \A s \in stuck : status'[s] # "none"
      BY <1>1
    <2> HIDE DEF stuck
    <2>3. /\ \A q \in Request : q # r => request'[q] = request[q]
          /\ request'[r].op = "stuck" /\ request'[r].todo = stuck
      BY <1>0, <2>1
    <2> QED BY <1>3, <2>2, <2>3
  <1>7. ASSUME NEW r \in Request, NEW s \in Submission, RegradeRequeue(r, s)
        PROVE  RequestOfRows'
    <2>1. /\ \A q \in Request : q # r => request'[q] = request[q]
          /\ request'[r].todo = {s}
      BY <1>0, <1>7 DEF RegradeRequeue, Press
    <2>2. status'[s] # "none"
      BY <1>1, <1>7 DEF RegradeRequeue, CanRegrade
    <2> QED BY <1>3, <2>1, <2>2
  <1>8. ASSUME NEW r \in Request, StartSave(r) PROVE RequestOfRows'
    <2>1. /\ status' = Statuses(request[r].todo, "ai_grading")
          /\ request' = [request EXCEPT ![r] = [op |-> "add", todo |-> request[r].todo]]
      BY <1>8 DEF StartSave
    <2>2. \A s \in request[r].todo : status'[s] # "none"
      BY <1>0, <2>1 DEF Statuses
    <2>3. /\ \A q \in Request : q # r => request'[q] = request[q]
          /\ request'[r].op = "add" /\ request'[r].todo = request[r].todo
      BY <1>0, <2>1
    <2> QED BY <1>3, <2>2, <2>3
  <1>9. ASSUME NEW r \in Request, StuckEnqueue(r) PROVE RequestOfRows'
    <2>1. PICK s \in request[r].todo :
             request' = [request EXCEPT ![r] = IF request[r].todo \ {s} = {} THEN NoRequest
                            ELSE [op |-> "stuck", todo |-> request[r].todo \ {s}]]
      BY <1>9 DEF StuckEnqueue
    <2>2. \A t \in request[r].todo \ {s} : status'[t] # "none"
      BY <1>0, <1>1, <1>9 DEF RequestOfRows, StuckEnqueue
    <2>3. CASE request[r].todo \ {s} = {}
      BY <1>4, <1>9, <2>1, <2>3
    <2>4. CASE request[r].todo \ {s} # {}
      <3>1. /\ \A q \in Request : q # r => request'[q] = request[q]
            /\ request'[r].op = "stuck" /\ request'[r].todo = request[r].todo \ {s}
        BY <1>0, <2>1, <2>4
      <3> QED BY <1>3, <2>2, <3>1
    <2> QED BY <2>3, <2>4
  <1>10. ASSUME NEW r \in Request,
                \/ SaveFails(r) \/ StartEnqueue(r) \/ RegradeEnqueue(r) \/ EnqueueFails(r)
                \/ ReviewWrite(r)
         PROVE  RequestOfRows'
    BY <1>4, <1>10 DEF SaveFails, StartEnqueue, RegradeEnqueue, EnqueueFails, ReviewWrite
  <1>11. CASE Crash
    BY <1>11 DEF Crash, RequestOfRows, NoRequest
  <1>12. ASSUME NEW s \in Submission, NEW c \in Slot, CallStep(s, c) \/ CallFails(s, c)
         PROVE  RequestOfRows'
    <2>1. UNCHANGED request
      BY <1>12 DEF CallStep, CallFails, WriteScore, Flag, StartAttempt, FinishGraded,
                   FinishUngradable, FinishStale, Throw, teacher
    <2> QED BY <1>2, <2>1
  <1>13. CASE \/ \E s \in Submission :
                    \/ Take(s) \/ Timeout(s) \/ Complete(s) \/ MarkUngradable(s)
                    \/ MarkFails(s) \/ SetManualScore(s) \/ SetErrorException(s)
                    \/ RecordAudit(s)
              \/ ChangeRules \/ ConfirmGroup \/ FinalizeRead \/ FinalizeCommit
              \/ UNCHANGED vars
    <2>1. UNCHANGED request
      BY <1>13 DEF Take, Timeout, Complete, MarkUngradable, MarkFails, SetManualScore,
                   SetErrorException, RecordAudit, ChangeRules, ConfirmGroup, FinalizeRead,
                   FinalizeCommit, teacher, vars
    <2> QED BY <1>2, <2>1
  <1> QED BY <1>5, <1>6, <1>7, <1>8, <1>9, <1>10, <1>11, <1>12, <1>13
          DEF Next, RequestStep

LEMMA WorkInvNext ==
  ASSUME IInv, WorkInv, [Next]_vars
  PROVE  WorkInv'
  BY FlagNext, JobNext, RequestRowsNext DEF WorkInv

LEMMA WorkInvInit == Init => WorkInv
  BY DEF Init, WorkInv, FlagOnScore, JobOfRow, RequestOfRows, Idle, NoRequest, NoJob

THEOREM WorkAgrees == Spec => []WorkInv
  BY WorkInvInit, WorkInvNext, Invariant, PTL DEF Spec

-----------------------------------------------------------------------------
(* What a step leaves of a row that is owed.                               *)

SameWork(x) == job'[x] = job[x] /\ call'[x] = call[x] /\ failures'[x] = failures[x]
KeepsStatus(x) == status'[x] = status[x] \/ ~Unfinished(x)'
KeepsClaims(x) == \A r \in Request : Claims(r, x) => Claims(r, x)'

LEMMA StillOwed ==
  ASSUME NEW x \in Submission, SameWork(x), KeepsStatus(x), KeepsClaims(x)
  PROVE  Abandoned(x)' => Abandoned(x)
  BY DEF SameWork, KeepsStatus, KeepsClaims, Abandoned, Unfinished, Owed

(* A step that takes no call from its flag leaves an `ai_graded` row owed. *)
LEMMA StillFlagged ==
  ASSUME NEW x \in Submission, status'[x] = status[x],
         status[x] = "ai_grading" => Owed(x)' \/ Abandoned(x),
         \A c \in Slot : call[x][c].step = "flag" => \E d \in Slot : call'[x][d].step = "flag"
  PROVE  Abandoned(x)' => Abandoned(x)
  BY DEF Abandoned, Unfinished, Owed

LEMMA SameClaims ==
  ASSUME UNCHANGED request, NEW x \in Submission, job[x] = NoJob => job'[x] = NoJob
  PROVE  KeepsClaims(x)
  BY DEF KeepsClaims, Claims

(* A teacher's step judges rows the AI has finished.                       *)
LEMMA TeacherKeeps ==
  ASSUME IInv, NEW x \in Submission,
         \/ \E s \in Submission : SetManualScore(s) \/ SetErrorException(s) \/ RecordAudit(s)
         \/ ChangeRules \/ ConfirmGroup \/ FinalizeRead \/ FinalizeCommit
  PROVE  Abandoned(x)' => Abandoned(x)
  <1>0. TypeOK
    BY DEF IInv
  <1>1. UNCHANGED workers /\ UNCHANGED request
    BY DEF SetManualScore, SetErrorException, RecordAudit, ChangeRules, ConfirmGroup,
           FinalizeRead, FinalizeCommit, teacher
  <1>2. SameWork(x) /\ KeepsClaims(x)
    BY <1>1, SameClaims DEF SameWork, workers
  <1>3. ASSUME NEW S, status' = Judged(S) PROVE KeepsStatus(x)
    BY <1>0, <1>3, JudgedAt DEF KeepsStatus, Unfinished
  <1>4. ASSUME NEW scope, NEW outcome \in [scope -> {"auto", "flagged", "floor"}],
               NEW after, after[x] = status[x] \/ after[x] = "teacher_reviewed",
               Recompute(outcome, after)
        PROVE  KeepsStatus(x)
    BY <1>4 DEF Recompute, KeepsStatus, Unfinished
  <1>5. CASE \/ \E s \in Submission : SetManualScore(s) \/ SetErrorException(s)
             \/ ConfirmGroup
    <2>1. \E S : status' = Judged(S)
      BY <1>5 DEF SetManualScore, SetErrorException, ConfirmGroup
    <2> QED BY <1>2, <1>3, <2>1, StillOwed
  <1>6. CASE ChangeRules
    <2>1. \E scope \in SUBSET Recomputable : \E outcome \in [scope -> {"auto", "flagged", "floor"}] :
             Recompute(outcome, status)
      BY <1>6 DEF ChangeRules
    <2> QED BY <1>2, <1>4, <2>1, StillOwed
  <1>7. ASSUME NEW s \in Submission, RecordAudit(s) PROVE KeepsStatus(x)
    <2> DEFINE after == Statuses({s}, "teacher_reviewed")
    <2>1. PICK scope \in SUBSET (Recomputable \ {s}) :
             \E outcome \in [scope -> {"flagged", "floor"}] : Recompute(outcome, after)
      BY <1>7 DEF RecordAudit
    <2>2. PICK outcome \in [scope -> {"flagged", "floor"}] : Recompute(outcome, after)
      BY <2>1
    <2>3. outcome \in [scope -> {"auto", "flagged", "floor"}]
      BY <2>2
    <2>4. after[x] = status[x] \/ after[x] = "teacher_reviewed"
      BY DEF Statuses
    <2> HIDE DEF after
    <2> QED BY <1>4, <2>2, <2>3, <2>4
  <1>8. CASE FinalizeRead \/ FinalizeCommit
    <2>1. status' = status \/ \E S : status' = Statuses(S, "finalized")
      BY <1>8 DEF FinalizeRead, FinalizeCommit, rows
    <2>2. KeepsStatus(x)
      BY <1>0, <2>1, StatusesAt DEF KeepsStatus, Unfinished
    <2> QED BY <1>2, <2>2, StillOwed
  <1> QED BY <1>2, <1>5, <1>6, <1>7, <1>8, StillOwed

(* A worker's step is about one submission, and stays there.               *)
LEMMA OtherOwed ==
  ASSUME IInv, NEW s \in Submission, NEW x \in Submission, x # s, KeepsStatus(x),
         UNCHANGED request, job'[x] = job[x], call'[x] = call[x], failures'[x] = failures[x]
  PROVE  Abandoned(x)' => Abandoned(x)
  BY SameClaims, StillOwed DEF SameWork

(* A failed attempt leaves a job to be taken, or a listener to conclude.   *)
LEMMA FailedIsOwed ==
  ASSUME TypeOK, NEW s \in Submission, NEW permanent \in BOOLEAN, FailJob(s, permanent)
  PROVE  /\ job'[s].state = "waiting" \/ failures'[s] > 0
         /\ \A x \in Submission : x # s => job'[x] = job[x] /\ failures'[x] = failures[x]
  <1>1. failures[s] \in Nat /\ job[s].tries \in Nat
    BY DEF TypeOK
  <1>2. CASE permanent \/ job[s].tries + 1 >= Tries
    BY <1>1, <1>2 DEF FailJob, TypeOK
  <1>3. CASE ~(permanent \/ job[s].tries + 1 >= Tries)
    BY <1>1, <1>3 DEF FailJob, TypeOK
  <1> QED BY <1>2, <1>3

(* A call that throws anywhere but between its two writes.                 *)
LEMMA ThrowKeeps ==
  ASSUME TypeOK, NEW s \in Submission, NEW c \in Slot, NEW permanent \in BOOLEAN,
         Throw(s, c, permanent), call[s][c].step # "flag", NEW x \in Submission
  PROVE  Abandoned(x)' => Abandoned(x)
  <1>0. /\ UNCHANGED <<status, request>>
        /\ call' = [call EXCEPT ![s][c] = Idle]
        /\ call \in [Submission -> [Slot -> [step : Step, attempt : Nat]]]
    BY DEF Throw, rows, teacher, TypeOK, Step
  <1>1. \A d \in Slot : call[x][d].step = "flag" => call'[x][d] = call[x][d]
    BY <1>0
  <1>2. CASE c = "live"
    <2>1. FailJob(s, permanent)
      BY <1>2 DEF Throw
    <2>2. CASE x = s
      <3>1. status[x] = "ai_grading" => Owed(x)'
        BY <1>0, <2>1, <2>2, FailedIsOwed DEF Owed
      <3> QED BY <1>0, <1>1, <3>1, StillFlagged
    <2>3. CASE x # s
      <3>1. SameWork(x)
        BY <1>0, <2>1, <2>3, FailedIsOwed DEF SameWork
      <3>2. KeepsClaims(x)
        BY <1>0, <3>1, SameClaims DEF SameWork
      <3> QED BY <1>0, <3>1, <3>2, StillOwed DEF KeepsStatus
    <2> QED BY <2>2, <2>3
  <1>3. CASE c # "live"
    <2>1. UNCHANGED <<job, failures>> /\ call'[x]["live"] = call[x]["live"]
      BY <1>0, <1>3 DEF Throw, Slot
    <2>2. KeepsClaims(x)
      BY <1>0, <2>1, SameClaims
    <2>3. status[x] = "ai_grading" => Owed(x)' \/ Abandoned(x)
      BY <1>0, <2>1, <2>2 DEF KeepsClaims, Owed, Abandoned, Unfinished
    <2> QED BY <1>0, <1>1, <2>3, StillFlagged
  <1> QED BY <1>2, <1>3

(* The steps of a call.                                                    *)
LEMMA CallOwed ==
  ASSUME IInv, WorkInv, NEW s \in Submission, NEW c \in Slot, CallStep(s, c),
         NEW x \in Submission
  PROVE  Abandoned(x)' => Abandoned(x)
  <1>0. /\ TypeOK /\ RowAgrees(s)
        /\ call \in [Submission -> [Slot -> [step : Step, attempt : Nat]]]
        /\ Slot = {"live", "stray"}
    BY DEF IInv, TypeOK, Step, Slot
  <1>1. ASSUME NEW step, NEW n, Goto(s, c, step, n)
        PROVE  /\ \A d \in Slot : call'[s][d].step = IF d = c THEN step ELSE call[s][d].step
               /\ x # s => call'[x] = call[x]
    BY <1>0, <1>1 DEF Goto
  <1>2. ASSUME Return(s, c)
        PROVE  /\ \A d \in Slot : d # c => call'[s][d].step = call[s][d].step
               /\ x # s => call'[x] = call[x]
    BY <1>1, <1>2 DEF Return
  <1>3. ASSUME x # s, KeepsStatus(x), UNCHANGED <<request, job, failures>>,
               Return(s, c) \/ \E step, n : Goto(s, c, step, n)
        PROVE  Abandoned(x)' => Abandoned(x)
    BY <1>1, <1>2, <1>3, OtherOwed
  <1>4. ASSUME status[s] # "ai_grading", status' = status, call[s][c].step # "flag",
               UNCHANGED <<request, job, failures>>, Return(s, c)
        PROVE  Abandoned(x)' => Abandoned(x)
    <2>1. CASE x = s
      BY <1>2, <1>4, <2>1, StillFlagged
    <2>2. CASE x # s
      BY <1>3, <1>4, <2>2 DEF KeepsStatus
    <2> QED BY <2>1, <2>2
  <1>5. CASE WriteScore(s, c)
    <2>1. call[s][c].step = "model" /\ UNCHANGED <<request, job, failures>>
      BY <1>5 DEF WriteScore, teacher
    <2>2. CASE status[s] = "ai_grading"
      <3>1. status' = Statuses({s}, "ai_graded") /\ Goto(s, c, "flag", 0)
        BY <1>5, <2>2 DEF WriteScore
      <3>2. CASE x = s
        <4>1. status'[x] = "ai_graded" /\ call'[x][c].step = "flag"
          BY <1>0, <1>1, <3>1, <3>2, StatusesAt
        <4> QED BY <4>1 DEF Abandoned, Owed
      <3>3. CASE x # s
        <4>1. KeepsStatus(x)
          BY <3>1, <3>3 DEF Statuses, KeepsStatus
        <4> QED BY <1>3, <2>1, <3>1, <3>3, <4>1
      <3> QED BY <3>2, <3>3
    <2>3. CASE status[s] # "ai_grading"
      <3>1. Return(s, c) /\ status' = status
        BY <1>5, <2>3 DEF WriteScore
      <3> QED BY <1>4, <2>1, <2>3, <3>1
    <2> QED BY <2>2, <2>3
  <1>6. CASE Flag(s, c)
    <2>1. call[s][c].step = "flag" /\ Return(s, c) /\ UNCHANGED <<request, job, failures>>
      BY <1>6 DEF Flag, teacher
    <2>2. status'[x] = IF x = s /\ status[x] = "ai_graded" THEN "flagged_for_review"
                                                          ELSE status[x]
      BY <1>6 DEF Flag, Statuses
    <2>3. CASE x = s
      <3>1. status[x] # "ai_grading"
        BY <1>0, <2>1, <2>3 DEF WorkInv, FlagOnScore, RowAgrees
      <3> QED BY <2>2, <2>3, <3>1 DEF Abandoned, Unfinished
    <2>4. CASE x # s
      BY <1>3, <2>1, <2>2, <2>4 DEF KeepsStatus
    <2> QED BY <2>3, <2>4
  <1>7. CASE StartAttempt(s, c)
    <2>1. call[s][c].step = "start" /\ status' = status /\ UNCHANGED <<request, job, failures>>
      BY <1>7 DEF StartAttempt, teacher
    <2>2. CASE status[s] # "ai_grading"
      <3>1. Return(s, c)
        BY <1>7, <2>2 DEF StartAttempt
      <3> QED BY <1>4, <2>1, <2>2, <3>1
    <2>3. CASE status[s] = "ai_grading"
      <3>1. PICK n : Goto(s, c, "investigate", n)
        BY <1>7, <2>3 DEF StartAttempt
      <3>2. CASE x = s
        <4>1. /\ call'[x]["live"].step = call[x]["live"].step
                 \/ call'[x]["live"].step = "investigate"
          BY <1>0, <1>1, <3>1, <3>2
        <4>2. KeepsClaims(x)
          BY <2>1, SameClaims
        <4>3. Abandoned(x)' => Abandoned(x)
          BY <2>1, <2>3, <3>2, <4>1, <4>2 DEF KeepsClaims, Abandoned, Unfinished, Owed
        <4> QED BY <4>3
      <3>3. CASE x # s
        BY <1>3, <2>1, <3>1, <3>3 DEF KeepsStatus
      <3> QED BY <3>2, <3>3
    <2> QED BY <2>2, <2>3
  <1>8. CASE \/ \E first \in {"auto_approved", "audit_pending", "flagged_for_review"} :
                   FinishGraded(s, c, first)
             \/ \E why \in {"system", "submission"} : FinishUngradable(s, c, why)
    <2>1. Return(s, c) /\ UNCHANGED <<request, job, failures>>
      BY <1>8 DEF FinishGraded, FinishUngradable, teacher
    <2>2. /\ x # s => KeepsStatus(x)
          /\ x = s => ~Unfinished(x)'
      <3>1. ASSUME NEW first \in {"auto_approved", "audit_pending", "flagged_for_review"},
                   FinishGraded(s, c, first)
            PROVE  status'[x] = "audit_pending" \/ status'[x] = IF x = s THEN first ELSE status[x]
        BY <3>1 DEF FinishGraded, Statuses
      <3>2. ASSUME NEW why, FinishUngradable(s, c, why)
            PROVE  status'[x] = IF x = s THEN "flagged_for_review" ELSE status[x]
        BY <3>2 DEF FinishUngradable, Statuses
      <3> QED BY <1>8, <3>1, <3>2 DEF KeepsStatus, Unfinished
    <2> QED BY <1>3, <2>1, <2>2 DEF Abandoned
  <1>9. CASE FinishStale(s, c)
    BY <1>0, <1>9, ThrowKeeps DEF FinishStale
  <1> QED BY <1>5, <1>6, <1>7, <1>8, <1>9 DEF CallStep

(* The processor's steps, but for a listener that loses its write.         *)
LEMMA WorkerOwed ==
  ASSUME IInv, NEW s \in Submission, NEW x \in Submission,
         Take(s) \/ Timeout(s) \/ Complete(s) \/ MarkUngradable(s)
  PROVE  Abandoned(x)' => Abandoned(x)
  <1>0. /\ TypeOK /\ RowAgrees(s)
        /\ call \in [Submission -> [Slot -> [step : Step, attempt : Nat]]]
        /\ Slot = {"live", "stray"} /\ UNCHANGED request
    BY DEF IInv, TypeOK, Step, Slot, Take, Timeout, Complete, MarkUngradable, teacher
  <1>1. CASE Take(s)
    <2>1. /\ status' = status /\ UNCHANGED failures
          /\ job[s].state = "waiting" /\ job' = [job EXCEPT ![s].state = "active"]
          /\ \E step \in {"returned", "start", "model"} :
                Goto(s, "live", step, 0) /\ (step = "returned" => s \in scored)
      BY <1>1 DEF Take, rows
    <2>2. CASE x = s
      <3>1. PICK step \in {"returned", "start", "model"} :
                Goto(s, "live", step, 0) /\ (step = "returned" => s \in scored)
        BY <2>1
      <3>2. /\ call'[s]["live"].step = step /\ call'[s]["stray"] = call[s]["stray"]
            /\ job'[s].state = "active"
        BY <1>0, <2>1, <3>1 DEF Goto, TypeOK
      <3>3. status[s] = "ai_grading" => Owed(s)'
        BY <1>0, <2>1, <3>1, <3>2 DEF RowAgrees, Owed
      <3>4. call[s]["live"].step = "idle"
        <4>1. call[s]["live"] = Idle
          BY <1>0, <2>1 DEF TypeOK
        <4> QED BY <4>1 DEF Idle
      <3> QED BY <1>0, <2>1, <2>2, <3>2, <3>3, <3>4, StillFlagged
    <2>3. CASE x # s
      <3>1. call'[x] = call[x] /\ job'[x] = job[x]
        BY <1>0, <2>1, <2>3 DEF Goto, TypeOK
      <3> QED BY <1>0, <2>1, <2>3, <3>1, OtherOwed DEF KeepsStatus
    <2> QED BY <2>2, <2>3
  <1>2. CASE Timeout(s)
    <2>1. /\ status' = status /\ FailJob(s, FALSE) /\ call[s]["stray"] = Idle
          /\ call' = [call EXCEPT ![s] = [live |-> Idle, stray |-> call[s]["live"]]]
      BY <1>2 DEF Timeout, rows
    <2>2. CASE x = s
      <3>1. status[x] = "ai_grading" => Owed(x)'
        BY <1>0, <2>1, <2>2, FailedIsOwed DEF Owed
      <3>2. call[s]["stray"].step # "flag" /\ call'[s]["stray"] = call[s]["live"]
        BY <1>0, <2>1 DEF Idle
      <3> QED BY <1>0, <2>1, <2>2, <3>1, <3>2, StillFlagged
    <2>3. CASE x # s
      <3>1. call'[x] = call[x] /\ job'[x] = job[x] /\ failures'[x] = failures[x]
        BY <1>0, <2>1, <2>3, FailedIsOwed
      <3> QED BY <1>0, <2>1, <2>3, <3>1, OtherOwed DEF KeepsStatus
    <2> QED BY <2>2, <2>3
  <1>3. CASE Complete(s)
    <2>1. /\ status' = status /\ UNCHANGED failures
          /\ call[s]["live"].step = "returned"
          /\ call' = [call EXCEPT ![s]["live"] = Idle]
          /\ job' = [job EXCEPT ![s].state = "completed"]
      BY <1>3 DEF Complete, rows
    <2>2. CASE x = s
      <3>1. job[s].state = "active"
        BY <1>0, <2>1 DEF TypeOK, Idle
      <3>2. KeepsClaims(s)
        BY <1>0, <3>1, SameClaims DEF NoJob
      <3>3. status[s] = "ai_grading" => Owed(s)' \/ Abandoned(s)
        BY <1>0, <2>1, <3>1, <3>2 DEF KeepsClaims, Owed, Abandoned, Unfinished
      <3>4. call'[s]["stray"] = call[s]["stray"]
        BY <1>0, <2>1
      <3> QED BY <1>0, <2>1, <2>2, <3>3, <3>4, StillFlagged
    <2>3. CASE x # s
      <3>1. call'[x] = call[x] /\ job'[x] = job[x]
        BY <1>0, <2>1, <2>3 DEF TypeOK
      <3> QED BY <1>0, <2>1, <2>3, <3>1, OtherOwed DEF KeepsStatus
    <2> QED BY <2>2, <2>3
  <1>4. CASE MarkUngradable(s)
    <2>1. /\ UNCHANGED <<job, call>> /\ failures' = [failures EXCEPT ![s] = @ - 1]
          /\ status' = IF status[s] = "ai_grading" THEN Statuses({s}, "flagged_for_review")
                                                   ELSE status
      BY <1>4 DEF MarkUngradable
    <2>2. CASE x = s
      <3>1. CASE status[s] = "ai_grading"
        <4>1. status'[x] = "flagged_for_review"
          BY <2>1, <2>2, <3>1 DEF Statuses
        <4> QED BY <4>1 DEF Abandoned, Unfinished
      <3>2. CASE status[s] # "ai_grading"
        BY <2>1, <2>2, <3>2, StillFlagged
      <3> QED BY <3>1, <3>2
    <2>3. CASE x # s
      <3>1. failures'[x] = failures[x] /\ KeepsStatus(x)
        BY <1>0, <2>1, <2>3 DEF TypeOK, Statuses, KeepsStatus
      <3> QED BY <1>0, <2>1, <2>3, <3>1, OtherOwed
    <2> QED BY <2>2, <2>3
  <1> QED BY <1>1, <1>2, <1>3, <1>4

(* Where an action of NeverAbandoned's list leaves the other rows.         *)
LEMMA LostOwed ==
  ASSUME IInv, NEW s \in Submission, NEW x \in Submission,
         \/ MarkFails(s) /\ x # s
         \/ \E c \in Slot : CallFails(s, c) /\ (x # s \/ call[s][c].step # "flag")
  PROVE  Abandoned(x)' => Abandoned(x)
  <1>0. TypeOK
    BY DEF IInv
  <1>1. CASE MarkFails(s) /\ x # s
    <2>1. /\ UNCHANGED <<status, job, call, request>> /\ failures'[x] = failures[x]
      BY <1>0, <1>1 DEF MarkFails, rows, teacher, TypeOK
    <2> QED BY <1>1, <2>1, OtherOwed DEF KeepsStatus
  <1>2. ASSUME NEW c \in Slot, CallFails(s, c), call[s][c].step # "flag"
        PROVE  Abandoned(x)' => Abandoned(x)
    BY <1>0, <1>2, ThrowKeeps DEF CallFails
  <1>3. ASSUME NEW c \in Slot, CallFails(s, c), x # s
        PROVE  Abandoned(x)' => Abandoned(x)
    <2>1. PICK permanent \in BOOLEAN : Throw(s, c, permanent)
      BY <1>3 DEF CallFails
    <2>2. UNCHANGED <<status, request>> /\ call'[x] = call[x]
      BY <1>0, <1>3, <2>1 DEF Throw, rows, teacher, TypeOK
    <2>3. job'[x] = job[x] /\ failures'[x] = failures[x]
      BY <1>0, <1>3, <2>1, FailedIsOwed DEF Throw
    <2> QED BY <1>3, <2>2, <2>3, OtherOwed DEF KeepsStatus
  <1> QED BY <1>1, <1>2, <1>3

(* The requests: what one has read it sees to, unless it trusts a job      *)
(* whose call is back already, or fails.                                   *)
LEMMA RequestOwed ==
  ASSUME IInv, WorkInv, NEW r \in Request, NEW x \in Submission,
         \/ StartRead(r) \/ StuckRead(r) \/ RequestStep(r)
         \/ \E s \in Submission : RegradeRequeue(r, s) \/ ReviewRead(r, s),
         Abandoned(x)'
  PROVE  \/ Abandoned(x)
         \/ /\ call[x]["live"].step = "returned"
            /\ StuckEnqueue(r) \/ RegradeEnqueue(r)
         \/ (SaveFails(r) \/ EnqueueFails(r)) /\ x \in request[r].todo
  <1>0. /\ TypeOK /\ JobOfRow /\ RequestOfRows
        /\ request \in [Request -> [op : {"none", "save", "add", "stuck", "requeued", "review"},
                                    todo : SUBSET Submission]]
        /\ UNCHANGED <<call, failures>>
    BY DEF IInv, WorkInv, TypeOK, StartRead, StuckRead, RequestStep, StartSave, SaveFails,
           StartEnqueue, StuckEnqueue, RegradeEnqueue, EnqueueFails, ReviewWrite,
           RegradeRequeue, ReviewRead, workers
  <1>1. ASSUME ~Claims(r, x), \A q \in Request : q # r => request'[q] = request[q],
               job'[x] = job[x], KeepsStatus(x)
        PROVE  Abandoned(x)
    <2>1. KeepsClaims(x)
      BY <1>1 DEF KeepsClaims, Claims
    <2> QED BY <1>0, <1>1, <2>1, StillOwed DEF SameWork
  <1>2. ASSUME status'[x] = "ai_grading" PROVE ~Owed(x)'
    BY <1>2 DEF Abandoned
  <1>3. ASSUME request[r].op \in {"none", "save", "review"} PROVE ~Claims(r, x)
    BY <1>3 DEF Claims
  <1>4. CASE StartRead(r) \/ StuckRead(r) \/ \E s \in Submission : ReviewRead(r, s)
    <2>1. /\ request[r] = NoRequest /\ \E what : request' = [request EXCEPT ![r] = what]
          /\ UNCHANGED <<status, job>>
      BY <1>4 DEF StartRead, StuckRead, ReviewRead, Press, rows, workers
    <2>2. request[r].op = "none"
      BY <2>1 DEF NoRequest
    <2>3. \A q \in Request : q # r => request'[q] = request[q]
      BY <1>0, <2>1
    <2> QED BY <1>1, <1>3, <2>1, <2>2, <2>3 DEF KeepsStatus
  <1>5. ASSUME NEW s \in Submission, RegradeRequeue(r, s) PROVE Abandoned(x)
    <2>1. /\ request[r] = NoRequest /\ UNCHANGED job
          /\ request' = [request EXCEPT ![r] = [op |-> "requeued", todo |-> {s}]]
          /\ status' = Statuses({s}, "ai_grading")
      BY <1>5 DEF RegradeRequeue, Press, workers
    <2>2. CASE x = s
      <3>1. request'[r] = [op |-> "requeued", todo |-> {s}] /\ status'[x] = "ai_grading"
        BY <1>0, <2>1, <2>2 DEF Statuses
      <3>2. Claims(r, x)'
        BY <2>2, <3>1 DEF Claims
      <3> QED BY <1>2, <3>1, <3>2 DEF Owed
    <2>3. CASE x # s
      <3>1. request[r].op = "none"
        BY <2>1 DEF NoRequest
      <3>2. \A q \in Request : q # r => request'[q] = request[q]
        BY <1>0, <2>1
      <3>3. KeepsStatus(x)
        BY <2>1, <2>3 DEF KeepsStatus, Statuses
      <3> QED BY <1>1, <1>3, <2>1, <3>1, <3>2, <3>3
    <2> QED BY <2>2, <2>3
  <1>6. CASE StartSave(r)
    <2> DEFINE todo == request[r].todo
    <2>1. /\ request[r].op = "save" /\ UNCHANGED job
          /\ \A q \in Request : q # r => request'[q] = request[q]
      BY <1>0, <1>6 DEF StartSave, workers
    <2>2. CASE status'[x] = status[x]
      BY <1>1, <1>3, <2>1, <2>2 DEF KeepsStatus
    <2>3. CASE status'[x] # status[x]
      <3>1. /\ \A s \in todo : status[s] = "none"
            /\ status' = Statuses(todo, "ai_grading")
            /\ request' = [request EXCEPT ![r] = [op |-> "add", todo |-> todo]]
        BY <1>6 DEF StartSave
      <3>2. x \in todo /\ status'[x] = "ai_grading" /\ status[x] = "none"
        BY <2>3, <3>1 DEF Statuses
      <3>3. job'[x] = NoJob
        BY <1>0, <2>1, <3>2 DEF JobOfRow
      <3>4. request'[r].op = "add" /\ request'[r].todo = todo
        BY <1>0, <3>1
      <3>5. Claims(r, x)'
        BY <3>2, <3>3, <3>4 DEF Claims
      <3> QED BY <1>2, <3>2, <3>5 DEF Owed
    <2> QED BY <2>2, <2>3
  <1>7. ASSUME UNCHANGED status, job'[x] = NewJob PROVE Abandoned(x)
    <2>1. status[x] = "ai_grading" => Owed(x)'
      BY <1>7 DEF Owed, NewJob
    <2> QED BY <1>0, <1>7, <2>1, StillFlagged
  <1>8. CASE StartEnqueue(r)
    <2>1. /\ request[r].op = "add" /\ UNCHANGED status
          /\ \A q \in Request : q # r => request'[q] = request[q]
          /\ job'[x] = IF x \in request[r].todo /\ job[x] = NoJob THEN NewJob ELSE job[x]
      BY <1>0, <1>8 DEF StartEnqueue, Add, rows
    <2>2. CASE x \in request[r].todo /\ job[x] = NoJob
      BY <1>7, <2>1, <2>2
    <2>3. CASE ~(x \in request[r].todo /\ job[x] = NoJob)
      <3>1. ~Claims(r, x)
        BY <2>1, <2>3 DEF Claims
      <3> QED BY <1>1, <2>1, <2>3, <3>1 DEF KeepsStatus
    <2> QED BY <2>2, <2>3
  <1>9. ASSUME Requeue(x), UNCHANGED status, call[x]["live"].step # "returned"
        PROVE  Abandoned(x)
    <2>1. CASE IsLive(x)
      <3>1. status[x] = "ai_grading" => Owed(x)'
        BY <1>0, <1>9, <2>1 DEF Requeue, IsLive, Owed
      <3> QED BY <1>0, <1>9, <3>1, StillFlagged
    <2>2. CASE ~IsLive(x)
      <3>1. job'[x] = NewJob
        BY <1>0, <1>9, <2>2 DEF Requeue, TypeOK
      <3> QED BY <1>7, <1>9, <3>1
    <2> QED BY <2>1, <2>2
  <1>10. ASSUME StuckEnqueue(r), call[x]["live"].step # "returned" PROVE Abandoned(x)
    <2>1. PICK s \in request[r].todo :
             /\ Requeue(s)
             /\ request' = [request EXCEPT ![r] = IF request[r].todo \ {s} = {} THEN NoRequest
                               ELSE [op |-> "stuck", todo |-> request[r].todo \ {s}]]
      BY <1>10 DEF StuckEnqueue
    <2>2. UNCHANGED status /\ request[r].op = "stuck"
      BY <1>10 DEF StuckEnqueue, rows
    <2>3. CASE x = s
      BY <1>9, <1>10, <2>1, <2>2, <2>3
    <2>4. CASE x # s
      <3>1. job'[x] = job[x]
        BY <1>0, <2>1, <2>4 DEF Requeue, TypeOK
      <3>2. \A q \in Request : q # r => request'[q] = request[q]
        BY <1>0, <2>1
      <3>3. ASSUME x \in request[r].todo
            PROVE  request'[r].op = "stuck" /\ x \in request'[r].todo
        BY <1>0, <2>1, <2>4, <3>3
      <3>4. KeepsClaims(x)
        BY <3>1, <3>2, <3>3 DEF KeepsClaims, Claims
      <3> QED BY <1>0, <2>2, <3>1, <3>4, StillOwed DEF SameWork, KeepsStatus
    <2> QED BY <2>3, <2>4
  <1>11. ASSUME RegradeEnqueue(r), call[x]["live"].step # "returned" PROVE Abandoned(x)
    <2>1. PICK s \in request[r].todo : Requeue(s)
      BY <1>11 DEF RegradeEnqueue
    <2>2. /\ UNCHANGED status /\ request[r].op = "requeued"
          /\ \A q \in Request : q # r => request'[q] = request[q]
      BY <1>0, <1>11 DEF RegradeEnqueue, rows
    <2>3. CASE x = s
      BY <1>9, <1>11, <2>1, <2>2, <2>3
    <2>4. CASE x # s
      <3>1. ~Claims(r, x)
        BY <1>0, <2>1, <2>2, <2>4 DEF Claims, RequestOfRows
      <3>2. job'[x] = job[x]
        BY <1>0, <2>1, <2>4 DEF Requeue, TypeOK
      <3> QED BY <1>1, <2>2, <3>1, <3>2 DEF KeepsStatus
    <2> QED BY <2>3, <2>4
  <1>12. CASE ReviewWrite(r)
    <2>1. /\ request[r].op = "review" /\ UNCHANGED job
          /\ status' = Judged(request[r].todo)
          /\ \A q \in Request : q # r => request'[q] = request[q]
      BY <1>0, <1>12 DEF ReviewWrite, workers
    <2>2. KeepsStatus(x)
      BY <1>0, <2>1, JudgedAt DEF KeepsStatus, Unfinished
    <2> QED BY <1>1, <1>3, <2>1, <2>2
  <1>13. ASSUME SaveFails(r) \/ EnqueueFails(r), x \notin request[r].todo PROVE Abandoned(x)
    <2>1. /\ \A q \in Request : q # r => request'[q] = request[q]
          /\ request[r].todo \in SUBSET Submission
      BY <1>0, <1>13 DEF SaveFails, EnqueueFails
    <2>2. ~Claims(r, x)
      BY <1>13 DEF Claims
    <2>3. job'[x] = job[x]
      BY <1>0, <1>13, <2>1 DEF SaveFails, EnqueueFails, Add, Requeue, TypeOK, workers
    <2>4. status'[x] = status[x]
      BY <1>0, <1>13 DEF SaveFails, EnqueueFails, Statuses, rows
    <2> QED BY <1>1, <2>1, <2>2, <2>3, <2>4 DEF KeepsStatus
  <1> QED BY <1>4, <1>5, <1>6, <1>8, <1>10, <1>11, <1>12, <1>13 DEF RequestStep

-----------------------------------------------------------------------------
(* onFailed, gradeOne and the rescues, for any number of submissions,      *)
(* requests, tries and faults: a row the AI has not finished is abandoned  *)
(* only in the five ways NeverAbandoned names.                             *)
THEOREM RowsAreOwed == Spec => NeverAbandoned
  <1>1. ASSUME IInv, WorkInv, [Next]_vars, NEW x \in Submission, Abandoned(x)'
        PROVE  \/ Abandoned(x) \/ Crash \/ MarkFails(x)
               \/ \E c \in Slot : call[x][c].step = "flag" /\ CallFails(x, c)
               \/ /\ call[x]["live"].step = "returned"
                  /\ \E r \in Request : StuckEnqueue(r) \/ RegradeEnqueue(r)
               \/ \E r \in Request : /\ SaveFails(r) \/ EnqueueFails(r)
                                     /\ x \in request[r].todo
    <2>1. CASE UNCHANGED vars
      <3>1. SameWork(x) /\ KeepsStatus(x) /\ KeepsClaims(x)
        BY <2>1 DEF vars, rows, workers, teacher, SameWork, KeepsStatus, KeepsClaims, Claims
      <3> QED BY <1>1, <3>1, StillOwed
    <2>2. CASE \E r \in Request :
                  \/ StartRead(r) \/ StuckRead(r) \/ RequestStep(r)
                  \/ \E s \in Submission : RegradeRequeue(r, s) \/ ReviewRead(r, s)
      BY <1>1, <2>2, RequestOwed
    <2>3. CASE \E s \in Submission :
                  Take(s) \/ Timeout(s) \/ Complete(s) \/ MarkUngradable(s)
      BY <1>1, <2>3, WorkerOwed
    <2>4. CASE \E s \in Submission, c \in Slot : CallStep(s, c)
      BY <1>1, <2>4, CallOwed
    <2>5. CASE \E s \in Submission : MarkFails(s) \/ \E c \in Slot : CallFails(s, c)
      BY <1>1, <2>5, LostOwed
    <2>6. CASE \/ \E s \in Submission : SetManualScore(s) \/ SetErrorException(s) \/ RecordAudit(s)
               \/ ChangeRules \/ ConfirmGroup \/ FinalizeRead \/ FinalizeCommit
      BY <1>1, <2>6, TeacherKeeps
    <2> QED BY <1>1, <2>1, <2>2, <2>3, <2>4, <2>5, <2>6 DEF Next
  <1>2. IInv /\ WorkInv /\ [Next]_vars =>
          [\A s \in Submission : Abandoned(s)' =>
              \/ Abandoned(s) \/ Crash \/ MarkFails(s)
              \/ \E c \in Slot : call[s][c].step = "flag" /\ CallFails(s, c)
              \/ /\ call[s]["live"].step = "returned"
                 /\ \E r \in Request : StuckEnqueue(r) \/ RegradeEnqueue(r)
              \/ \E r \in Request : /\ SaveFails(r) \/ EnqueueFails(r)
                                    /\ s \in request[r].todo]_vars
    BY <1>1
  <1> QED BY <1>2, Invariant, WorkAgrees, PTL DEF Spec, NeverAbandoned

=============================================================================
