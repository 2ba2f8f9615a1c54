-------------------------- MODULE GradingRunProofs --------------------------
(***************************************************************************)
(* Proofs about GradingRun, for any submissions, pipelines, number of      *)
(* tries, requests and faults.                                             *)
(***************************************************************************)
EXTENDS GradingRun, SequenceTheorems, TLAPS

-----------------------------------------------------------------------------
(* Types.                                                                  *)

LEMMA StatusesType ==
  ASSUME TypeOK, NEW S \in SUBSET Submission, NEW to \in Status
  PROVE  Statuses(S, to) \in [Submission -> Status]
  BY DEF TypeOK, Statuses

LEMMA JudgedType ==
  ASSUME TypeOK, NEW S \in SUBSET Submission
  PROVE  Judged(S) \in [Submission -> Status]
  BY DEF TypeOK, Judged, Status

(* Closing or adding an attempt leaves sequences of outcomes.              *)
LEMMA CloseType ==
  ASSUME TypeOK, NEW s \in Submission, NEW n \in 1 .. Len(attempts[s]),
         NEW outcome \in Outcome, Close(s, n, outcome)
  PROVE  /\ attempts' \in [Submission -> Seq(Outcome)]
         /\ attempts'[s] = [attempts[s] EXCEPT ![n] = outcome]
         /\ Len(attempts'[s]) = Len(attempts[s])
         /\ attempts'[s][n] = outcome
         /\ \A i \in 1 .. Len(attempts[s]) : i # n => attempts'[s][i] = attempts[s][i]
         /\ \A x \in Submission : x # s => attempts'[x] = attempts[x]
  <1>1. attempts[s] \in Seq(Outcome)
    BY DEF TypeOK
  <1>2. [attempts[s] EXCEPT ![n] = outcome] \in Seq(Outcome)
    BY <1>1, ExceptSeq
  <1>3. Len([attempts[s] EXCEPT ![n] = outcome]) = Len(attempts[s])
    BY <1>1, ExceptSeq
  <1>4. attempts' = [attempts EXCEPT ![s] = [attempts[s] EXCEPT ![n] = outcome]]
    BY DEF Close, TypeOK
  <1>5. DOMAIN attempts[s] = 1 .. Len(attempts[s])
    BY <1>1
  <1> QED BY <1>1, <1>2, <1>3, <1>4, <1>5 DEF TypeOK

LEMMA AppendType ==
  ASSUME TypeOK, NEW s \in Submission, NEW outcome \in Outcome,
         attempts' = [attempts EXCEPT ![s] = Append(@, outcome)]
  PROVE  /\ attempts' \in [Submission -> Seq(Outcome)]
         /\ Len(attempts'[s]) = Len(attempts[s]) + 1
         /\ attempts'[s][Len(attempts[s]) + 1] = outcome
         /\ \A i \in 1 .. Len(attempts[s]) : attempts'[s][i] = attempts[s][i]
         /\ \A x \in Submission : x # s => attempts'[x] = attempts[x]
  <1>1. attempts[s] \in Seq(Outcome)
    BY DEF TypeOK
  <1>2. /\ Append(attempts[s], outcome) \in Seq(Outcome)
        /\ Len(Append(attempts[s], outcome)) = Len(attempts[s]) + 1
        /\ Append(attempts[s], outcome)[Len(attempts[s]) + 1] = outcome
        /\ \A i \in 1 .. Len(attempts[s]) : Append(attempts[s], outcome)[i] = attempts[s][i]
    BY <1>1
  <1>3. attempts' = [attempts EXCEPT ![s] = Append(attempts[s], outcome)]
    OBVIOUS
  <1> QED BY <1>1, <1>2, <1>3 DEF TypeOK

LEMMA TypeInit == Init => TypeOK
  BY DEF Init, TypeOK, Status, NoJob, NoRequest, NotPublishing, Slot, Idle, Working

(* TypeOK in three parts: what PostgreSQL, the worker and a teacher hold.  *)
RowsType ==
    /\ status \in [Submission -> Status]
    /\ class \in [Submission -> {"none", "system", "submission"}]
    /\ {scored, manual, reviewed, promoted} \subseteq SUBSET Submission
    /\ attempts \in [Submission -> Seq(Outcome)]
    /\ current \in [Submission -> Nat]
    /\ computed \in [Submission -> {"none", "score", "floor"}]

Step == Working \cup {"idle", "returned"}

WorkersType ==
    /\ job \in [Submission -> [state : {"none", "waiting", "active", "failed", "completed"},
                               tries : Nat]]
    /\ call \in [Submission -> [Slot -> [step : Step, attempt : Nat]]]
    /\ failures \in [Submission -> Nat]
    /\ \A s \in Submission : job[s].state = "active" <=> call[s]["live"] # Idle

TeacherType ==
    /\ request \in [Request -> [op : {"none", "save", "add", "stuck", "requeued", "review"},
                                todo : SUBSET Submission]]
    /\ publishing \in [Submission -> Status]
    /\ presses \in Nat /\ faults \in Nat

LEMMA TypeParts == TypeOK <=> RowsType /\ WorkersType /\ TeacherType
  BY DEF TypeOK, RowsType, WorkersType, TeacherType, Step

LEMMA TypePartsNext == TypeOK' <=> RowsType' /\ WorkersType' /\ TeacherType'
  BY DEF TypeOK, RowsType, WorkersType, TeacherType, Step

LEMMA SameRows == RowsType /\ UNCHANGED rows => RowsType'
  BY DEF RowsType, rows

(* A step of a row that scores nothing and opens no attempt.               *)
LEMMA RowsMoved ==
  ASSUME RowsType, status' \in [Submission -> Status],
         class' \in [Submission -> {"none", "system", "submission"}],
         reviewed' \subseteq Submission,
         UNCHANGED <<scored, attempts, current, computed, manual, promoted>>
  PROVE  RowsType'
  <1>1. {scored', manual', reviewed', promoted'} \subseteq SUBSET Submission
    BY DEF RowsType
  <1> QED BY <1>1 DEF RowsType

LEMMA SameWorkers == WorkersType /\ UNCHANGED workers => WorkersType'
  BY DEF WorkersType, workers

LEMMA SameTeacher == TeacherType /\ UNCHANGED <<teacher, faults>> => TeacherType'
  BY DEF TeacherType, teacher

(* What a step of a call leaves of the calls.                              *)
LEMMA GotoType ==
  ASSUME WorkersType, NEW s \in Submission, NEW c \in Slot, NEW step \in Step,
         NEW n \in Nat, Goto(s, c, step, n)
  PROVE  /\ call' \in [Submission -> [Slot -> [step : Step, attempt : Nat]]]
         /\ call'[s][c] = [step |-> step, attempt |-> n]
         /\ \A x \in Submission, d \in Slot : x # s \/ d # c => call'[x][d] = call[x][d]
  BY DEF WorkersType, Goto

LEMMA ReturnType ==
  ASSUME WorkersType, NEW s \in Submission, NEW c \in Slot, Return(s, c)
  PROVE  /\ call' \in [Submission -> [Slot -> [step : Step, attempt : Nat]]]
         /\ call'[s][c] = [step |-> IF c = "live" THEN "returned" ELSE "idle", attempt |-> 0]
         /\ \A x \in Submission, d \in Slot : x # s \/ d # c => call'[x][d] = call[x][d]
  BY GotoType DEF Return, Step

(* A call that keeps going, or returns, keeps its job active.              *)
LEMMA OngoingType ==
  ASSUME WorkersType, NEW s \in Submission, NEW c \in Slot,
         call[s][c].step \in Working,
         \/ Return(s, c)
         \/ \E step \in Working, n \in Nat : Goto(s, c, step, n),
         UNCHANGED <<job, failures>>
  PROVE  WorkersType'
  <1>1. "live" \in Slot
    BY DEF Slot
  <1>2. call[s][c] # Idle
    BY DEF Working, Idle
  <1>3. CASE Return(s, c)
    <2>1. /\ call' \in [Submission -> [Slot -> [step : Step, attempt : Nat]]]
          /\ call'[s][c] = [step |-> IF c = "live" THEN "returned" ELSE "idle", attempt |-> 0]
          /\ \A x \in Submission, d \in Slot : x # s \/ d # c => call'[x][d] = call[x][d]
      BY <1>3, ReturnType
    <2>2. c = "live" => call'[s][c] # Idle
      BY <2>1 DEF Idle
    <2> QED BY <1>1, <1>2, <2>1, <2>2 DEF WorkersType
  <1>4. ASSUME NEW step \in Working, NEW n \in Nat, Goto(s, c, step, n)
        PROVE  WorkersType'
    <2>1. /\ call' \in [Submission -> [Slot -> [step : Step, attempt : Nat]]]
          /\ call'[s][c] = [step |-> step, attempt |-> n]
          /\ \A x \in Submission, d \in Slot : x # s \/ d # c => call'[x][d] = call[x][d]
      BY <1>4, GotoType DEF Step
    <2>2. call'[s][c] # Idle
      BY <2>1 DEF Idle, Working
    <2> QED BY <1>1, <1>2, <2>1, <2>2 DEF WorkersType
  <1> QED BY <1>3, <1>4

LEMMA RequeueType ==
  ASSUME WorkersType, NEW s \in Submission, Requeue(s), UNCHANGED <<call, failures>>
  PROVE  WorkersType'
  BY DEF WorkersType, Requeue, IsLive, NewJob

LEMMA FailJobType ==
  ASSUME WorkersType, NEW s \in Submission, NEW permanent \in BOOLEAN,
         FailJob(s, permanent)
  PROVE  /\ job' \in [Submission -> [state : {"none", "waiting", "active", "failed", "completed"},
                                     tries : Nat]]
         /\ failures' \in [Submission -> Nat]
         /\ job'[s].state # "active"
         /\ \A x \in Submission : x # s => job'[x] = job[x]
  BY GradingAssumption DEF WorkersType, FailJob

(* The requests.                                                           *)
LEMMA PressType ==
  ASSUME TeacherType, NEW r \in Request, NEW todo \in SUBSET Submission,
         NEW op \in {"save", "stuck", "requeued"},
         Press(r, [op |-> op, todo |-> todo]), UNCHANGED <<publishing, faults>>
  PROVE  TeacherType'
  BY DEF TeacherType, Press

LEMMA RequestType ==
  ASSUME TeacherType, NEW r \in Request, NEW todo \in SUBSET Submission,
         NEW op \in {"none", "add", "stuck", "review"},
         request' = [request EXCEPT ![r] = [op |-> op, todo |-> todo]],
         UNCHANGED <<publishing, presses, faults>>
  PROVE  TeacherType'
  BY DEF TeacherType

LEMMA DoneType ==
  ASSUME TeacherType, NEW r \in Request,
         request' = [request EXCEPT ![r] = NoRequest],
         UNCHANGED <<publishing, presses, faults>>
  PROVE  TeacherType'
  BY DEF TeacherType, NoRequest

LEMMA RequestStepType ==
  ASSUME TypeOK, NEW r \in Request,
         \/ StartRead(r) \/ StuckRead(r) \/ RequestStep(r)
         \/ \E s \in Submission : RegradeRequeue(r, s) \/ ReviewRead(r, s)
  PROVE  TypeOK'
  <1> USE TypeParts, TypePartsNext
  <1>0. request[r].todo \in SUBSET Submission
    BY DEF TeacherType
  <1>1. CASE StartRead(r)
    <2>1. TeacherType'
      BY <1>1, PressType DEF StartRead
    <2> QED BY <1>1, <2>1, SameRows, SameWorkers DEF StartRead
  <1>2. CASE StuckRead(r)
    <2>1. TeacherType'
      BY <1>2, PressType DEF StuckRead
    <2> QED BY <1>2, <2>1, SameRows, SameWorkers DEF StuckRead
  <1>3. CASE StartSave(r)
    <2>1. RowsType'
      BY <1>0, <1>3, StatusesType DEF StartSave, RowsType, Status
    <2>2. TeacherType'
      BY <1>0, <1>3, RequestType, DoneType DEF StartSave
    <2> QED BY <1>3, <2>1, <2>2, SameWorkers DEF StartSave
  <1>4. CASE StartEnqueue(r)
    <2>1. WorkersType'
      BY <1>0, <1>4 DEF StartEnqueue, Add, WorkersType, NoJob, NewJob
    <2> QED BY <1>4, <2>1, DoneType, SameRows DEF StartEnqueue
  <1>5. CASE StuckEnqueue(r)
    <2>1. WorkersType'
      BY <1>0, <1>5, RequeueType DEF StuckEnqueue
    <2>2. TeacherType'
      BY <1>0, <1>5, RequestType, DoneType DEF StuckEnqueue
    <2> QED BY <1>5, <2>1, <2>2, SameRows DEF StuckEnqueue
  <1>6. CASE RegradeEnqueue(r)
    <2>1. WorkersType'
      BY <1>0, <1>6, RequeueType DEF RegradeEnqueue
    <2> QED BY <1>6, <2>1, DoneType, SameRows DEF RegradeEnqueue
  <1>7. CASE ReviewWrite(r)
    <2>1. RowsType'
      <3>1. status' \in [Submission -> Status]
        BY <1>0, <1>7, JudgedType DEF ReviewWrite
      <3>2. reviewed' \subseteq Submission
        BY <1>0, <1>7 DEF ReviewWrite, RowsType
      <3>3. class' \in [Submission -> {"none", "system", "submission"}]
        BY <1>7 DEF ReviewWrite, RowsType
      <3>4. UNCHANGED <<scored, attempts, current, computed, manual, promoted>>
        BY <1>7 DEF ReviewWrite
      <3> QED BY <3>1, <3>2, <3>3, <3>4, RowsMoved
    <2> QED BY <1>7, <2>1, DoneType, SameWorkers DEF ReviewWrite
  <1>8. ASSUME NEW s \in Submission, RegradeRequeue(r, s) PROVE TypeOK'
    <2>1. RowsType'
      <3>1. status' \in [Submission -> Status]
        BY <1>8, StatusesType DEF RegradeRequeue, Status
      <3>2. class' \in [Submission -> {"none", "system", "submission"}]
        BY <1>8 DEF RegradeRequeue, RowsType
      <3>3. reviewed' \subseteq Submission
        BY <1>8 DEF RegradeRequeue, RowsType
      <3>4. UNCHANGED <<scored, attempts, current, computed, manual, promoted>>
        BY <1>8 DEF RegradeRequeue
      <3> QED BY <3>1, <3>2, <3>3, <3>4, RowsMoved
    <2>2. TeacherType'
      BY <1>8, PressType DEF RegradeRequeue
    <2> QED BY <1>8, <2>1, <2>2, SameWorkers DEF RegradeRequeue
  <1>9. ASSUME NEW s \in Submission, ReviewRead(r, s) PROVE TypeOK'
    <2>1. TeacherType'
      <3>1. /\ {s} \in SUBSET Submission
            /\ request' = [request EXCEPT ![r] = [op |-> "review", todo |-> {s}]]
            /\ UNCHANGED <<publishing, presses, faults>>
        BY <1>9 DEF ReviewRead
      <3> QED BY <3>1, RequestType
    <2> QED BY <1>9, <2>1, SameRows, SameWorkers DEF ReviewRead
  <1>10. CASE SaveFails(r)
    <2>1. PICK saved \in SUBSET request[r].todo :
             /\ UNCHANGED faults \/ Fault
             /\ status' = Statuses(saved, "ai_grading")
      BY <1>10 DEF SaveFails
    <2>2. RowsType'
      BY <1>0, <1>10, <2>1, StatusesType DEF SaveFails, RowsType, Status
    <2>3. TeacherType'
      BY <1>10, <2>1 DEF SaveFails, TeacherType, NoRequest, Fault
    <2> QED BY <1>10, <2>2, <2>3, SameWorkers DEF SaveFails
  <1>11. CASE EnqueueFails(r)
    <2>1. TeacherType'
      BY <1>11 DEF EnqueueFails, TeacherType, NoRequest, Fault
    <2>2. UNCHANGED <<call, failures>>
      BY <1>11 DEF EnqueueFails
    <2>3. ASSUME NEW reached \in SUBSET request[r].todo, Add(reached) PROVE WorkersType'
      BY <2>2, <2>3 DEF Add, WorkersType, NoJob, NewJob
    <2>4. ASSUME UNCHANGED job PROVE WorkersType'
      BY <2>2, <2>4 DEF WorkersType
    <2>5. ASSUME NEW s \in request[r].todo, Requeue(s) PROVE WorkersType'
      BY <1>0, <2>2, <2>5, RequeueType
    <2>6. ASSUME NEW s \in request[r].todo, ~IsLive(s), job' = [job EXCEPT ![s] = NoJob]
          PROVE  WorkersType'
      BY <1>0, <2>2, <2>6 DEF WorkersType, IsLive, NoJob
    <2>7. WorkersType'
      BY <1>11, <2>3, <2>4, <2>5, <2>6 DEF EnqueueFails
    <2> QED BY <1>11, <2>1, <2>7, SameRows DEF EnqueueFails
  <1> QED BY <1>1, <1>2, <1>3, <1>4, <1>5, <1>6, <1>7, <1>8, <1>9, <1>10, <1>11 DEF RequestStep

(* The worker's calls.                                                     *)
LEMMA DrawnType ==
  ASSUME TypeOK, NEW s \in Submission, NEW first \in Status, NEW drawn,
         status' = [x \in Submission |-> IF x \in drawn THEN "audit_pending"
                                         ELSE Statuses({s}, first)[x]]
  PROVE  status' \in [Submission -> Status]
  BY StatusesType DEF Status, Statuses, TypeOK

LEMMA RunningType ==
  ASSUME TypeOK, AttemptMatchesRow, NEW s \in Submission, NEW n \in Nat,
         IsRunning(s, n)
  PROVE  n = Len(attempts[s]) /\ n \in 1 .. Len(attempts[s]) /\ attempts[s][n] = "open"
  <1>1. /\ n = current[s] /\ current[s] = Len(attempts[s])
        /\ n # 0 /\ attempts[s][n] = "open"
    BY DEF IsRunning, AttemptMatchesRow, CurrentOutcome
  <1>2. attempts[s] \in Seq(Outcome)
    BY DEF TypeOK
  <1> QED BY <1>1, <1>2

LEMMA CallStepType ==
  ASSUME TypeOK, AttemptMatchesRow, NEW s \in Submission, NEW c \in Slot,
         CallStep(s, c) \/ CallFails(s, c)
  PROVE  TypeOK'
  <1> USE TypeParts, TypePartsNext
  <1>0. /\ attempts[s] \in Seq(Outcome) /\ current[s] \in Nat
        /\ call[s][c].attempt \in Nat /\ "live" \in Slot
    BY DEF RowsType, WorkersType, Slot
  <1>1. CASE WriteScore(s, c)
    <2>0. "ai_graded" \in Status
      BY DEF Status
    <2>1. status' \in [Submission -> Status] /\ scored' \subseteq Submission
      <3>1. CASE status[s] = "ai_grading"
        <4>1. status' = Statuses({s}, "ai_graded") /\ scored' = scored \cup {s}
          BY <1>1, <3>1 DEF WriteScore
        <4>2. {s} \in SUBSET Submission /\ scored \subseteq Submission
          BY DEF RowsType
        <4> QED BY <2>0, <4>1, <4>2, StatusesType
      <3>2. CASE status[s] # "ai_grading"
        BY <1>1, <3>2 DEF WriteScore, RowsType
      <3> QED BY <3>1, <3>2
    <2>3. RowsType'
      BY <1>1, <2>1 DEF WriteScore, RowsType
    <2>2. WorkersType'
      BY <1>1, OngoingType DEF WriteScore, Working
    <2> QED BY <1>1, <2>2, <2>3, SameTeacher DEF WriteScore
  <1>2. CASE Flag(s, c)
    <2>1. status' \in [Submission -> Status]
      <3>1. "flagged_for_review" \in Status /\ {s} \in SUBSET Submission
        BY DEF Status
      <3>2. Statuses({s}, "flagged_for_review") \in [Submission -> Status]
        BY <3>1, StatusesType
      <3>3. status' \in {Statuses({s}, "flagged_for_review"), status}
        BY <1>2 DEF Flag
      <3> QED BY <3>2, <3>3 DEF RowsType
    <2>3. RowsType'
      <3>1. UNCHANGED <<class, reviewed, scored, attempts, current, computed, manual, promoted>>
        BY <1>2 DEF Flag
      <3>2. /\ class' \in [Submission -> {"none", "system", "submission"}]
            /\ reviewed' \subseteq Submission
        BY <3>1 DEF RowsType
      <3> QED BY <2>1, <3>1, <3>2, RowsMoved
    <2>2. WorkersType'
      BY <1>2, OngoingType DEF Flag, Working
    <2> QED BY <1>2, <2>2, <2>3, SameTeacher DEF Flag
  <1>3. CASE StartAttempt(s, c)
    <2>0. attempts' \in [Submission -> Seq(Outcome)] /\ current' \in [Submission -> Nat]
      <3>1. CASE UNCHANGED <<attempts, current>>
        BY <3>1 DEF RowsType
      <3>2. CASE /\ attempts' = [attempts EXCEPT ![s] = Append(@, "open")]
                 /\ current' = [current EXCEPT ![s] = Len(attempts[s]) + 1]
        <4>1. "open" \in Outcome
          BY DEF Outcome
        <4> QED BY <1>0, <3>2, <4>1, AppendType DEF RowsType
      <3> QED BY <1>3, <3>1, <3>2 DEF StartAttempt
    <2>1. RowsType'
      BY <1>3, <2>0 DEF StartAttempt, RowsType
    <2>2. WorkersType'
      <3>1. /\ call[s][c].step \in Working /\ "investigate" \in Working
            /\ Len(attempts[s]) + 1 \in Nat /\ current[s] \in Nat
        BY <1>0, <1>3 DEF StartAttempt, Working
      <3>2. Return(s, c) \/ \E step \in Working, n \in Nat : Goto(s, c, step, n)
        BY <1>3, <3>1 DEF StartAttempt
      <3> QED BY <1>3, <3>1, <3>2, OngoingType DEF StartAttempt
    <2> QED BY <1>3, <2>1, <2>2, SameTeacher DEF StartAttempt
  <1>4. ASSUME NEW first \in {"auto_approved", "audit_pending", "flagged_for_review"},
               FinishGraded(s, c, first)
        PROVE  TypeOK'
    <2>1. status' \in [Submission -> Status]
      <3>1. PICK drawn \in SUBSET Investigated :
               status' = [x \in Submission |-> IF x \in drawn THEN "audit_pending"
                                               ELSE Statuses({s}, first)[x]]
        BY <1>4 DEF FinishGraded
      <3>2. first \in Status
        BY <1>4 DEF Status
      <3> QED BY <3>1, <3>2, DrawnType
    <2>2. attempts' \in [Submission -> Seq(Outcome)]
      BY <1>0, <1>4, RunningType, CloseType DEF FinishGraded, Outcome
    <2>3. RowsType'
      BY <1>4, <2>1, <2>2 DEF FinishGraded, RowsType
    <2>4. WorkersType'
      BY <1>4, OngoingType DEF FinishGraded, Working
    <2> QED BY <1>4, <2>3, <2>4, SameTeacher DEF FinishGraded
  <1>5. ASSUME NEW why \in {"system", "submission"}, FinishUngradable(s, c, why)
        PROVE  TypeOK'
    <2>1. status' \in [Submission -> Status]
      BY <1>5, StatusesType DEF FinishUngradable, Status
    <2>2. attempts' \in [Submission -> Seq(Outcome)]
      BY <1>0, <1>5, RunningType, CloseType DEF FinishUngradable, Outcome
    <2>3. RowsType'
      BY <1>5, <2>1, <2>2 DEF FinishUngradable, RowsType
    <2>4. WorkersType'
      BY <1>5, OngoingType DEF FinishUngradable, Working
    <2> QED BY <1>5, <2>3, <2>4, SameTeacher DEF FinishUngradable
  <1>6. ASSUME NEW permanent \in BOOLEAN, Throw(s, c, permanent), call[s][c].step \in Working
        PROVE  WorkersType'
    <2>1. /\ call' \in [Submission -> [Slot -> [step : Step, attempt : Nat]]]
          /\ call'[s][c] = Idle
          /\ \A x \in Submission, d \in Slot : x # s \/ d # c => call'[x][d] = call[x][d]
      BY <1>6 DEF Throw, WorkersType, Idle, Step
    <2>2. call[s][c] # Idle
      BY <1>6 DEF Idle, Working
    <2>3. CASE c = "live"
      <3>1. /\ job' \in [Submission -> [state : {"none", "waiting", "active", "failed", "completed"},
                                         tries : Nat]]
            /\ failures' \in [Submission -> Nat]
            /\ job'[s].state # "active"
            /\ \A x \in Submission : x # s => job'[x] = job[x]
        BY <1>6, <2>3, FailJobType DEF Throw
      <3> QED BY <1>0, <2>1, <2>2, <2>3, <3>1 DEF WorkersType
    <2>4. CASE c # "live"
      <3>1. UNCHANGED <<job, failures>>
        BY <1>6, <2>4 DEF Throw
      <3> QED BY <1>0, <2>1, <2>4, <3>1 DEF WorkersType
    <2> QED BY <2>3, <2>4
  <1>7. CASE FinishStale(s, c)
    <2>1. WorkersType'
      BY <1>6, <1>7 DEF FinishStale, Working
    <2> QED BY <1>7, <2>1, SameRows, SameTeacher DEF FinishStale, Throw
  <1>8. CASE CallFails(s, c)
    <2>1. WorkersType'
      BY <1>6, <1>8 DEF CallFails
    <2>2. TeacherType'
      BY <1>8 DEF CallFails, Throw, Fault, TeacherType, teacher
    <2> QED BY <1>8, <2>1, <2>2, SameRows DEF CallFails, Throw
  <1> QED BY <1>1, <1>2, <1>3, <1>4, <1>5, <1>7, <1>8 DEF CallStep

(* The rest of the worker.  A step that changes one job and its call.      *)
LEMMA JobAndCallType ==
  ASSUME WorkersType, NEW s \in Submission,
         job' \in [Submission -> [state : {"none", "waiting", "active", "failed", "completed"},
                                  tries : Nat]],
         call' \in [Submission -> [Slot -> [step : Step, attempt : Nat]]],
         failures' \in [Submission -> Nat],
         job'[s].state = "active" <=> call'[s]["live"] # Idle,
         \A x \in Submission : x # s => job'[x] = job[x],
         \A x \in Submission : x # s => call'[x]["live"] = call[x]["live"]
  PROVE  WorkersType'
  <1>1. \A x \in Submission : job'[x].state = "active" <=> call'[x]["live"] # Idle
    BY DEF WorkersType
  <1> QED BY <1>1 DEF WorkersType

LEMMA MovedJobType ==
  ASSUME WorkersType, NEW s \in Submission,
         NEW state \in {"none", "waiting", "active", "failed", "completed"},
         job' = [job EXCEPT ![s].state = state]
  PROVE  /\ job' \in [Submission -> [state : {"none", "waiting", "active", "failed", "completed"},
                                     tries : Nat]]
         /\ job'[s].state = state
         /\ \A x \in Submission : x # s => job'[x] = job[x]
  BY DEF WorkersType

LEMMA WorkerStepType ==
  ASSUME TypeOK, AttemptMatchesRow, NEW s \in Submission,
         Take(s) \/ Timeout(s) \/ Complete(s) \/ MarkUngradable(s) \/ MarkFails(s)
  PROVE  TypeOK'
  <1> USE TypeParts, TypePartsNext
  <1>0. "live" \in Slot /\ "stray" \in Slot /\ Slot = {"live", "stray"}
    BY DEF Slot
  <1>1. CASE Take(s)
    <2>1. PICK step \in Step : step # "idle" /\ Goto(s, "live", step, 0)
      BY <1>1 DEF Take, Step, Working
    <2>2. /\ call' \in [Submission -> [Slot -> [step : Step, attempt : Nat]]]
          /\ call'[s]["live"] = [step |-> step, attempt |-> 0]
          /\ \A x \in Submission, d \in Slot : x # s \/ d # "live" => call'[x][d] = call[x][d]
      BY <1>0, <2>1, GotoType
    <2>3. call'[s]["live"] # Idle
      BY <2>1, <2>2 DEF Idle
    <2>4. /\ job' \in [Submission -> [state : {"none", "waiting", "active", "failed", "completed"},
                                       tries : Nat]]
          /\ job'[s].state = "active"
          /\ \A x \in Submission : x # s => job'[x] = job[x]
      BY <1>1, MovedJobType DEF Take
    <2>5. WorkersType'
      BY <1>0, <1>1, <2>2, <2>3, <2>4 DEF Take, WorkersType
    <2> QED BY <1>1, <2>5, SameRows, SameTeacher DEF Take
  <1>2. CASE Timeout(s)
    <2>1. /\ call' \in [Submission -> [Slot -> [step : Step, attempt : Nat]]]
          /\ call'[s]["live"] = Idle
          /\ \A x \in Submission, d \in Slot : x # s => call'[x][d] = call[x][d]
      <3>1. [live |-> Idle, stray |-> call[s]["live"]] \in [Slot -> [step : Step, attempt : Nat]]
        BY <1>0 DEF WorkersType, Idle, Step
      <3> QED BY <1>0, <1>2, <3>1 DEF Timeout, WorkersType
    <2>2. /\ job' \in [Submission -> [state : {"none", "waiting", "active", "failed", "completed"},
                                       tries : Nat]]
          /\ failures' \in [Submission -> Nat]
          /\ job'[s].state # "active"
          /\ \A x \in Submission : x # s => job'[x] = job[x]
      BY <1>2, FailJobType DEF Timeout
    <2>3. WorkersType'
      BY <1>0, <2>1, <2>2, JobAndCallType
    <2>4. TeacherType'
      BY <1>2 DEF Timeout, Fault, TeacherType, teacher
    <2> QED BY <1>2, <2>3, <2>4, SameRows DEF Timeout
  <1>3. CASE Complete(s)
    <2>1. /\ call' \in [Submission -> [Slot -> [step : Step, attempt : Nat]]]
          /\ call'[s]["live"] = Idle
          /\ \A x \in Submission, d \in Slot : x # s => call'[x][d] = call[x][d]
      BY <1>0, <1>3 DEF Complete, WorkersType, Idle, Step
    <2>2. /\ job' \in [Submission -> [state : {"none", "waiting", "active", "failed", "completed"},
                                       tries : Nat]]
          /\ job'[s].state = "completed"
          /\ \A x \in Submission : x # s => job'[x] = job[x]
      BY <1>3, MovedJobType DEF Complete
    <2>3. WorkersType'
      <3>1. failures' \in [Submission -> Nat]
        BY <1>3 DEF Complete, WorkersType
      <3> QED BY <1>0, <2>1, <2>2, <3>1, JobAndCallType
    <2> QED BY <1>3, <2>3, SameRows, SameTeacher DEF Complete
  <1>4. ASSUME failures[s] > 0, failures' = [failures EXCEPT ![s] = @ - 1],
               UNCHANGED <<job, call>>
        PROVE  WorkersType'
    BY <1>4 DEF WorkersType
  <1>5. CASE MarkFails(s)
    BY <1>4, <1>5, SameRows, SameTeacher DEF MarkFails
  <1>6. CASE MarkUngradable(s)
    <2>1. status' \in [Submission -> Status]
      <3>1. "flagged_for_review" \in Status
        BY DEF Status
      <3>2. CASE status[s] = "ai_grading"
        BY <1>6, <3>1, <3>2, StatusesType DEF MarkUngradable
      <3>3. CASE status[s] # "ai_grading"
        BY <1>6, <3>3 DEF MarkUngradable, RowsType
      <3> QED BY <3>2, <3>3
    <2>2. attempts' \in [Submission -> Seq(Outcome)] /\ current' \in [Submission -> Nat]
      <3>0. "ungradable" \in Outcome /\ attempts[s] \in Seq(Outcome) /\ current[s] \in Nat
        BY DEF Outcome, RowsType
      <3>1. CASE UNCHANGED <<attempts, current>>
        BY <3>1 DEF RowsType
      <3>2. CASE status[s] = "ai_grading" /\ CurrentOutcome(s) = "open" /\ RecordFailure(s)
        <4>1. current[s] \in 1 .. Len(attempts[s])
          BY <3>0, <3>2, RunningType DEF IsRunning
        <4> QED BY <3>0, <3>2, <4>1, CloseType DEF RecordFailure, RowsType
      <3>3. CASE CurrentOutcome(s) # "open" /\ RecordFailure(s)
        <4>1. /\ attempts' = [attempts EXCEPT ![s] = Append(@, "ungradable")]
              /\ current' = [current EXCEPT ![s] = Len(attempts[s]) + 1]
          BY <3>3 DEF RecordFailure, AddFailure
        <4>2. attempts' \in [Submission -> Seq(Outcome)]
          BY <3>0, <4>1, AppendType
        <4>3. current' \in [Submission -> Nat]
          BY <3>0, <4>1 DEF RowsType
        <4> QED BY <4>2, <4>3
      <3>4. \/ UNCHANGED <<attempts, current>>
            \/ status[s] = "ai_grading" /\ RecordFailure(s)
        BY <1>6 DEF MarkUngradable
      <3> QED BY <3>1, <3>2, <3>3, <3>4
    <2>3. class' \in [Submission -> {"none", "system", "submission"}]
      BY <1>6 DEF MarkUngradable, RowsType
    <2>4. RowsType'
      BY <1>6, <2>1, <2>2, <2>3 DEF MarkUngradable, RowsType
    <2> QED BY <1>4, <1>6, <2>4, SameTeacher DEF MarkUngradable
  <1> QED BY <1>1, <1>2, <1>3, <1>5, <1>6

(* The teacher's steps, and a crash.                                       *)
LEMMA RecomputeType ==
  ASSUME TypeOK, NEW outcome, NEW after \in [Submission -> Status],
         DOMAIN outcome \subseteq Submission, Recompute(outcome, after)
  PROVE  /\ status' \in [Submission -> Status]
         /\ computed' \in [Submission -> {"none", "score", "floor"}]
         /\ promoted' \subseteq Submission
  <1>1. status' \in [Submission -> Status]
    BY DEF Recompute, Status
  <1>2. computed' \in [Submission -> {"none", "score", "floor"}]
    BY DEF Recompute, TypeOK
  <1>3. promoted' \subseteq Submission
    BY DEF Recompute, TypeOK
  <1> QED BY <1>1, <1>2, <1>3

LEMMA TeacherStepType ==
  ASSUME TypeOK,
         \/ \E s \in Submission : SetManualScore(s) \/ SetErrorException(s) \/ RecordAudit(s)
         \/ ChangeRules \/ ConfirmGroup \/ FinalizeRead \/ FinalizeCommit
  PROVE  TypeOK'
  <1> USE TypeParts, TypePartsNext
  <1>0. Recomputable \subseteq Submission /\ Investigated \subseteq Submission
    BY GradingAssumption DEF Recomputable
  <1>1. ASSUME NEW s \in Submission, SetManualScore(s) PROVE TypeOK'
    <2>1. status' \in [Submission -> Status]
      BY <1>1, JudgedType DEF SetManualScore
    <2>2. RowsType'
      BY <1>1, <2>1 DEF SetManualScore, RowsType
    <2> QED BY <1>1, <2>2, SameWorkers, SameTeacher DEF SetManualScore
  <1>2. ASSUME NEW s \in Submission, SetErrorException(s) PROVE TypeOK'
    <2>1. status' \in [Submission -> Status]
      BY <1>2, JudgedType DEF SetErrorException
    <2>2. RowsType'
      BY <1>2, <2>1 DEF SetErrorException, RowsType
    <2> QED BY <1>2, <2>2, SameWorkers, SameTeacher DEF SetErrorException
  <1>3. ASSUME NEW s \in Submission, RecordAudit(s) PROVE TypeOK'
    <2>1. Statuses({s}, "teacher_reviewed") \in [Submission -> Status]
      BY StatusesType DEF Status
    <2>2. /\ status' \in [Submission -> Status]
          /\ computed' \in [Submission -> {"none", "score", "floor"}]
          /\ promoted' \subseteq Submission
      BY <1>0, <1>3, <2>1, RecomputeType DEF RecordAudit
    <2>3. RowsType'
      BY <1>3, <2>2 DEF RecordAudit, RowsType
    <2> QED BY <1>3, <2>3, SameWorkers, SameTeacher DEF RecordAudit
  <1>4. CASE ChangeRules
    <2>1. status \in [Submission -> Status]
      BY DEF RowsType
    <2>2. /\ status' \in [Submission -> Status]
          /\ computed' \in [Submission -> {"none", "score", "floor"}]
          /\ promoted' \subseteq Submission
      BY <1>0, <1>4, <2>1, RecomputeType DEF ChangeRules
    <2>3. RowsType'
      BY <1>4, <2>2 DEF ChangeRules, RowsType
    <2> QED BY <1>4, <2>3, SameWorkers, SameTeacher DEF ChangeRules
  <1>5. CASE ConfirmGroup
    <2>1. status' \in [Submission -> Status]
      BY <1>0, <1>5, JudgedType DEF ConfirmGroup
    <2>2. RowsType'
      BY <1>5, <2>1 DEF ConfirmGroup, RowsType
    <2> QED BY <1>5, <2>2, SameWorkers, SameTeacher DEF ConfirmGroup
  <1>6. CASE FinalizeRead
    <2>1. TeacherType'
      BY <1>6 DEF FinalizeRead, TeacherType, RowsType
    <2> QED BY <1>6, <2>1, SameRows, SameWorkers DEF FinalizeRead
  <1>7. CASE FinalizeCommit
    <2>1. status' \in [Submission -> Status]
      BY <1>7, StatusesType DEF FinalizeCommit, ToPublish, Status
    <2>2. RowsType'
      BY <1>7, <2>1 DEF FinalizeCommit, RowsType
    <2>3. TeacherType'
      BY <1>7 DEF FinalizeCommit, TeacherType, NotPublishing, Status
    <2> QED BY <1>7, <2>2, <2>3, SameWorkers DEF FinalizeCommit
  <1> QED BY <1>1, <1>2, <1>3, <1>4, <1>5, <1>6, <1>7

LEMMA CrashType == TypeOK /\ Crash => TypeOK'
  <1> USE TypeParts, TypePartsNext
  <1> SUFFICES ASSUME TypeOK, Crash PROVE TypeOK'
    OBVIOUS
  <1>1. RowsType'
    BY SameRows DEF Crash
  <1>2. /\ job' \in [Submission -> [state : {"none", "waiting", "active", "failed", "completed"},
                                     tries : Nat]]
        /\ \A s \in Submission : job'[s].state # "active"
    <2>1. CASE job' = [s \in Submission |-> NoJob]
      BY <2>1 DEF NoJob
    <2>2. CASE job' = [s \in Submission |-> IF job[s].state = "active"
                          THEN [job[s] EXCEPT !.state = "waiting"] ELSE job[s]]
      <3>1. ASSUME NEW s \in Submission
            PROVE  /\ job'[s] \in [state : {"none", "waiting", "active", "failed", "completed"},
                                    tries : Nat]
                   /\ job'[s].state # "active"
        BY <2>2, <3>1 DEF WorkersType
      <3> QED BY <2>2, <3>1
    <2> QED BY <2>1, <2>2 DEF Crash
  <1>3. WorkersType'
    BY <1>2 DEF Crash, WorkersType, Idle, Slot, Step
  <1>4. TeacherType'
    BY DEF Crash, Fault, TeacherType, NotPublishing, NoRequest, Status
  <1> QED BY <1>1, <1>3, <1>4

LEMMA TypeNext == TypeOK /\ AttemptMatchesRow /\ [Next]_vars => TypeOK'
  <1> SUFFICES ASSUME TypeOK, AttemptMatchesRow, [Next]_vars PROVE TypeOK'
    OBVIOUS
  <1>1. CASE UNCHANGED vars
    BY <1>1, TypeParts, TypePartsNext, SameRows, SameWorkers, SameTeacher DEF vars
  <1>2. CASE Next
    BY <1>2, RequestStepType, CallStepType, WorkerStepType, TeacherStepType, CrashType
       DEF Next
  <1> QED BY <1>1, <1>2

-----------------------------------------------------------------------------
(* The inductive invariant.                                                *)

(* AttemptMatchesRow, of one row.                                          *)
AttemptsAgree(s) ==
    /\ current[s] = Len(attempts[s])
    /\ class[s] # "none" => CurrentOutcome(s) = "ungradable"
    /\ s \in Investigated => (s \in scored <=> CurrentOutcome(s) = "graded")
    /\ \A n \in 1 .. Len(attempts[s]) :
          attempts[s][n] = "open" => n = current[s] /\ status[s] = "ai_grading"

(* What a status says about the rest of its row, which no guard reads: the *)
(* two pipelines never meet, and a teacher's verdict leaves its trace.     *)
RowAgrees(s) ==
    /\ status[s] \in {"none", "ai_grading"} => s \notin scored /\ class[s] = "none"
    /\ status[s] = "ai_graded" => s \notin Investigated /\ s \in scored
    /\ status[s] \in {"auto_approved", "audit_pending"} => s \in Investigated /\ s \in scored
    /\ class[s] # "none" => s \notin scored
    /\ computed[s] # "none" => s \in Investigated /\ s \in scored
    /\ s \notin Investigated => CurrentOutcome(s) # "open"
    /\ s \notin Investigated /\ status[s] = "teacher_reviewed" => s \in reviewed \cup manual
    /\ status[s] = "finalized" =>
          IF s \in Investigated THEN computed[s] = "score" \/ s \in manual
                                ELSE s \in reviewed \cup manual

(* A call runs the steps of its submission's pipeline only.                *)
CallsAgree ==
    \A s \in Submission, c \in Slot :
        /\ call[s][c].step \in {"model", "flag"} => s \notin Investigated
        /\ call[s][c].step \in {"start", "investigate"} => s \in Investigated

RequestsAgree ==
    \A r \in Request : request[r].op = "review" => request[r].todo \cap Investigated = {}

IInv ==
    /\ TypeOK /\ CallsAgree /\ RequestsAgree /\ PublicationIsStable
    /\ \A s \in Submission : AttemptsAgree(s) /\ RowAgrees(s)

-----------------------------------------------------------------------------
(* What a step may do to one row.  Each action is one of these for every   *)
(* row, and each of these keeps the row's part of the invariant, is a step *)
(* of the lifecycle and leaves closed attempts alone.                      *)

SameAttempts(s) == attempts'[s] = attempts[s] /\ current'[s] = current[s]
SameScore(s) == (s \in scored' <=> s \in scored) /\ computed'[s] = computed[s]
SameClass(s) == class'[s] = class[s]

Opens(s) ==
    /\ status[s] = "none" /\ status'[s] = "ai_grading"
    /\ SameAttempts(s) /\ SameScore(s) /\ SameClass(s)

Restarts(s) ==
    /\ status[s] = "flagged_for_review" /\ status'[s] = "ai_grading"
    /\ class[s] = "system" /\ class'[s] = "none" /\ s \notin scored
    /\ SameAttempts(s) /\ SameScore(s)

(* one_shot: the score, then the flag.                                     *)
IsScored(s) ==
    /\ s \notin Investigated
    /\ status[s] = "ai_grading" /\ status'[s] = "ai_graded"
    /\ s \in scored' /\ computed'[s] = computed[s]
    /\ SameAttempts(s) /\ SameClass(s)

IsFlagged(s) ==
    /\ status[s] = "ai_graded" /\ status'[s] = "flagged_for_review"
    /\ SameAttempts(s) /\ SameScore(s) /\ SameClass(s)

(* investigator: an attempt is opened, then closed.                        *)
AddsAttempt(s, outcome) ==
    /\ CurrentOutcome(s) # "open"
    /\ attempts'[s] = Append(attempts[s], outcome) /\ current'[s] = Len(attempts[s]) + 1

ClosesAttempt(s, outcome) ==
    /\ CurrentOutcome(s) = "open"
    /\ attempts'[s] = [attempts[s] EXCEPT ![current[s]] = outcome]
    /\ current'[s] = current[s]

IsAttempted(s) ==
    /\ s \in Investigated /\ status[s] = "ai_grading" /\ status'[s] = status[s]
    /\ AddsAttempt(s, "open") /\ SameScore(s) /\ SameClass(s)

IsGraded(s) ==
    /\ s \in Investigated /\ status[s] = "ai_grading"
    /\ status'[s] \in {"auto_approved", "audit_pending", "flagged_for_review"}
    /\ ClosesAttempt(s, "graded")
    /\ s \in scored' /\ computed'[s] = "score" /\ SameClass(s)

IsGivenUp(s) ==
    /\ status[s] = "ai_grading" /\ status'[s] = "flagged_for_review"
    /\ ClosesAttempt(s, "ungradable") \/ AddsAttempt(s, "ungradable")
    /\ SameScore(s) /\ class'[s] \in {"system", "submission"}

(* Rules, the audit sample and people move a row that is scored already.   *)
IsRejudged(s) ==
    /\ \/ status'[s] = status[s]
       \/ /\ status[s] \in {"auto_approved", "flagged_for_review", "audit_pending"}
          /\ status'[s] = "teacher_reviewed"
       \/ /\ status[s] = "flagged_for_review" /\ status'[s] = "auto_approved"
          /\ s \in Investigated /\ s \in scored
       \/ /\ status[s] \in {"auto_approved", "audit_pending"}
          /\ status'[s] = "flagged_for_review"
       \/ status[s] = "auto_approved" /\ status'[s] = "audit_pending"
    /\ computed'[s] # computed[s] =>
          s \in Investigated /\ s \in scored /\ status[s] # "finalized"
    /\ s \notin Investigated /\ status'[s] = "teacher_reviewed" => s \in reviewed' \cup manual'
    /\ SameAttempts(s) /\ (s \in scored' <=> s \in scored) /\ SameClass(s)

IsPublished(s) ==
    /\ status[s] \in Publishable /\ status'[s] = "finalized"
    /\ s \in Investigated => computed[s] = "score" \/ s \in manual
    /\ SameAttempts(s) /\ SameScore(s) /\ SameClass(s)

RowMove(s) ==
    /\ s \in manual => s \in manual'
    /\ s \in reviewed => s \in reviewed'
    /\ \/ Opens(s) \/ Restarts(s) \/ IsScored(s) \/ IsFlagged(s)
       \/ IsAttempted(s) \/ IsGraded(s) \/ IsGivenUp(s)
       \/ IsRejudged(s) \/ IsPublished(s)

LEMMA CloseKeepsRest ==
  ASSUME TypeOK, NEW s \in Submission, AttemptsAgree(s),
         NEW outcome \in {"graded", "ungradable"}, ClosesAttempt(s, outcome)
  PROVE  /\ current'[s] = Len(attempts'[s])
         /\ CurrentOutcome(s)' = outcome
         /\ \A n \in 1 .. Len(attempts'[s]) : attempts'[s][n] # "open"
         /\ Len(attempts[s]) <= Len(attempts'[s])
         /\ \A n \in 1 .. Len(attempts[s]) :
               attempts[s][n] # "open" => attempts'[s][n] = attempts[s][n]
  <1>1. attempts[s] \in Seq(Outcome)
    BY DEF TypeOK
  <1>2. current[s] = Len(attempts[s]) /\ current[s] # 0 /\ attempts[s][current[s]] = "open"
    BY DEF AttemptsAgree, ClosesAttempt, CurrentOutcome
  <1>3. current[s] \in 1 .. Len(attempts[s]) /\ outcome \in Outcome
    BY <1>1, <1>2 DEF Outcome
  <1>4. /\ [attempts[s] EXCEPT ![current[s]] = outcome] \in Seq(Outcome)
        /\ Len([attempts[s] EXCEPT ![current[s]] = outcome]) = Len(attempts[s])
    BY <1>1, <1>3, ExceptSeq
  <1>5. DOMAIN attempts[s] = 1 .. Len(attempts[s])
    BY <1>1
  <1>6. /\ Len(attempts'[s]) = Len(attempts[s])
        /\ attempts'[s][current[s]] = outcome
        /\ \A n \in 1 .. Len(attempts[s]) : n # current[s] => attempts'[s][n] = attempts[s][n]
    BY <1>3, <1>4, <1>5 DEF ClosesAttempt
  <1>7. \A n \in 1 .. Len(attempts[s]) : n # current[s] => attempts[s][n] # "open"
    BY DEF AttemptsAgree
  <1>8. CurrentOutcome(s)' = outcome
    BY <1>2, <1>6 DEF ClosesAttempt, CurrentOutcome
  <1>9. current'[s] = Len(attempts'[s])
    BY <1>2, <1>6 DEF ClosesAttempt
  <1>10. \A n \in 1 .. Len(attempts'[s]) : attempts'[s][n] # "open"
    BY <1>6, <1>7
  <1>11. Len(attempts[s]) <= Len(attempts'[s])
    BY <1>1, <1>6
  <1> QED BY <1>2, <1>6, <1>8, <1>9, <1>10, <1>11

LEMMA AddKeepsRest ==
  ASSUME TypeOK, NEW s \in Submission, AttemptsAgree(s),
         NEW outcome \in Outcome, AddsAttempt(s, outcome)
  PROVE  /\ current'[s] = Len(attempts'[s])
         /\ CurrentOutcome(s)' = outcome
         /\ \A n \in 1 .. Len(attempts'[s]) : attempts'[s][n] = "open" => n = current'[s]
         /\ Len(attempts[s]) <= Len(attempts'[s])
         /\ \A n \in 1 .. Len(attempts[s]) : attempts'[s][n] = attempts[s][n]
  <1>1. attempts[s] \in Seq(Outcome) /\ Len(attempts[s]) \in Nat
    BY DEF TypeOK
  <1>2. /\ Len(attempts'[s]) = Len(attempts[s]) + 1
        /\ attempts'[s][Len(attempts[s]) + 1] = outcome
        /\ \A n \in 1 .. Len(attempts[s]) : attempts'[s][n] = attempts[s][n]
    BY <1>1 DEF AddsAttempt
  <1>3. CurrentOutcome(s)' = outcome
    BY <1>1, <1>2 DEF AddsAttempt, CurrentOutcome
  <1>4. \A n \in 1 .. Len(attempts[s]) : attempts[s][n] # "open"
    <2>1. current[s] = Len(attempts[s])
      BY DEF AttemptsAgree
    <2>2. \A n \in 1 .. Len(attempts[s]) : attempts[s][n] = "open" => n = current[s]
      BY DEF AttemptsAgree
    <2>3. current[s] # 0 => attempts[s][current[s]] # "open"
      BY DEF AddsAttempt, CurrentOutcome
    <2> QED BY <1>1, <2>1, <2>2, <2>3
  <1>5. \A n \in 1 .. Len(attempts'[s]) : attempts'[s][n] = "open" => n = Len(attempts[s]) + 1
    BY <1>1, <1>2, <1>4
  <1> QED BY <1>1, <1>2, <1>3, <1>5 DEF AddsAttempt

LEMMA SameOutcome ==
  ASSUME NEW s \in Submission, SameAttempts(s)
  PROVE  CurrentOutcome(s)' = CurrentOutcome(s)
  BY DEF SameAttempts, CurrentOutcome

(* Each move keeps the row's attempts and its score in step.               *)
LEMMA MoveKeepsAttempts ==
  ASSUME TypeOK, NEW s \in Submission, AttemptsAgree(s), RowAgrees(s), RowMove(s)
  PROVE  AttemptsAgree(s)'
  <1> USE DEF AttemptsAgree
  <1>1. CASE Opens(s)
    BY <1>1, SameOutcome DEF Opens, SameAttempts, SameScore, SameClass
  <1>2. CASE Restarts(s)
    BY <1>2, SameOutcome DEF Restarts, SameAttempts, SameScore
  <1>3. CASE IsScored(s)
    <2>1. \A n \in 1 .. Len(attempts[s]) : attempts[s][n] # "open"
      <3>1. attempts[s] \in Seq(Outcome) /\ current[s] = Len(attempts[s])
        BY DEF TypeOK
      <3>2. current[s] # 0 => attempts[s][current[s]] # "open"
        BY <1>3 DEF IsScored, RowAgrees, CurrentOutcome
      <3> QED BY <3>1, <3>2
    <2> QED BY <1>3, <2>1, SameOutcome DEF IsScored, SameAttempts, SameClass
  <1>4. CASE IsFlagged(s)
    BY <1>4, SameOutcome DEF IsFlagged, SameAttempts, SameScore, SameClass
  <1>5. CASE IsAttempted(s)
    <2>1. /\ current'[s] = Len(attempts'[s])
          /\ CurrentOutcome(s)' = "open"
          /\ \A n \in 1 .. Len(attempts'[s]) : attempts'[s][n] = "open" => n = current'[s]
      BY <1>5, AddKeepsRest DEF IsAttempted, Outcome
    <2>2. class'[s] = "none" /\ s \notin scored' /\ status'[s] = "ai_grading"
      BY <1>5 DEF IsAttempted, SameScore, SameClass, RowAgrees
    <2> QED BY <2>1, <2>2
  <1>6. CASE IsGraded(s)
    <2>1. /\ current'[s] = Len(attempts'[s])
          /\ CurrentOutcome(s)' = "graded"
          /\ \A n \in 1 .. Len(attempts'[s]) : attempts'[s][n] # "open"
      BY <1>6, CloseKeepsRest DEF IsGraded
    <2>2. class'[s] = "none" /\ s \in scored'
      BY <1>6 DEF IsGraded, SameClass, RowAgrees
    <2> QED BY <2>1, <2>2
  <1>7. CASE IsGivenUp(s)
    <2>1. /\ current'[s] = Len(attempts'[s])
          /\ CurrentOutcome(s)' = "ungradable"
          /\ \A n \in 1 .. Len(attempts'[s]) : attempts'[s][n] # "open"
      <3>1. CASE ClosesAttempt(s, "ungradable")
        BY <3>1, CloseKeepsRest
      <3>2. CASE AddsAttempt(s, "ungradable")
        <4>1. /\ attempts[s] \in Seq(Outcome)
              /\ \A n \in 1 .. Len(attempts'[s]) : attempts'[s][n] = "open" => n = current'[s]
              /\ current'[s] = Len(attempts'[s]) /\ CurrentOutcome(s)' = "ungradable"
          BY <3>2, AddKeepsRest DEF TypeOK, Outcome
        <4>2. current'[s] # 0 /\ attempts'[s][current'[s]] = "ungradable"
          BY <4>1 DEF CurrentOutcome
        <4> QED BY <4>1, <4>2
      <3> QED BY <1>7, <3>1, <3>2 DEF IsGivenUp
    <2>2. s \notin scored'
      BY <1>7 DEF IsGivenUp, SameScore, RowAgrees
    <2> QED BY <2>1, <2>2
  <1>8. CASE IsRejudged(s)
    BY <1>8, SameOutcome DEF IsRejudged, SameAttempts, SameClass
  <1>9. CASE IsPublished(s)
    BY <1>9, SameOutcome DEF IsPublished, SameAttempts, SameScore, SameClass, Publishable
  <1> QED BY <1>1, <1>2, <1>3, <1>4, <1>5, <1>6, <1>7, <1>8, <1>9 DEF RowMove

LEMMA MoveKeepsRow ==
  ASSUME TypeOK, NEW s \in Submission, AttemptsAgree(s), RowAgrees(s), RowMove(s)
  PROVE  RowAgrees(s)'
  <1>1. CASE Opens(s)
    BY <1>1, SameOutcome DEF RowAgrees, Opens, SameScore, SameClass
  <1>2. CASE Restarts(s)
    BY <1>2, SameOutcome DEF RowAgrees, Restarts, SameScore
  <1>3. CASE IsScored(s)
    BY <1>3, SameOutcome DEF RowAgrees, IsScored, SameClass
  <1>4. CASE IsFlagged(s)
    BY <1>4, SameOutcome DEF RowAgrees, IsFlagged, SameScore, SameClass
  <1>5. CASE IsAttempted(s)
    BY <1>5 DEF RowAgrees, IsAttempted, SameScore, SameClass
  <1>6. CASE IsGraded(s)
    BY <1>6 DEF RowAgrees, IsGraded, SameClass
  <1>7. CASE IsGivenUp(s)
    <2>1. CurrentOutcome(s)' # "open"
      BY <1>7, CloseKeepsRest, AddKeepsRest DEF IsGivenUp, Outcome
    <2> QED BY <1>7, <2>1 DEF RowAgrees, IsGivenUp, SameScore
  <1>8. CASE IsRejudged(s)
    <2>1. CurrentOutcome(s)' = CurrentOutcome(s)
      BY <1>8, SameOutcome DEF IsRejudged
    <2>2. /\ (s \in scored' <=> s \in scored) /\ class'[s] = class[s]
          /\ s \in manual => s \in manual'
          /\ s \in reviewed => s \in reviewed'
      BY <1>8 DEF IsRejudged, SameClass, RowMove
    <2>3. CASE status'[s] = status[s]
      BY <1>8, <2>1, <2>2, <2>3 DEF RowAgrees, IsRejudged
    <2>4. CASE status'[s] # status[s]
      BY <1>8, <2>1, <2>2, <2>4 DEF RowAgrees, IsRejudged
    <2> QED BY <2>3, <2>4
  <1>9. CASE IsPublished(s)
    <2>1. /\ (s \in scored' <=> s \in scored) /\ class'[s] = class[s]
          /\ computed'[s] = computed[s]
          /\ s \in manual => s \in manual'
          /\ s \in reviewed => s \in reviewed'
      BY <1>9 DEF IsPublished, SameScore, SameClass, RowMove
    <2>2. s \notin Investigated => status[s] = "teacher_reviewed"
      BY <1>9 DEF IsPublished, Publishable, RowAgrees
    <2> QED BY <1>9, <2>1, <2>2, SameOutcome DEF RowAgrees, IsPublished
  <1> QED BY <1>1, <1>2, <1>3, <1>4, <1>5, <1>6, <1>7, <1>8, <1>9 DEF RowMove

LEMMA MoveKeepsClosed ==
  ASSUME TypeOK, NEW s \in Submission, AttemptsAgree(s), RowMove(s)
  PROVE  /\ Len(attempts[s]) <= Len(attempts'[s])
         /\ \A n \in 1 .. Len(attempts[s]) :
               attempts[s][n] # "open" => attempts'[s][n] = attempts[s][n]
  <1>1. CASE SameAttempts(s)
    <2>1. attempts[s] \in Seq(Outcome) /\ Len(attempts[s]) \in Nat
      BY DEF TypeOK
    <2> QED BY <1>1, <2>1 DEF SameAttempts
  <1>2. ASSUME NEW outcome \in Outcome, AddsAttempt(s, outcome)
        PROVE  /\ Len(attempts[s]) <= Len(attempts'[s])
               /\ \A n \in 1 .. Len(attempts[s]) : attempts'[s][n] = attempts[s][n]
    BY <1>2, AddKeepsRest
  <1>3. ASSUME NEW outcome \in {"graded", "ungradable"}, ClosesAttempt(s, outcome)
        PROVE  /\ Len(attempts[s]) <= Len(attempts'[s])
               /\ \A n \in 1 .. Len(attempts[s]) :
                     attempts[s][n] # "open" => attempts'[s][n] = attempts[s][n]
    BY <1>3, CloseKeepsRest
  <1>4. \/ SameAttempts(s)
        \/ \E outcome \in Outcome : AddsAttempt(s, outcome)
        \/ \E outcome \in {"graded", "ungradable"} : ClosesAttempt(s, outcome)
    BY DEF RowMove, Opens, Restarts, IsScored, IsFlagged, IsAttempted, IsGraded, IsGivenUp,
           IsRejudged, IsPublished, Outcome
  <1> QED BY <1>1, <1>2, <1>3, <1>4

-----------------------------------------------------------------------------
(* Every step is such a move of every row.                                 *)

SameReviews(s) == (s \in manual => s \in manual') /\ (s \in reviewed => s \in reviewed')

LEMMA StayMove ==
  ASSUME NEW s \in Submission, RowAgrees(s), status'[s] = status[s],
         SameAttempts(s), SameScore(s), SameClass(s), SameReviews(s)
  PROVE  RowMove(s)
  <1>1. IsRejudged(s)
    BY DEF IsRejudged, SameScore, SameReviews, RowAgrees
  <1> QED BY <1>1 DEF RowMove, SameReviews

LEMMA RowsSame ==
  ASSUME UNCHANGED rows, NEW s \in Submission
  PROVE  /\ status'[s] = status[s]
         /\ SameAttempts(s) /\ SameScore(s) /\ SameClass(s) /\ SameReviews(s)
  BY DEF rows, SameAttempts, SameScore, SameClass, SameReviews

LEMMA SameRowsMove ==
  ASSUME IInv, UNCHANGED rows, NEW s \in Submission
  PROVE  RowMove(s)
  BY RowsSame, StayMove DEF IInv

LEMMA StatusesAt ==
  ASSUME TypeOK, NEW S, NEW to, NEW s \in Submission, status' = Statuses(S, to)
  PROVE  status'[s] = IF s \in S THEN to ELSE status[s]
  BY DEF Statuses

LEMMA JudgedAt ==
  ASSUME TypeOK, NEW S, NEW s \in Submission, status' = Judged(S)
  PROVE  status'[s] = IF s \in S /\ status[s] \in {"auto_approved", "flagged_for_review"}
                      THEN "teacher_reviewed" ELSE status[s]
  BY DEF Judged

(* A verdict on rows of which the one_shot ones have a trace of it.        *)
LEMMA JudgedMove ==
  ASSUME IInv, NEW S, NEW s \in Submission, status' = Judged(S),
         SameAttempts(s), SameScore(s), SameClass(s), SameReviews(s),
         s \in S => s \in Investigated \cup reviewed' \cup manual'
  PROVE  RowMove(s)
  <1>1. CASE status'[s] = status[s]
    BY <1>1, StayMove DEF IInv
  <1>2. CASE status'[s] # status[s]
    <2>1. /\ s \in S /\ status[s] \in {"auto_approved", "flagged_for_review"}
          /\ status'[s] = "teacher_reviewed"
      BY <1>2, JudgedAt DEF IInv
    <2>2. IsRejudged(s)
      BY <2>1 DEF IsRejudged, SameScore
    <2> QED BY <2>2 DEF RowMove, SameReviews
  <1> QED BY <1>1, <1>2

LEMMA RequestMove ==
  ASSUME IInv, NEW r \in Request, NEW x \in Submission,
         \/ StartRead(r) \/ StuckRead(r) \/ RequestStep(r)
         \/ \E s \in Submission : RegradeRequeue(r, s) \/ ReviewRead(r, s)
  PROVE  RowMove(x)
  <1>0. TypeOK /\ RowAgrees(x)
    BY DEF IInv
  <1>1. CASE StartRead(r) \/ StuckRead(r) \/ StartEnqueue(r) \/ StuckEnqueue(r)
             \/ RegradeEnqueue(r) \/ EnqueueFails(r) \/ \E s \in Submission : ReviewRead(r, s)
    <2>1. UNCHANGED rows
      BY <1>1 DEF StartRead, StuckRead, StartEnqueue, StuckEnqueue, RegradeEnqueue,
                  EnqueueFails, ReviewRead
    <2> QED BY <2>1, SameRowsMove
  <1>2. CASE StartSave(r) \/ SaveFails(r)
    <2>1. SameAttempts(x) /\ SameScore(x) /\ SameClass(x) /\ SameReviews(x)
      BY <1>2 DEF StartSave, SaveFails, SameAttempts, SameScore, SameClass, SameReviews
    <2>2. CASE status'[x] = status[x]
      BY <1>0, <2>1, <2>2, StayMove
    <2>3. CASE status'[x] # status[x]
      <3>1. PICK saved \in SUBSET request[r].todo :
               /\ \A s \in saved : status[s] = "none"
               /\ status' = Statuses(saved, "ai_grading")
        BY <1>2 DEF StartSave, SaveFails
      <3>2. status[x] = "none" /\ status'[x] = "ai_grading"
        BY <1>0, <2>3, <3>1, StatusesAt
      <3>3. Opens(x)
        BY <2>1, <3>2 DEF Opens
      <3> QED BY <2>1, <3>3 DEF RowMove, SameReviews
    <2> QED BY <2>2, <2>3
  <1>3. CASE ReviewWrite(r)
    <2>1. SameAttempts(x) /\ SameScore(x) /\ SameClass(x) /\ SameReviews(x)
      BY <1>3 DEF ReviewWrite, SameAttempts, SameScore, SameClass, SameReviews
    <2>2. status' = Judged(request[r].todo) /\ reviewed' = reviewed \cup request[r].todo
      BY <1>3 DEF ReviewWrite
    <2> QED BY <2>1, <2>2, JudgedMove
  <1>4. ASSUME NEW s \in Submission, RegradeRequeue(r, s) PROVE RowMove(x)
    <2>1. SameAttempts(x) /\ SameScore(x) /\ SameReviews(x)
      BY <1>4 DEF RegradeRequeue, SameAttempts, SameScore, SameReviews
    <2>2. CASE x = s
      <3>1. status'[x] = "ai_grading"
        BY <1>0, <1>4, <2>2, StatusesAt DEF RegradeRequeue
      <3>2. class'[x] = "none"
        BY <1>0, <1>4, <2>2 DEF RegradeRequeue, TypeOK
      <3>3. CanRegrade(x)
        BY <1>4, <2>2 DEF RegradeRequeue
      <3>4. Restarts(x)
        BY <2>1, <3>1, <3>2, <3>3 DEF CanRegrade, Restarts
      <3> QED BY <2>1, <3>4 DEF RowMove, SameReviews
    <2>3. CASE x # s
      <3>1. status'[x] = status[x]
        BY <1>0, <1>4, <2>3, StatusesAt DEF RegradeRequeue
      <3>2. SameClass(x)
        BY <1>0, <1>4, <2>3 DEF RegradeRequeue, SameClass, TypeOK
      <3> QED BY <1>0, <2>1, <3>1, <3>2, StayMove
    <2> QED BY <2>2, <2>3
  <1> QED BY <1>1, <1>2, <1>3, <1>4 DEF RequestStep

(* The running attempt of a call, closed.                                  *)
LEMMA CloseMove ==
  ASSUME TypeOK, NEW s \in Submission, AttemptsAgree(s), NEW n \in Nat, IsRunning(s, n),
         NEW outcome \in {"graded", "ungradable"}, Close(s, n, outcome), current' = current
  PROVE  /\ ClosesAttempt(s, outcome)
         /\ \A x \in Submission : x # s => SameAttempts(x)
  <1>1. n = current[s] /\ CurrentOutcome(s) = "open"
    BY DEF IsRunning
  <1>2. /\ attempts'[s] = [attempts[s] EXCEPT ![n] = outcome]
        /\ \A x \in Submission : x # s => attempts'[x] = attempts[x]
    BY DEF Close, TypeOK
  <1> QED BY <1>1, <1>2 DEF ClosesAttempt, SameAttempts

(* An attempt added to one row.                                            *)
LEMMA AppendMove ==
  ASSUME TypeOK, NEW s \in Submission, CurrentOutcome(s) # "open", NEW outcome \in Outcome,
         attempts' = [attempts EXCEPT ![s] = Append(@, outcome)],
         current' = [current EXCEPT ![s] = Len(attempts[s]) + 1]
  PROVE  /\ AddsAttempt(s, outcome)
         /\ \A x \in Submission : x # s => SameAttempts(x)
  BY DEF TypeOK, AddsAttempt, SameAttempts

LEMMA CallMove ==
  ASSUME IInv, NEW s \in Submission, NEW c \in Slot, CallStep(s, c) \/ CallFails(s, c),
         NEW x \in Submission
  PROVE  RowMove(x)
  <1>0. /\ TypeOK /\ RowAgrees(x) /\ RowAgrees(s) /\ AttemptsAgree(s)
        /\ call[s][c].attempt \in Nat
    BY DEF IInv, TypeOK
  <1>1. CASE WriteScore(s, c)
    <2>1. SameAttempts(x) /\ computed'[x] = computed[x] /\ SameClass(x) /\ SameReviews(x)
      BY <1>1 DEF WriteScore, SameAttempts, SameClass, SameReviews
    <2>2. CASE x = s /\ status[s] = "ai_grading"
      <3>1. /\ status' = Statuses({s}, "ai_graded") /\ s \in scored'
            /\ call[s][c].step = "model"
        BY <1>1, <2>2 DEF WriteScore
      <3>2. IsScored(x)
        BY <1>0, <2>1, <2>2, <3>1, StatusesAt DEF IsScored, IInv, CallsAgree
      <3> QED BY <2>1, <3>2 DEF RowMove, SameReviews
    <2>3. CASE x # s /\ status[s] = "ai_grading"
      <3>1. status' = Statuses({s}, "ai_graded") /\ scored' = scored \cup {s}
        BY <1>1, <2>3 DEF WriteScore
      <3>2. status'[x] = status[x] /\ SameScore(x)
        BY <1>0, <2>1, <2>3, <3>1, StatusesAt DEF SameScore
      <3> QED BY <1>0, <2>1, <3>2, StayMove
    <2>4. CASE status[s] # "ai_grading"
      <3>1. UNCHANGED <<status, scored>>
        BY <1>1, <2>4 DEF WriteScore
      <3> QED BY <1>0, <2>1, <3>1, StayMove DEF SameScore
    <2> QED BY <2>2, <2>3, <2>4
  <1>2. CASE Flag(s, c)
    <2>1. SameAttempts(x) /\ SameScore(x) /\ SameClass(x) /\ SameReviews(x)
      BY <1>2 DEF Flag, SameAttempts, SameScore, SameClass, SameReviews
    <2>2. CASE x = s /\ status[s] = "ai_graded"
      <3>1. status' = Statuses({s}, "flagged_for_review")
        BY <1>2, <2>2 DEF Flag
      <3>2. IsFlagged(x)
        BY <1>0, <2>1, <2>2, <3>1, StatusesAt DEF IsFlagged
      <3> QED BY <2>1, <3>2 DEF RowMove, SameReviews
    <2>3. CASE x # s \/ status[s] # "ai_graded"
      <3>1. status'[x] = status[x]
        BY <1>0, <1>2, <2>3, StatusesAt DEF Flag
      <3> QED BY <1>0, <2>1, <3>1, StayMove
    <2> QED BY <2>2, <2>3
  <1>3. CASE StartAttempt(s, c)
    <2>1. SameScore(x) /\ SameClass(x) /\ SameReviews(x) /\ status'[x] = status[x]
      BY <1>3 DEF StartAttempt, SameScore, SameClass, SameReviews
    <2>2. CASE UNCHANGED <<attempts, current>>
      BY <1>0, <2>1, <2>2, StayMove DEF SameAttempts
    <2>3. CASE /\ status[s] = "ai_grading" /\ CurrentOutcome(s) # "open"
               /\ attempts' = [attempts EXCEPT ![s] = Append(@, "open")]
               /\ current' = [current EXCEPT ![s] = Len(attempts[s]) + 1]
      <3>1. AddsAttempt(s, "open") /\ \A y \in Submission : y # s => SameAttempts(y)
        BY <1>0, <2>3, AppendMove DEF Outcome
      <3>2. s \in Investigated
        BY <1>3 DEF StartAttempt, IInv, CallsAgree
      <3>3. CASE x = s
        BY <2>1, <2>3, <3>1, <3>2, <3>3 DEF RowMove, IsAttempted, SameReviews
      <3>4. CASE x # s
        BY <1>0, <2>1, <3>1, <3>4, StayMove
      <3> QED BY <3>3, <3>4
    <2> QED BY <1>3, <2>2, <2>3 DEF StartAttempt
  <1>4. ASSUME NEW first \in {"auto_approved", "audit_pending", "flagged_for_review"},
               FinishGraded(s, c, first)
        PROVE  RowMove(x)
    <2>1. SameClass(x) /\ SameReviews(x)
      BY <1>4 DEF FinishGraded, SameClass, SameReviews
    <2>2. /\ ClosesAttempt(s, "graded")
          /\ \A y \in Submission : y # s => SameAttempts(y)
      BY <1>0, <1>4, CloseMove DEF FinishGraded
    <2>3. PICK drawn \in SUBSET Investigated :
             /\ Drawn(Statuses({s}, first), drawn)
             /\ status' = [y \in Submission |-> IF y \in drawn THEN "audit_pending"
                                                ELSE Statuses({s}, first)[y]]
      BY <1>4 DEF FinishGraded
    <2>4. x \in drawn => Statuses({s}, first)[x] = "auto_approved"
      BY <2>3 DEF Drawn
    <2>5. Statuses({s}, first)[x] = IF x = s THEN first ELSE status[x]
      BY DEF Statuses
    <2>6. status'[x] = IF x \in drawn THEN "audit_pending" ELSE IF x = s THEN first ELSE status[x]
      BY <2>3, <2>5
    <2>7. CASE x = s
      <3>1. status'[x] \in {"auto_approved", "audit_pending", "flagged_for_review"}
        BY <2>6, <2>7
      <3>2. /\ s \in Investigated /\ status[s] = "ai_grading"
            /\ s \in scored' /\ computed'[s] = "score"
        BY <1>0, <1>4 DEF FinishGraded, IsRunning, IInv, CallsAgree, TypeOK
      <3> QED BY <2>1, <2>2, <2>7, <3>1, <3>2 DEF RowMove, IsGraded, SameReviews
    <2>8. CASE x # s
      <3>1. SameScore(x) /\ SameAttempts(x)
        BY <1>0, <1>4, <2>2, <2>8 DEF FinishGraded, SameScore, TypeOK
      <3>2. CASE x \in drawn
        <4>1. status[x] = "auto_approved" /\ status'[x] = "audit_pending"
          BY <2>4, <2>5, <2>6, <2>8, <3>2
        <4> QED BY <2>1, <3>1, <4>1 DEF RowMove, IsRejudged, SameScore, SameReviews
      <3>3. CASE x \notin drawn
        BY <1>0, <2>1, <2>6, <2>8, <3>1, <3>3, StayMove
      <3> QED BY <3>2, <3>3
    <2> QED BY <2>7, <2>8
  <1>5. ASSUME NEW why \in {"system", "submission"}, FinishUngradable(s, c, why)
        PROVE  RowMove(x)
    <2>1. SameScore(x) /\ SameReviews(x)
      BY <1>5 DEF FinishUngradable, SameScore, SameReviews
    <2>2. /\ ClosesAttempt(s, "ungradable")
          /\ \A y \in Submission : y # s => SameAttempts(y)
      BY <1>0, <1>5, CloseMove DEF FinishUngradable
    <2>3. status'[x] = IF x = s THEN "flagged_for_review" ELSE status[x]
      BY <1>0, <1>5, StatusesAt DEF FinishUngradable
    <2>4. class'[x] = IF x = s THEN why ELSE class[x]
      BY <1>0, <1>5 DEF FinishUngradable, TypeOK
    <2>5. CASE x = s
      <3>1. status[s] = "ai_grading"
        BY <1>5 DEF FinishUngradable, IsRunning
      <3> QED BY <2>1, <2>2, <2>3, <2>4, <2>5, <3>1 DEF RowMove, IsGivenUp, SameReviews
    <2>6. CASE x # s
      BY <1>0, <2>1, <2>2, <2>3, <2>4, <2>6, StayMove DEF SameClass
    <2> QED BY <2>5, <2>6
  <1>6. CASE FinishStale(s, c) \/ CallFails(s, c)
    <2>1. UNCHANGED rows
      BY <1>6 DEF FinishStale, CallFails, Throw
    <2> QED BY <2>1, SameRowsMove
  <1> QED BY <1>1, <1>2, <1>3, <1>4, <1>5, <1>6 DEF CallStep

LEMMA WorkerMove ==
  ASSUME IInv, NEW s \in Submission, NEW x \in Submission,
         Take(s) \/ Timeout(s) \/ Complete(s) \/ MarkUngradable(s) \/ MarkFails(s)
  PROVE  RowMove(x)
  <1>0. TypeOK /\ RowAgrees(x) /\ RowAgrees(s) /\ AttemptsAgree(s)
    BY DEF IInv
  <1>1. CASE Take(s) \/ Timeout(s) \/ Complete(s) \/ MarkFails(s)
    <2>1. UNCHANGED rows
      BY <1>1 DEF Take, Timeout, Complete, MarkFails
    <2> QED BY <2>1, SameRowsMove
  <1>2. CASE MarkUngradable(s)
    <2>1. SameScore(x) /\ SameReviews(x)
      BY <1>2 DEF MarkUngradable, SameScore, SameReviews
    <2>2. CASE status[s] # "ai_grading"
      <3>1. UNCHANGED <<status, class, attempts, current>>
        BY <1>2, <2>2 DEF MarkUngradable
      <3> QED BY <1>0, <2>1, <3>1, StayMove DEF SameAttempts, SameClass
    <2>3. CASE status[s] = "ai_grading"
      <3>1. /\ status' = Statuses({s}, "flagged_for_review")
            /\ class' = [class EXCEPT ![s] = "system"]
            /\ RecordFailure(s)
        BY <1>2, <2>3 DEF MarkUngradable
      <3>2. /\ ClosesAttempt(s, "ungradable") \/ AddsAttempt(s, "ungradable")
            /\ \A y \in Submission : y # s => SameAttempts(y)
        <4>1. CASE CurrentOutcome(s) = "open"
          <5>1. Close(s, current[s], "ungradable") /\ current' = current
            BY <3>1, <4>1 DEF RecordFailure
          <5>2. IsRunning(s, current[s]) /\ current[s] \in Nat
            BY <1>0, <2>3, <4>1 DEF IsRunning, TypeOK
          <5> QED BY <1>0, <5>1, <5>2, CloseMove
        <4>2. CASE CurrentOutcome(s) # "open"
          BY <1>0, <3>1, <4>2, AppendMove DEF RecordFailure, AddFailure, Outcome
        <4> QED BY <4>1, <4>2
      <3>3. status'[x] = IF x = s THEN "flagged_for_review" ELSE status[x]
        BY <1>0, <3>1, StatusesAt
      <3>4. class'[x] = IF x = s THEN "system" ELSE class[x]
        BY <1>0, <3>1 DEF TypeOK
      <3>5. CASE x = s
        BY <2>1, <2>3, <3>2, <3>3, <3>4, <3>5 DEF RowMove, IsGivenUp, SameReviews
      <3>6. CASE x # s
        BY <1>0, <2>1, <3>2, <3>3, <3>4, <3>6, StayMove DEF SameClass
      <3> QED BY <3>5, <3>6
    <2> QED BY <2>2, <2>3
  <1> QED BY <1>1, <1>2

(* A recomputation over rows that carry a graded attempt.                  *)
LEMMA RecomputeMove ==
  ASSUME IInv, NEW scope \in SUBSET Recomputable, NEW outcome \in [scope -> {"auto", "flagged", "floor"}],
         NEW after, Recompute(outcome, after), NEW x \in Submission,
         after[x] = status[x],
         SameAttempts(x), x \in scored' <=> x \in scored, SameClass(x), SameReviews(x)
  PROVE  RowMove(x)
  <1>0. TypeOK /\ RowAgrees(x) /\ AttemptsAgree(x) /\ DOMAIN outcome = scope
    BY DEF IInv
  <1>1. CASE x \notin scope
    <2>1. status'[x] = status[x] /\ SameScore(x)
      BY <1>0, <1>1 DEF Recompute, SameScore
    <2> QED BY <1>0, <2>1, StayMove
  <1>2. CASE x \in scope
    <2>1. /\ x \in Investigated /\ x \in scored
          /\ status[x] \in Editable \cup {"audit_pending"}
      BY <1>0, <1>2 DEF Recomputable, AttemptsAgree
    <2>2. status'[x] = IF outcome[x] = "auto"
                THEN IF after[x] = "flagged_for_review" /\ class[x] = "none"
                     THEN "auto_approved" ELSE after[x]
                ELSE IF after[x] \in {"auto_approved", "audit_pending"}
                     THEN "flagged_for_review" ELSE after[x]
      BY <1>0, <1>2 DEF Recompute
    <2>3. IsRejudged(x)
      BY <2>1, <2>2 DEF IsRejudged, Editable
    <2> QED BY <2>3 DEF RowMove, SameReviews
  <1> QED BY <1>1, <1>2

LEMMA TeacherMove ==
  ASSUME IInv, NEW x \in Submission,
         \/ \E s \in Submission : SetManualScore(s) \/ SetErrorException(s) \/ RecordAudit(s)
         \/ ChangeRules \/ ConfirmGroup \/ FinalizeRead \/ FinalizeCommit
  PROVE  RowMove(x)
  <1>0. TypeOK /\ RowAgrees(x) /\ AttemptsAgree(x)
    BY DEF IInv
  <1>1. ASSUME NEW s \in Submission, SetManualScore(s) PROVE RowMove(x)
    <2>1. SameAttempts(x) /\ SameScore(x) /\ SameClass(x) /\ SameReviews(x)
      BY <1>1 DEF SetManualScore, SameAttempts, SameScore, SameClass, SameReviews
    <2>2. status' = Judged({s}) /\ s \in manual'
      BY <1>1 DEF SetManualScore
    <2> QED BY <2>1, <2>2, JudgedMove
  <1>2. ASSUME NEW s \in Submission, SetErrorException(s) PROVE RowMove(x)
    <2>1. /\ SameAttempts(x) /\ (x \in scored' <=> x \in scored)
          /\ SameClass(x) /\ SameReviews(x)
      BY <1>2 DEF SetErrorException, SameAttempts, SameClass, SameReviews
    <2>2. status' = Judged({s}) /\ s \in Investigated /\ status[s] \in Editable
          /\ computed[s] # "none"
      BY <1>2 DEF SetErrorException
    <2>3. CASE x = s
      <3>1. status'[x] = IF status[x] \in {"auto_approved", "flagged_for_review"}
                         THEN "teacher_reviewed" ELSE status[x]
        BY <1>0, <2>2, <2>3, JudgedAt
      <3>2. x \in scored
        BY <1>0, <2>2, <2>3 DEF RowAgrees
      <3> QED BY <2>1, <2>2, <2>3, <3>1, <3>2 DEF RowMove, IsRejudged, Editable, SameReviews
    <2>4. CASE x # s
      <3>1. computed'[x] = computed[x]
        BY <1>0, <1>2, <2>4 DEF SetErrorException, TypeOK
      <3> QED BY <2>1, <2>2, <2>4, <3>1, JudgedMove DEF SameScore
    <2> QED BY <2>3, <2>4
  <1>3. ASSUME NEW s \in Submission, RecordAudit(s) PROVE RowMove(x)
    <2>0. PICK scope \in SUBSET (Recomputable \ {s}) :
             \E outcome \in [scope -> {"flagged", "floor"}] :
                Recompute(outcome, Statuses({s}, "teacher_reviewed"))
      BY <1>3 DEF RecordAudit
    <2>1. PICK outcome \in [scope -> {"flagged", "floor"}] :
             Recompute(outcome, Statuses({s}, "teacher_reviewed"))
      BY <2>0
    <2>2. /\ SameAttempts(x) /\ (x \in scored' <=> x \in scored)
          /\ SameClass(x) /\ SameReviews(x) /\ status[s] = "audit_pending"
      BY <1>3 DEF RecordAudit, SameAttempts, SameClass, SameReviews
    <2>3. Statuses({s}, "teacher_reviewed")[x] = IF x = s THEN "teacher_reviewed" ELSE status[x]
      BY DEF Statuses
    <2>4. CASE x = s
      <3>1. x \notin DOMAIN outcome
        BY <2>4
      <3>2. status'[x] = "teacher_reviewed" /\ computed'[x] = computed[x]
        BY <2>1, <2>3, <2>4, <3>1 DEF Recompute
      <3>3. x \in Investigated
        BY <1>0, <2>2, <2>4 DEF RowAgrees
      <3> QED BY <2>2, <2>4, <3>2, <3>3 DEF RowMove, IsRejudged, SameReviews
    <2>5. CASE x # s
      <3>1. scope \in SUBSET Recomputable /\ outcome \in [scope -> {"auto", "flagged", "floor"}]
        OBVIOUS
      <3> QED BY <2>1, <2>2, <2>3, <2>5, <3>1, RecomputeMove
    <2> QED BY <2>4, <2>5
  <1>4. CASE ChangeRules
    <2>1. PICK scope \in SUBSET Recomputable :
             \E outcome \in [scope -> {"auto", "flagged", "floor"}] : Recompute(outcome, status)
      BY <1>4 DEF ChangeRules
    <2>2. /\ SameAttempts(x) /\ (x \in scored' <=> x \in scored)
          /\ SameClass(x) /\ SameReviews(x)
      BY <1>4 DEF ChangeRules, SameAttempts, SameClass, SameReviews
    <2> QED BY <2>1, <2>2, RecomputeMove
  <1>5. CASE ConfirmGroup
    <2>1. SameAttempts(x) /\ SameScore(x) /\ SameClass(x) /\ SameReviews(x)
      BY <1>5 DEF ConfirmGroup, SameAttempts, SameScore, SameClass, SameReviews
    <2>2. PICK group \in SUBSET Investigated : status' = Judged(group)
      BY <1>5 DEF ConfirmGroup
    <2> QED BY <2>1, <2>2, JudgedMove
  <1>6. CASE FinalizeRead
    <2>1. UNCHANGED rows
      BY <1>6 DEF FinalizeRead
    <2> QED BY <2>1, SameRowsMove
  <1>7. CASE FinalizeCommit
    <2>1. SameAttempts(x) /\ SameScore(x) /\ SameClass(x) /\ SameReviews(x)
      BY <1>7 DEF FinalizeCommit, SameAttempts, SameScore, SameClass, SameReviews
    <2>2. status'[x] = IF x \in ToPublish THEN "finalized" ELSE status[x]
      BY <1>0, <1>7, StatusesAt DEF FinalizeCommit
    <2>3. CASE x \in ToPublish
      <3>1. /\ status[x] \in Publishable
            /\ x \in Investigated => computed[x] = "score" \/ x \in manual
        BY <2>3 DEF IInv, PublicationIsStable, ToPublish
      <3> QED BY <2>1, <2>2, <2>3, <3>1 DEF RowMove, IsPublished, SameReviews
    <2>4. CASE x \notin ToPublish
      BY <1>0, <2>1, <2>2, <2>4, StayMove
    <2> QED BY <2>3, <2>4
  <1> QED BY <1>1, <1>2, <1>3, <1>4, <1>5, <1>6, <1>7

LEMMA NextMove ==
  ASSUME IInv, [Next]_vars, NEW x \in Submission
  PROVE  RowMove(x)
  <1>1. CASE UNCHANGED vars
    BY <1>1, SameRowsMove DEF vars
  <1>2. CASE Crash
    BY <1>2, SameRowsMove DEF Crash
  <1>3. CASE Next /\ ~Crash
    BY <1>3, RequestMove, CallMove, WorkerMove, TeacherMove DEF Next
  <1> QED BY <1>1, <1>2, <1>3

-----------------------------------------------------------------------------
(* The calls, the requests and the publication.                            *)

LEMMA CallsNext == IInv /\ [Next]_vars => CallsAgree'
  <1> SUFFICES ASSUME IInv, [Next]_vars PROVE CallsAgree'
    OBVIOUS
  <1> USE DEF IInv, CallsAgree
  <1>0. /\ call \in [Submission -> [Slot -> [step : Step, attempt : Nat]]]
        /\ Slot = {"live", "stray"}
    BY DEF TypeOK, Step, Slot
  <1>1. ASSUME UNCHANGED call PROVE CallsAgree'
    BY <1>1
  <1>2. ASSUME NEW s \in Submission, NEW c \in Slot, NEW step, NEW n, Goto(s, c, step, n),
               step \in {"model", "flag"} => s \notin Investigated,
               step \in {"start", "investigate"} => s \in Investigated
        PROVE  CallsAgree'
    <2>1. \A x \in Submission, d \in Slot :
             call'[x][d].step = IF x = s /\ d = c THEN step ELSE call[x][d].step
      BY <1>0, <1>2 DEF Goto
    <2> QED BY <1>2, <2>1
  <1>3. ASSUME NEW s \in Submission, NEW c \in Slot, Return(s, c) PROVE CallsAgree'
    BY <1>2, <1>3 DEF Return
  <1>4. ASSUME NEW s \in Submission, NEW c \in Slot, call' = [call EXCEPT ![s][c] = Idle]
        PROVE  CallsAgree'
    BY <1>2, <1>4 DEF Goto, Idle
  <1>5. ASSUME NEW s \in Submission, NEW c \in Slot, CallStep(s, c) \/ CallFails(s, c)
        PROVE  CallsAgree'
    <2>1. CASE WriteScore(s, c)
      BY <1>2, <1>3, <1>5, <2>1 DEF WriteScore
    <2>2. CASE Flag(s, c)
      BY <1>3, <1>5, <2>2 DEF Flag
    <2>3. CASE StartAttempt(s, c)
      BY <1>2, <1>3, <1>5, <2>3 DEF StartAttempt
    <2>4. CASE \E first \in {"auto_approved", "audit_pending", "flagged_for_review"} :
                  FinishGraded(s, c, first)
      BY <1>3, <1>5, <2>4 DEF FinishGraded
    <2>5. CASE \E why \in {"system", "submission"} : FinishUngradable(s, c, why)
      BY <1>3, <1>5, <2>5 DEF FinishUngradable
    <2>6. CASE FinishStale(s, c) \/ CallFails(s, c)
      BY <1>4, <1>5, <2>6 DEF FinishStale, CallFails, Throw
    <2> QED BY <1>5, <2>1, <2>2, <2>3, <2>4, <2>5, <2>6 DEF CallStep
  <1>6. ASSUME NEW s \in Submission, Take(s) PROVE CallsAgree'
    BY <1>0, <1>2, <1>6 DEF Take
  <1>7. ASSUME NEW s \in Submission, Timeout(s) PROVE CallsAgree'
    <2>1. \A x \in Submission, d \in Slot :
             \/ call'[x][d] = call[x][d]
             \/ x = s /\ call'[x][d] = Idle
             \/ x = s /\ call'[x][d] = call[x]["live"]
      BY <1>0, <1>7 DEF Timeout
    <2> QED BY <1>0, <2>1 DEF Idle
  <1>8. ASSUME NEW s \in Submission, Complete(s) PROVE CallsAgree'
    BY <1>0, <1>4, <1>8 DEF Complete
  <1>9. CASE Crash
    BY <1>9 DEF Crash, Idle
  <1>10. ASSUME NEW r \in Request,
                \/ StartRead(r) \/ StuckRead(r) \/ RequestStep(r)
                \/ \E s \in Submission : RegradeRequeue(r, s) \/ ReviewRead(r, s)
         PROVE  CallsAgree'
    <2>1. UNCHANGED call
      BY <1>10 DEF StartRead, StuckRead, RequestStep, StartSave, SaveFails, StartEnqueue,
                   StuckEnqueue, RegradeEnqueue, EnqueueFails, ReviewWrite, RegradeRequeue,
                   ReviewRead, workers
    <2> QED BY <1>1, <2>1
  <1>11. ASSUME \/ \E s \in Submission : \/ MarkUngradable(s) \/ MarkFails(s)
                                         \/ SetManualScore(s) \/ SetErrorException(s)
                                         \/ RecordAudit(s)
                \/ ChangeRules \/ ConfirmGroup \/ FinalizeRead \/ FinalizeCommit
         PROVE  CallsAgree'
    <2>1. UNCHANGED call
      BY <1>11 DEF MarkUngradable, MarkFails, SetManualScore, SetErrorException, RecordAudit,
                   ChangeRules, ConfirmGroup, FinalizeRead, FinalizeCommit, workers
    <2> QED BY <1>1, <2>1
  <1>12. CASE UNCHANGED vars
    BY <1>1, <1>12 DEF vars, workers
  <1> QED BY <1>5, <1>6, <1>7, <1>8, <1>9, <1>10, <1>11, <1>12 DEF Next

LEMMA RequestsNext == IInv /\ [Next]_vars => RequestsAgree'
  <1> SUFFICES ASSUME IInv, [Next]_vars PROVE RequestsAgree'
    OBVIOUS
  <1> USE DEF RequestsAgree
  <1>0. /\ request \in [Request -> [op : {"none", "save", "add", "stuck", "requeued", "review"},
                                    todo : SUBSET Submission]]
        /\ RequestsAgree
    BY DEF IInv, TypeOK
  <1>1. ASSUME UNCHANGED request PROVE RequestsAgree'
    BY <1>0, <1>1
  <1>2. ASSUME NEW r \in Request, NEW what, request' = [request EXCEPT ![r] = what],
               what.op = "review" => what.todo \cap Investigated = {}
        PROVE  RequestsAgree'
    <2>1. \A q \in Request : request'[q] = IF q = r THEN what ELSE request[q]
      BY <1>0, <1>2
    <2> QED BY <1>0, <1>2, <2>1
  <1>3. ASSUME NEW r \in Request,
               \/ StartRead(r) \/ StuckRead(r) \/ RequestStep(r)
               \/ \E s \in Submission : RegradeRequeue(r, s) \/ ReviewRead(r, s)
        PROVE  RequestsAgree'
    <2>1. CASE StartRead(r) \/ StuckRead(r) \/ \E s \in Submission : RegradeRequeue(r, s)
      <3>1. ASSUME NEW op \in {"save", "stuck", "requeued"}, NEW todo,
                   request' = [request EXCEPT ![r] = [op |-> op, todo |-> todo]]
            PROVE  RequestsAgree'
        <4>1. [op |-> op, todo |-> todo].op # "review"
          OBVIOUS
        <4> QED BY <1>2, <3>1, <4>1
      <3>2. CASE StartRead(r)
        BY <3>1, <3>2 DEF StartRead, Press
      <3>3. CASE StuckRead(r)
        <4>1. request' = [request EXCEPT ![r] = [op |-> "stuck",
                            todo |-> {s \in Submission : status[s] = "ai_grading"}]]
          BY <3>3 DEF StuckRead, Press
        <4>2. \E todo : request' = [request EXCEPT ![r] = [op |-> "stuck", todo |-> todo]]
          BY <4>1
        <4> QED BY <3>1, <4>2
      <3>4. CASE \E s \in Submission : RegradeRequeue(r, s)
        BY <3>1, <3>4 DEF RegradeRequeue, Press
      <3> QED BY <2>1, <3>2, <3>3, <3>4
    <2>2. CASE \E s \in Submission : ReviewRead(r, s)
      <3>1. PICK s \in Submission : ReviewRead(r, s)
        BY <2>2
      <3>2. /\ request' = [request EXCEPT ![r] = [op |-> "review", todo |-> {s}]]
            /\ [op |-> "review", todo |-> {s}].todo \cap Investigated = {}
        BY <3>1 DEF ReviewRead
      <3> QED BY <1>2, <3>2
    <2>3. CASE RequestStep(r)
      <3>1. ASSUME NEW op \in {"none", "add", "stuck"}, NEW todo,
                   request' = [request EXCEPT ![r] = [op |-> op, todo |-> todo]]
            PROVE  RequestsAgree'
        <4>1. [op |-> op, todo |-> todo].op # "review"
          OBVIOUS
        <4> QED BY <1>2, <3>1, <4>1
      <3>2. CASE request' = [request EXCEPT ![r] = NoRequest]
        BY <3>1, <3>2 DEF NoRequest
      <3>3. CASE StartSave(r)
        BY <3>1, <3>3 DEF StartSave
      <3>4. CASE StuckEnqueue(r)
        <4>1. PICK s \in request[r].todo :
                 request' = [request EXCEPT ![r] = IF request[r].todo \ {s} = {} THEN NoRequest
                                ELSE [op |-> "stuck", todo |-> request[r].todo \ {s}]]
          BY <3>4 DEF StuckEnqueue
        <4>2. CASE request[r].todo \ {s} = {}
          BY <3>2, <4>1, <4>2
        <4>3. CASE request[r].todo \ {s} # {}
          BY <3>1, <4>1, <4>3
        <4> QED BY <4>2, <4>3
      <3>5. CASE \/ SaveFails(r) \/ StartEnqueue(r) \/ RegradeEnqueue(r) \/ EnqueueFails(r)
                 \/ ReviewWrite(r)
        BY <3>2, <3>5 DEF SaveFails, StartEnqueue, RegradeEnqueue, EnqueueFails, ReviewWrite
      <3> QED BY <2>3, <3>3, <3>4, <3>5 DEF RequestStep
    <2> QED BY <1>3, <2>1, <2>2, <2>3
  <1>4. CASE Crash
    BY <1>4 DEF Crash, NoRequest
  <1>5. ASSUME NEW s \in Submission, NEW c \in Slot, CallStep(s, c) \/ CallFails(s, c)
        PROVE  RequestsAgree'
    <2>1. UNCHANGED request
      BY <1>5 DEF CallStep, CallFails, WriteScore, Flag, StartAttempt, FinishGraded,
                  FinishUngradable, FinishStale, Throw, teacher
    <2> QED BY <1>1, <2>1
  <1>6. ASSUME \/ \E s \in Submission :
                     \/ Take(s) \/ Timeout(s) \/ Complete(s) \/ MarkUngradable(s) \/ MarkFails(s)
                     \/ SetManualScore(s) \/ SetErrorException(s) \/ RecordAudit(s)
               \/ ChangeRules \/ ConfirmGroup \/ FinalizeRead \/ FinalizeCommit
        PROVE  RequestsAgree'
    <2>1. UNCHANGED request
      BY <1>6 DEF Take, Timeout, Complete, MarkUngradable, MarkFails, SetManualScore,
                  SetErrorException, RecordAudit, ChangeRules, ConfirmGroup, FinalizeRead,
                  FinalizeCommit, teacher
    <2> QED BY <1>1, <2>1
  <1>7. CASE UNCHANGED vars
    BY <1>1, <1>7 DEF vars, teacher
  <1> QED BY <1>3, <1>4, <1>5, <1>6, <1>7 DEF Next

LEMMA NothingToPublish == publishing = NotPublishing => ToPublish = {}
  BY DEF ToPublish, NotPublishing, Publishable

(* What may run while finalizeGrades holds the lock leaves alone a row it  *)
(* has read as publishable.                                                *)
LEMMA LockedKeeps ==
  ASSUME IInv, NEW s \in ToPublish,
         \/ \E r \in Request : \/ StartRead(r) \/ StuckRead(r) \/ RequestStep(r)
                               \/ \E x \in Submission : ReviewRead(r, x)
         \/ \E x \in Submission : Take(x) \/ Timeout(x) \/ Complete(x) \/ MarkFails(x)
         \/ \E x \in Submission, c \in Slot : WriteScore(x, c) \/ Flag(x, c) \/ CallFails(x, c)
  PROVE  /\ publishing' = publishing /\ status'[s] = status[s]
         /\ computed'[s] = computed[s] /\ (s \in manual => s \in manual')
  <1>0. /\ TypeOK /\ s \in Submission /\ status[s] \in Publishable /\ RowAgrees(s)
    BY DEF IInv, ToPublish, PublicationIsStable
  <1>1. CASE UNCHANGED <<rows, publishing>>
    BY <1>1 DEF rows
  <1>2. ASSUME NEW r \in Request, StartSave(r) \/ SaveFails(r) PROVE status'[s] = status[s]
    <2>1. PICK saved \in SUBSET request[r].todo :
             /\ \A x \in saved : status[x] = "none"
             /\ status' = Statuses(saved, "ai_grading")
      BY <1>2 DEF StartSave, SaveFails
    <2> QED BY <1>0, <2>1, StatusesAt DEF Publishable
  <1>3. ASSUME NEW r \in Request, ReviewWrite(r) PROVE status'[s] = status[s]
    <2>1. status' = Judged(request[r].todo) /\ request[r].todo \cap Investigated = {}
      BY <1>3 DEF ReviewWrite, IInv, RequestsAgree
    <2>2. s \in request[r].todo => status[s] = "teacher_reviewed"
      BY <1>0, <2>1 DEF RowAgrees, Publishable
    <2> QED BY <1>0, <2>1, <2>2, JudgedAt
  <1>4. ASSUME NEW x \in Submission, NEW c \in Slot, WriteScore(x, c) \/ Flag(x, c)
        PROVE  status'[s] = status[s]
    <2>1. CASE status' = status
      BY <2>1
    <2>2. CASE \E to : status[x] \in {"ai_grading", "ai_graded"} /\ status' = Statuses({x}, to)
      BY <1>0, <2>2, StatusesAt DEF Publishable
    <2> QED BY <1>4, <2>1, <2>2 DEF WriteScore, Flag
  <1>5. CASE \E r \in Request : StartSave(r) \/ SaveFails(r) \/ ReviewWrite(r)
    BY <1>2, <1>3, <1>5 DEF StartSave, SaveFails, ReviewWrite
  <1>6. CASE \E x \in Submission, c \in Slot : WriteScore(x, c) \/ Flag(x, c)
    BY <1>4, <1>6 DEF WriteScore, Flag, teacher
  <1>7. CASE \/ \E r \in Request : \/ StartRead(r) \/ StuckRead(r) \/ StartEnqueue(r)
                                   \/ StuckEnqueue(r) \/ RegradeEnqueue(r) \/ EnqueueFails(r)
                                   \/ \E x \in Submission : ReviewRead(r, x)
             \/ \E x \in Submission : Take(x) \/ Timeout(x) \/ Complete(x) \/ MarkFails(x)
             \/ \E x \in Submission, c \in Slot : CallFails(x, c)
    <2>1. UNCHANGED <<rows, publishing>>
      BY <1>7 DEF StartRead, StuckRead, StartEnqueue, StuckEnqueue, RegradeEnqueue,
                  EnqueueFails, ReviewRead, Take, Timeout, Complete, MarkFails, CallFails, Throw, teacher
    <2> QED BY <1>1, <2>1
  <1> QED BY <1>5, <1>6, <1>7 DEF RequestStep

LEMMA PublicationNext == IInv /\ [Next]_vars => PublicationIsStable'
  <1> SUFFICES ASSUME IInv, [Next]_vars PROVE PublicationIsStable'
    OBVIOUS
  <1>1. ASSUME publishing' = NotPublishing PROVE PublicationIsStable'
    <2>1. ToPublish' = {}
      BY <1>1, NothingToPublish DEF ToPublish, NotPublishing, Publishable
    <2> QED BY <2>1 DEF PublicationIsStable
  <1>2. ASSUME publishing' = publishing,
               \A s \in ToPublish : /\ status'[s] = status[s] /\ computed'[s] = computed[s]
                                    /\ s \in manual => s \in manual'
        PROVE  PublicationIsStable'
    <2>1. ToPublish' = ToPublish
      BY <1>2 DEF ToPublish
    <2>2. \A s \in ToPublish : /\ status[s] = publishing[s]
                               /\ s \in Investigated => computed[s] = "score" \/ s \in manual
      BY DEF IInv, PublicationIsStable
    <2> QED BY <1>2, <2>1, <2>2 DEF PublicationIsStable
  <1>3. CASE UNCHANGED vars
    BY <1>2, <1>3 DEF vars, rows, teacher
  <1>4. CASE Crash \/ FinalizeCommit
    BY <1>1, <1>4 DEF Crash, FinalizeCommit
  <1>5. CASE FinalizeRead
    <2>1. UNCHANGED rows /\ publishing' = status
      BY <1>5 DEF FinalizeRead
    <2>2. \A s \in Investigated : status[s] \in Publishable => computed[s] = "score" \/ s \in manual
      BY <1>5 DEF FinalizeRead, HasGrade
    <2> QED BY <2>1, <2>2 DEF PublicationIsStable, ToPublish, rows
  <1>6. CASE \/ \E r \in Request : \/ StartRead(r) \/ StuckRead(r) \/ RequestStep(r)
                                   \/ \E x \in Submission : ReviewRead(r, x)
             \/ \E x \in Submission : Take(x) \/ Timeout(x) \/ Complete(x) \/ MarkFails(x)
             \/ \E x \in Submission, c \in Slot : WriteScore(x, c) \/ Flag(x, c) \/ CallFails(x, c)
    <2>1. publishing' = publishing
      BY <1>6 DEF StartRead, StuckRead, RequestStep, StartSave, SaveFails, StartEnqueue,
                  StuckEnqueue, RegradeEnqueue, EnqueueFails, ReviewWrite, ReviewRead, Take, Timeout, Complete, MarkFails,
                  WriteScore, Flag, CallFails, Throw, teacher
    <2> QED BY <1>2, <1>6, <2>1, LockedKeeps
  <1>7. ASSUME Unlocked, publishing' = publishing PROVE PublicationIsStable'
    BY <1>1, <1>7 DEF Unlocked
  <1>8. CASE \/ \E r \in Request, s \in Submission : RegradeRequeue(r, s)
             \/ \E s \in Submission : \/ MarkUngradable(s) \/ SetManualScore(s)
                                      \/ SetErrorException(s) \/ RecordAudit(s)
             \/ ChangeRules \/ ConfirmGroup
    BY <1>7, <1>8 DEF RegradeRequeue, MarkUngradable, SetManualScore, SetErrorException,
                      RecordAudit, ChangeRules, ConfirmGroup, teacher
  <1>9. CASE \E x \in Submission, c \in Slot :
                \/ StartAttempt(x, c) \/ FinishStale(x, c)
                \/ \E first \in {"auto_approved", "audit_pending", "flagged_for_review"} :
                      FinishGraded(x, c, first)
                \/ \E why \in {"system", "submission"} : FinishUngradable(x, c, why)
    <2>1. PICK x \in Submission, c \in Slot :
             \/ StartAttempt(x, c) \/ FinishStale(x, c)
             \/ \E first \in {"auto_approved", "audit_pending", "flagged_for_review"} :
                   FinishGraded(x, c, first)
             \/ \E why \in {"system", "submission"} : FinishUngradable(x, c, why)
      BY <1>9
    <2>2. Unlocked /\ publishing' = publishing
      <3>1. CASE StartAttempt(x, c)
        BY <3>1 DEF StartAttempt, teacher
      <3>2. CASE FinishStale(x, c)
        BY <3>2 DEF FinishStale, Throw, teacher
      <3>3. ASSUME NEW first \in {"auto_approved", "audit_pending", "flagged_for_review"},
                   FinishGraded(x, c, first)
            PROVE  Unlocked /\ publishing' = publishing
        BY <3>3 DEF FinishGraded, teacher
      <3>4. ASSUME NEW why \in {"system", "submission"}, FinishUngradable(x, c, why)
            PROVE  Unlocked /\ publishing' = publishing
        BY <3>4 DEF FinishUngradable, teacher
      <3> QED BY <2>1, <3>1, <3>2, <3>3, <3>4
    <2> QED BY <1>7, <2>2
  <1> QED BY <1>3, <1>4, <1>5, <1>6, <1>8, <1>9 DEF Next, CallStep

-----------------------------------------------------------------------------
(* The theorems.                                                           *)

LEMMA AttemptsOfRows == AttemptMatchesRow <=> \A s \in Submission : AttemptsAgree(s)
  BY DEF AttemptMatchesRow, AttemptsAgree

LEMMA IInvInit == Init => IInv
  <1> SUFFICES ASSUME Init PROVE IInv
    OBVIOUS
  <1>1. TypeOK
    BY TypeInit
  <1>2. CallsAgree /\ RequestsAgree
    BY DEF Init, CallsAgree, RequestsAgree, Idle, NoRequest
  <1>3. PublicationIsStable
    BY NothingToPublish DEF Init, PublicationIsStable
  <1>4. \A s \in Submission : AttemptsAgree(s) /\ RowAgrees(s)
    <2> SUFFICES ASSUME NEW s \in Submission PROVE AttemptsAgree(s) /\ RowAgrees(s)
      OBVIOUS
    <2>1. CurrentOutcome(s) = "none" /\ attempts[s] = <<>> /\ Len(attempts[s]) = 0
      BY DEF Init, CurrentOutcome
    <2>2. AttemptsAgree(s)
      BY <2>1 DEF Init, AttemptsAgree
    <2>3. RowAgrees(s)
      BY <2>1 DEF Init, RowAgrees
    <2> QED BY <2>2, <2>3
  <1> QED BY <1>1, <1>2, <1>3, <1>4 DEF IInv

LEMMA IInvNext == IInv /\ [Next]_vars => IInv'
  <1> SUFFICES ASSUME IInv, [Next]_vars PROVE IInv'
    OBVIOUS
  <1>1. TypeOK'
    BY TypeNext, AttemptsOfRows DEF IInv
  <1>2. \A s \in Submission : AttemptsAgree(s)' /\ RowAgrees(s)'
    BY NextMove, MoveKeepsAttempts, MoveKeepsRow DEF IInv
  <1> QED BY <1>1, <1>2, CallsNext, RequestsNext, PublicationNext DEF IInv

(* The strengthening is an invariant of GradingRun.                        *)
THEOREM Invariant == Spec => []IInv
  BY IInvInit, IInvNext, PTL DEF Spec

(* Every variable keeps its type; a job is active exactly while the call   *)
(* GradingProcessor.process awaits is under way.                           *)
THEOREM TypeCorrect == Spec => []TypeOK
  <1>1. IInv => TypeOK
    BY DEF IInv
  <1> QED BY <1>1, Invariant, PTL

(* score.service.ts, the failure listener and the regrade keep a row and   *)
(* its newest attempt telling one story, for any number of retries.        *)
THEOREM AttemptsMatchRows == Spec => []AttemptMatchesRow
  <1>1. IInv => AttemptMatchesRow
    BY AttemptsOfRows DEF IInv
  <1> QED BY <1>1, Invariant, PTL

(* finalizeGrades never publishes a row without a grade.                   *)
THEOREM PublishedScored == Spec => []PublishedHasScore
  <1>1. IInv => PublishedHasScore
    BY DEF IInv, RowAgrees, PublishedHasScore
  <1> QED BY <1>1, Invariant, PTL

(* lockTeacherScoring keeps what finalizeGrades has read true until it     *)
(* commits.                                                                *)
THEOREM PublicationStable == Spec => []PublicationIsStable
  <1>1. IInv => PublicationIsStable
    BY DEF IInv
  <1> QED BY <1>1, Invariant, PTL

(* No retry, stray call, listener or regrade rewrites a closed attempt.    *)
THEOREM ClosedStay == Spec => ClosedAttemptsStay
  <1>1. IInv /\ [Next]_vars =>
          [\A s \in Submission :
             /\ Len(attempts[s]) <= Len(attempts'[s])
             /\ \A n \in 1 .. Len(attempts[s]) :
                   attempts[s][n] # "open" => attempts'[s][n] = attempts[s][n]]_vars
    BY NextMove, MoveKeepsClosed DEF IInv
  <1> QED BY <1>1, Invariant, PTL DEF Spec, ClosedAttemptsStay

-----------------------------------------------------------------------------
(* The refinement.                                                         *)

LEMMA PhaseOf ==
  /\ Phase("none") = "none" /\ Phase("ai_grading") = "grading"
  /\ Phase("ai_graded") = "grading" /\ Phase("flagged_for_review") = "flagged"
  /\ Phase("auto_approved") = "proposed" /\ Phase("audit_pending") = "sampled"
  /\ Phase("teacher_reviewed") = "reviewed" /\ Phase("finalized") = "published"
  BY DEF Phase

LEMMA PhaseAt ==
  ASSUME NEW s \in Submission
  PROVE  /\ [x \in Submission |-> Phase(status[x])][s] = Phase(status[s])
         /\ [x \in Submission |-> Phase(status'[x])][s] = Phase(status'[s])
  OBVIOUS

LEMMA MoveIsLifecycle ==
  ASSUME IInv, NEW s \in Submission, RowMove(s)
  PROVE  \/ Lifecycle!Opened(s) \/ Lifecycle!Scored(s) \/ Lifecycle!GivenUp(s)
         \/ Lifecycle!Restarted(s) \/ Lifecycle!Moved(s) \/ Lifecycle!Kept(s)
  <1> USE PhaseOf, PhaseAt DEF Lifecycle!Becomes
  <1>0. RowAgrees(s) /\ status[s] \in Status
    BY DEF IInv, TypeOK
  <1>1. CASE Opens(s)
    <2>1. Lifecycle!Opened(s)
      BY <1>1 DEF Opens, SameScore, SameClass, Lifecycle!Opened, Lifecycle!KeepsScore
    <2> QED BY <2>1
  <1>2. CASE Restarts(s)
    <2>1. Lifecycle!Restarted(s)
      BY <1>2 DEF Restarts, SameScore, Lifecycle!Restarted
    <2> QED BY <2>1
  <1>3. CASE IsScored(s)
    <2>1. Lifecycle!Scored(s)
      BY <1>0, <1>3 DEF IsScored, SameClass, RowAgrees, Lifecycle!Scored
    <2> QED BY <2>1
  <1>4. CASE IsFlagged(s)
    <2>1. Lifecycle!Moved(s)
      BY <1>0, <1>4 DEF IsFlagged, SameScore, SameClass, RowAgrees, Lifecycle!Moved,
                        Lifecycle!KeepsScore
    <2> QED BY <2>1
  <1>5. CASE IsAttempted(s)
    <2>1. Lifecycle!Kept(s)
      BY <1>5 DEF IsAttempted, SameScore, SameClass, Lifecycle!Kept, Lifecycle!KeepsScore
    <2> QED BY <2>1
  <1>6. CASE IsGraded(s)
    <2>1. Lifecycle!Scored(s)
      BY <1>0, <1>6 DEF IsGraded, SameClass, RowAgrees, Lifecycle!Scored
    <2> QED BY <2>1
  <1>7. CASE IsGivenUp(s)
    <2>1. Lifecycle!GivenUp(s)
      BY <1>0, <1>7 DEF IsGivenUp, SameScore, RowAgrees, Lifecycle!GivenUp
    <2> QED BY <2>1
  <1>8. CASE IsRejudged(s)
    <2>1. Lifecycle!KeepsScore(s)
      BY <1>8 DEF IsRejudged, SameClass, Lifecycle!KeepsScore
    <2>2. CASE status'[s] = status[s]
      BY <2>1, <2>2 DEF Lifecycle!Kept
    <2>3. CASE status'[s] # status[s]
      <3>1. Lifecycle!Moved(s)
        BY <1>8, <2>1, <2>3 DEF IsRejudged, Lifecycle!Moved
      <3> QED BY <3>1
    <2> QED BY <2>2, <2>3
  <1>9. CASE IsPublished(s)
    <2>1. Lifecycle!Moved(s)
      BY <1>9 DEF IsPublished, SameScore, SameClass, Publishable, Lifecycle!Moved,
                  Lifecycle!KeepsScore
    <2> QED BY <2>1
  <1> QED BY <1>1, <1>2, <1>3, <1>4, <1>5, <1>6, <1>7, <1>8, <1>9 DEF RowMove

(* The rows, with their workers, retries, timeouts, crashes and teachers,  *)
(* implement the lifecycle their triggers promise.                         *)
THEOREM LifecycleRefined == Spec => ImplementsLifecycle
  <1>1. Init => Lifecycle!LifecycleInit
    BY PhaseOf DEF Init, Lifecycle!LifecycleInit
  <1>2. IInv /\ [Next]_vars => [Lifecycle!LifecycleNext]_(Lifecycle!LifecycleVars)
    BY NextMove, MoveIsLifecycle DEF Lifecycle!LifecycleNext
  <1> QED BY <1>1, <1>2, Invariant, PTL DEF Spec, ImplementsLifecycle, Lifecycle!LifecycleSpec
=============================================================================
