# CINE in TLA+

CINE runs programming exams. A teacher creates an *exam session*; students sit
in front of a desktop agent that joins the session, collects the required files
and hands them in when the session ends; the server then grades what was
collected. The code is a NestJS API over PostgreSQL, Redis (BullMQ) and an S3
store (`apps/api`), an Electron agent (`apps/agent`) and a Next.js front end
(`apps/web`).

This directory holds the models of it, the TLC configurations that check them on
small instances, and the TLAPS proofs that hold for every instance.

| file | what it is |
|---|---|
| `SeatLifecycle.tla` | what a row of the `submission` table promises (abstract) |
| `ExamSession.tla` | one exam session on the API server (detailed) |
| `MCExamSession.tla`, `MCExamSession*.cfg` | its model-checking instances |
| `ExamSessionProofs.tla` | theorems about `ExamSession`, proofs checked by tlapm |
| `ArchiveCheck.tla` | the verdict on one collected archive: object, row, queue, checkers |
| `MCArchiveCheck.tla`, `MCArchiveCheck*.cfg` | its model-checking instances |
| `ArchiveCheckProofs.tla` | theorems about `ArchiveCheck`, proofs checked by tlapm |
| `AgentSession.tla` | one student's agent, its workspace, and the API's answers to it |
| `MCAgentSession.tla`, `MCAgentSession*.cfg` | its model-checking instances |
| `AgentSessionProofs.tla` | theorems about `AgentSession` |
| `GradingLifecycle.tla` | what a row of `grading_result` promises (abstract) |
| `GradingRun.tla` | the grading of one session: rows, queue, workers, teacher (detailed) |
| `Scoring.tla` | from a stored investigation to a decision and a score (pure) |
| `MCGradingRun.tla`, `MCGradingRun*.cfg` | instances of `GradingRun`, evaluation of `Scoring` |
| `GradingRunProofs.tla`, `OwedProofs.tla` | theorems about `GradingRun` |
| `ScoringProofs.tla`, `SumProofs.tla` | theorems about `Scoring`: decisions, and sums |
| `ScoreLedger.tla` | the stored scores of a teacher and every change of what they derive from |
| `MCScoreLedger.tla`, `MCScoreLedger*.cfg` | its model-checking instances |
| `ScoreLedgerProofs.tla` | theorems about `ScoreLedger` |
| `PROJECT.json` | components, runs, mutants, the line each definition models, hazards, theorems |

## 1. Inventory

State, operations and correctness of the parts of the system. Paths are under
`apps/api/src` unless they say otherwise.

**Exam session lifecycle** (`exam-session/exam-session.service.ts`,
`…scheduler.ts`, `collection-phase.service.ts`, `…types.ts`). State: the row of
`exam_session` (status, times, `completed_by`) and its `required_deliverable`
rows. Operations: create, replace files, reschedule, cancel, open, finalize,
confirm-end; three sweeps (auto-open, finalize, collection) fired by
`@Interval`. Hard: every request reads the session in the controller and writes
it later without a lock, the sweeps race with the teacher's buttons, `now` is
fixed at the start of a tick, and the process may restart between an UPDATE and
the event it publishes. Correct when: a session that is over never comes back,
nobody is told to hand in twice, absence follows from a signature only, and
every session reaches a verdict even if nobody presses anything.

**Session roster and seats** (`exam-session/session-roster.service.ts`). State:
`session_roster` (the snapshot of who may sit) and the `not_submitted` rows
seeded from it. Operations: freeze, materialize, import, add, remove, admit.
Correct when: whoever is on the roster of an opened session has a row for every
file, and no edit destroys or demotes handed-in work.

**Submission collection** (`submission/*`). State: one row per student and
file; an object in the store. Operations: request upload, confirm. Trigger
`validate_submission_lifecycle` restricts the transitions. Correct when: a file
that arrived is never turned back into an empty seat or an absence.

**Agent gateway, lock store, access requests, attendance**
(`exam-session.gateway.ts`, `agent-join-lock.store.ts`, `access-request.*`,
`agent-connection/*`). State: socket identity, rooms, strikes and locks by
student, requests waiting at the door; all in memory. Correct when: only people
on the roster are seated, the door's decisions reach the roster, locks expire.

**Archive check** (`submission/archive-check/*`). State: three columns of the
submission row and a BullMQ queue. Correct when: a verdict is about the file
that is there, and no row stays `pending` for ever.

**Recollect** (`recollect.service.ts`) and the **student agent**
(`apps/agent/src/session-controller.ts`, `submission-uploader.ts`). State on the
client: phase, `examEnded`, the upload queue and its retries. Correct when:
every agent that was told to hand in hands in once per request, over
reconnections and lost events.

**Grading run and teacher review** (`grading/grading-run.service.ts`,
`grading.processor.ts`, `grading.service.ts`, `teacher-review.service.ts`,
`bulk-review`, `regrade`, `review-group`). State: `grading_result` rows with a
status guarded by a trigger, the BullMQ queue. Correct when: each submission is
graded once, a late or abandoned call does not overwrite a teacher's decision,
finalisation leaves nobody out.

**Scoring and decision** (`grading/scoring`, `grading/decision`): pure functions
over integer hundredths, and the append-only `score_computation` rows they fill.
**Rules, prices, waivers, exceptions, auto breaker** (`grading/rules`,
`grading/review`, `grading/auto-breaker`): the teacher's table, whose every
change has to reach the submissions it concerns. Correct when: an open
submission's score is what today's table gives, a published one is what was
promised. **Test bundles, sandbox worker, quotas**: counters and slots under
concurrency. **Grade export, problem editing, master data, accounts, materials, storage, calibration, eval, web**: see
`PROJECT.json` for why they are not modelled.

Interactions: teachers call the REST controllers, agents the `/exam-live`
socket; the scheduler and the controllers share services and the database; the
session service tells the gateway `exam:finalize` through an in-process event
bus (`exam-session.events.ts`); the gateway and the door consult the roster;
collection writes the rows the roster seeded; archive check and grading are fed
through BullMQ.

## 2. Plan

1. `SeatLifecycle` + `ExamSession` + proofs: the lifecycle that everything else
   hangs on. **Done.**
2. `ArchiveCheck` + proofs: the verdict on one collected archive - queue,
   concurrent checkers, retries, recheck, restart. **Done.**
3. `AgentSession` + proofs: the client's state machine with lost connections,
   failed requests, snapshots and restarts, against the API's join and upload
   handlers. **Done.**
4. `GradingLifecycle` (abstract: trigger `validate_grading_result_lifecycle`) and
   `GradingRun` (queue, timeout race, `markUngradable`, review, regrade,
   publication) refining it, + proofs. **Done.**
5. `Scoring` + proofs: diagnosis, decision, score and repricing. **Done.**
6. `ScoreLedger` + proofs: `Scoring` put into motion - every edit of rules,
   prices, criteria, waivers, exceptions and breakers against gradings and
   publications. **Done.**
7. Left: the lock store and the double join of `agent:join`, the times of
   `updateSchedule`, the counts of the breaker, sandbox slots and quotas. Each is
   small and touches the modules above only where they already take its outcome
   as a choice.

## 3. `ExamSession`

### State

| variable | code |
|---|---|
| `status`, `signed` | `exam_session.status`, `completed_by IS NOT NULL` |
| `roster[s]` | the `source` of the student's `session_roster` row, or `"none"` |
| `seat[s][d]` | status of the `submission` row of student `s` for file `d`, or `"none"` |
| `deliverables` | the session's `required_deliverable` rows |
| `enrolled` | `enrollment` rows of the session's class |
| `clock` | wall clock, on the scale of the session's own instants |
| `seated` | students with a socket whose `client.data` holds an identity |
| `asked` | `AccessRequestStore` |
| `handler[w]` | a request in flight and what it has read so far |
| `autoOpen` | the tick of the auto-open sweep (`runningAutoOpen`) |
| `toPublish` | finalize UPDATEs whose event is not yet published |
| `broadcasts`, `opens`, `crashes` | history variables |

`received` and `validated` exist only inside the transaction that ends in
`collected`, and nothing writes `invalid` any more, so a committed seat is one
of `none`, `not_submitted`, `absent`, `collected`.

### Granularity

PostgreSQL runs each transaction at READ COMMITTED and this part of the code
takes no row locks. A handler is therefore split exactly where it reads and
later writes on the strength of what it read:

| request | steps |
|---|---|
| open | `OpenRead` (freeze's SELECTs), `OpenCommit` (snapshot, seats, `active`) |
| cancel | `CancelRead` (controller's entity), `CancelWrite` (update by id) |
| replace files, materialize, import, add | `…Read` (status check on the controller's entity), `…Commit` (the transaction) |
| remove | `RemoveRead`, `RemoveCheck` (row found, live work counted), `RemoveDelete` (submissions by student, roster row by the id found) |
| confirm upload | `ConfirmCheck` (target, window, object), `ConfirmRead` (row), `ConfirmWrite` / `ConfirmRetry` |
| finalize | `FinalizeManually` / `FinalizeSweep` (one conditional UPDATE), `PublishFinalized` |
| confirm-end, collection sweep | one step each: one conditional UPDATE and, in the same transaction, `markAbsentees` under it |
| auto-open | `AutoOpenBegin` (`now`), then `AutoOpenTooLate`, or `AutoOpenRead` and `AutoOpenCommit` / `AutoOpenFails` / `AutoOpenGivesUp` |
| join, leave, ask, grant, deny | one step each |

`Abort` ends any request early (409, unique violation, missing object, storage
or database down). `Crash` restarts the process: memory is lost, committed rows
stay. `Tock` lets time pass.

### Abstractions

* Row ids: a seat deleted and seeded again is the same seat; replaced required
  files draw from the same set of ids. Of a roster row the model keeps what
  matters: a removal between its check and its deletes knows whether the row it
  found is still `there`, was `copied` by its own transaction, or is `gone` - in
  which case it deletes the student's submissions and no roster row, whoever has
  been inserted since (`FinishDeleting`).
* The times are constants. `updateSchedule` and `setRubric` are not modelled.
* `draft` is in the enum but no code path writes it; `Init` is what `create`
  writes.
* Enrolment does not change: the snapshot decides who sits, and an approval's
  `enrollments.addManually` matters only to it.
* `importStudents` checks and deletes the missing students in one step; the
  window between the two is explored through the remove request.
* A database error other than a unique violation inside the auto-open tick is
  not modelled. The join lock, the rate limiter and the agents' rooms are not
  either.

### What the runs check

| run | instance | checks |
|---|---|---|
| `session` | 1 student, 1 file, 2 requests in flight, no restart (3,836,079 distinct states) | `TypeOK`, `AbsentOnlyWhenSigned`, `FinalizePerActivation`, `NeverOpenedIsUntouched`, `SettledForGood`, `SeatsAsPromised`, `SeatsAreKept`, `JudgedOnceSigned` |
| `live` | 1 student, 1 file, 1 request, 1 restart | `AwaitingResolves`, `ActiveResolves` |

* `AbsentOnlyWhenSigned` - only a teacher's signature concludes absence; no
  sweep does.
* `FinalizePerActivation` - `exam:finalize` is owed and published at most once
  per activation, whoever races whom and wherever the process restarts. (That
  it is published at *least* once is not promised: a restart between the UPDATE
  and the publication loses it.)
* `NeverOpenedIsUntouched` - a session that says it never opened carries no
  work and no judgement; the auto-open tick's late verdict cannot overwrite an
  opening.
* `SettledForGood` - freeze and cancel write by id. Every way back from
  `collecting`, `completed` or `cancelled` is one of these two writers already
  in flight; without one the session is settled, and no new one can start.
* `SeatsAreKept` - a student on the roster of a session that is open, or is being
  opened without him, has a row for every required file. There are two ways out,
  and the property names both: a removal that had read an earlier roster row of
  the student (`RemovedTooLate`), and an edit of the snapshot - an import, or the
  copy of the class - that passed its check while the session was waiting
  (`EditedTooLate`). Who was added by hand or admitted from the door loses a seat
  by the first way only.
* `JudgedOnceSigned` - a signature judges every seat there is, whether the
  teacher or the sweep closed the session; what is left to judge afterwards was
  seeded afterwards, by an approval, an add or an opening that had read an
  earlier status.
* `SeatsAsPromised` - `ExamSession` implements `SeatLifecycle`: no path turns a
  collected file into an empty seat, judges a file that arrived, or judges
  without a signature. The refinement mapping is the identity on `seat` and
  `signed`.
* `AwaitingResolves`, `ActiveResolves` - the sweeps alone bring every session
  to a verdict and every opened session to its end.

Every property has a mutant in `PROJECT.json`: a plausible mistake in the code
(an upsert instead of `ON CONFLICT DO NOTHING`, a dropped status condition, a
skipped branch) that TLC finds to break it. The mutants are the definitions
whose comment begins with "Mutant".

### Bounds

One session and one file are enough because no guard relates two sessions and
each file's row is written independently except in the "for every file"
quantifiers. Two requests in flight show every race between two teachers'
requests, and each also races with the sweeps, the agents and time.
The instants are 0 (lead and early join), 1 (start), 2 (end), 3 (grace ends):
every predicate on time takes both values, and `Horizon` lies at or past the last of them.
`MaxCrashes` bounds restarts. Counters need no other bound: a
publication needs an activation, and an activation a fresh opening.

`CHECK_DEADLOCK FALSE`: a session that is over, with the clock at its horizon,
really has nothing left to do.

### Fairness

`FairSpec` has weak fairness on `Tock` (time passes), on the finalize and
collection sweeps and on the auto-open tick: `@Interval` keeps calling them as
long as the process runs, each call runs to its end, and it is started again
after a restart. Nothing is assumed of teachers, students or the network.

### Where the code does not do what it says

Comments and messages of the code promise something its interleavings do not
keep. Two have a run in which TLC produces the interleaving:

| run | claim | what happens |
|---|---|---|
| `cancelled_stays` | freeze re-reads the status in its transaction to avoid the race with cancel (`session-roster.service.ts:289`) | a cancel between the read and the write by id is overwritten by `active` |
| `submitted_never_removed` | a student who has submitted cannot be removed (`session-roster.service.ts:673`) | a confirm between the count and the DELETE loses the collected row |

More is reachable in the same module, and the properties name it as the
exceptions they have to make: a late add or an approval from the door after the
signature seeds `not_submitted` rows in a session whose absences are concluded
(`collection-phase.service.ts:78` wants the two to hold together; `JudgedOnceSigned`);
an import that commits after freeze adds candidates without seats
(`session-roster.service.ts:60`), and of two removals of one student with an add
between them the slower one deletes the seats of the row just added
(`session-roster.service.ts:677-681`; both `SeatsAreKept`).

## 4. `ArchiveCheck`

A deliverable may declare the files its archive has to hold. Handing in then
ends with the row at `pending` and a job in the `archive-check` queue; a worker
opens the object and writes `passed`, `failed` or `unreadable`. The object, the
row and the queue live in three systems and no transaction joins them. The
module follows one submission: the student uploads at one fixed key, over what
was there, and confirms again and again; the teacher rechecks; jobs run, fail,
are repeated or given up; the process restarts.

| variable | code |
|---|---|
| `object` | the object at the submission's storage key: which PUT, holding what |
| `verdict` | `submission.archive_check_status` |
| `request[r]` | a `submission:confirm` or a recheck in flight: before its commit, or before its `queue.add` |
| `job[j]` | an unfinished BullMQ job: `waiting`, `active`, `read` (holds the verdict it will write), `exhausted` (failed for good, the `failed` listener has yet to run); `made` counts attempts |
| `basis`, `confirmed`, `orphaned`, `overlapped`, `crashes` | history variables |

| actions | code |
|---|---|
| `Upload` | the agent's presigned PUT (`requestUploadUrl`) |
| `ConfirmCheck`, `ConfirmCommit` | `objectExists`; the transaction with `snapshotArchiveExpectations` |
| `RecheckFind`, `RecheckUpdate` | the SELECT and the UPDATE by id of `requeue` |
| `Enqueue`, `EnqueueFails` | `queue.add` / `addBulk` after the commit |
| `Take`, `ReadObject`, `WriteVerdict` | `process`, `checkOne` up to the judgement, its UPDATE by id |
| `CheckFails` | an attempt that throws: repeated while attempts are left |
| `GiveUp`, `GiveUpFails` | `onFailed` after the last attempt, and its own failure |
| `Crash` | restart: requests and listeners are lost, the queue survives |

Abstractions: the file declares entries (without them nothing is queued) and its
row stays; a size and the content are read in one step; every way of not being
readable is one content, `broken`; the backoff between attempts is "later". The
library is modelled from how it is used: a job found stalled after a restart
waits again and the attempt does not count. BullMQ's
own limit on how often a job may stall (`maxStalledCount`, by default once) is
not modelled: a job that two restarts interrupt would be failed with attempts
left, and `onFailed` would return without a conclusion. The theorems below that
speak of any number of restarts are about a queue without that limit.

Run `archive` - 2 uploads, 2 requests, 2 unfinished jobs, 1 restart, and the
code's own 3 attempts and 2 checkers. Two of each actor are what an overtaking
needs, and a slot is free again when its request or job ends, so the number of
confirms, rechecks and jobs over a behaviour is not bounded:

* `PendingIsOwed` - `pending` never lies: a request has still to queue, or a job
  is unfinished, or a job was lost. It is lost in exactly three ways: Redis
  refuses it, the process stops between commit and `queue.add`, or `onFailed`
  does not get to write. The teacher's recheck repairs all three.
* `AloneNeverStale` - as long as no two checkers ran at once, nothing leaves an
  old verdict on a newer file once everything has settled: the verdict is what
  this file deserves, or says that the check was given up.
* `PendingResolves` - a check that is not lost ends in a conclusion.

Run `archive_stale` - without "as long as no two checkers ran at once" it is
false: `submission.service.ts:557` says that handing in again does not get stuck
on the old conclusion, but with two checkers the one that read the older upload
may write last, by id, and its verdict stays on the newer file.

Fairness: a request that has committed goes on to the queue; the worker takes a
waiting job when it has room; a job taken ends in a verdict or in a failed
attempt. Nothing is assumed of the student, the teacher or of attempts that
succeed. Every failed attempt is counted, so `PendingResolves` needs no more.
`CHECK_DEADLOCK FALSE`: with the uploads used up and slots waiting on requests
that nobody continues, the instance may stop.

## 5. `AgentSession`

The agent keeps a student's work on the student's machine and hands it in once,
at the end. The module follows one agent: `SessionController`, its socket, the
workspace, the snapshot in object storage, and the handlers of the API that
answer it. `ExamSession` sees the other side of the same conversation and treats
the agent as a source of confirms.

| variable | code |
|---|---|
| `session`, `attended` | `exam_session.status` (plus "grace period over"), an `agent_connection_event` of the student |
| `conn`, `asked`, `inbox` | the socket as the API knows it, an `agent:join` not yet read, messages under way |
| `dialling`, `phase`, `hasJoinedOnce`, `examEnded` | fields of `SessionController` |
| `backupStatus`, `fetched`, `entry`, `settling` | `restoreBackup` - the archive still to be written back, the entry under way - and the rest of `doHandleJoinAck` |
| `snapshots`, `flight`, `backup` | the snapshot timer, the archive being sent, the one stored |
| `round` | the running `collectAll` (`finalizing`): which file, before its read, PUT or confirm |
| `disk`, `folder`, `object`, `row` | required files in the workspace, the folder, the uploads, the collected submissions |
| `atStart` | history: the workspace when the running collection began |
| `lost`, `unwritten` | history: files the student deleted or that a restore wrote over a save; entries it could not write |

File contents are versions: each save makes the next number, so a larger number
is newer work; `Absent` and `Blank` lie below. A handler runs to its first
`await` in one step, and what follows an `await` is a step of its own:
`ReadJoin`, `EnterRoom`, `Acknowledge` for `handleAgentJoin`; `HandleJoinAck`,
`FetchBackup` / `RestoreFails`, per entry `NextEntry` and then `WriteEntry` or
`EntryFails`, `FinishRestore`, `Settle` for `doHandleJoinAck` and `restoreBackup`;
`HandleFinalize` / `HandleRecollect`, then `ReadFile`, `PutFile`, `ConfirmFile`
or `UploadFails` per file for `collectAll`. An upload may fail after it was done.
`Disconnect` empties both queues of messages; `Restart` ends the process, on the
same machine or on another one; the student saves and deletes throughout.

`restoreBackup` looks at a file (`shouldRestoreOver`), awaits its folder and its
inflated content, and writes it without looking again: anything may happen between
`NextEntry` and `WriteEntry`, a save and the start of a collection included. A write
that fails, with the file as it was or truncated, is logged and the loop goes on.
The write itself is one step, and the archive lists its files in one order.

Run `agent` - 2 files, 1 edit, 2 faults; 1,764,186 distinct states. Two files show a
round, or a restore, of which one file fails; two faults show a connection lost and a
request failed in one session, or a restart followed by an entry that cannot be
written; one edit makes two versions.

* `RestoredIsNotBlank` - "restore MUST finish before the required files are
  created": in a running session no blank file stands where the snapshot holds
  work, so no later snapshot replaces the work by nothing. The files in `lost` and
  `unwritten` are excepted, and without either exception TLC refutes it: an entry
  that fails (`backup.ts:185`) leaves a blank file, the agent still shows `restored`,
  and a file saved between look and write may go back to an empty one. "Never
  overwrites a file with content in it" (`backup.ts:126`) holds of what
  `shouldRestoreOver` saw, not of what is there when `writeFile` runs.
* `RemovedIsCollected` - the workspace, the only copy, goes only once every
  required file is collected and no older than when the collection began, but for
  the files in `lost`: a collection that starts between look and write may read, and
  upload, the older version that a restore puts over the student's save. `lost`
  starts empty with each collection, so it names what happened during this one.
* `OlderOnlyByRestore` - an upload is replaced by an older one only by a process
  that asked for a snapshot.
* `JoinIsOwed` - an agent that dials, is not refused and whose exam has not ended
  is either in, in its own eyes and in the API's, or somebody owes the next move:
  the socket, the API that holds the question, or an answer to be read. Its
  mutant is an agent that asks only on its first connection.
* `RoundAdvances` - while the process lives, a running collection takes each file
  once and in order, uploads what it read, forgets no failed file and ends after
  the last one. Its mutant drops the guard on `finalizing`, so that a second order
  starts the collection over.
* `JoinIsAnswered` - again and again the agent is in, refused, at its end or gone:
  nobody is left for good on the screen `joining`, which has no button.
* `CollectionEnds` - `finalizing` does not stay true: again and again no collection
  runs.

The last two are liveness, under the fairness below; the two before them are
their safety halves, which need none: that no state is reached in which nobody is
left to act, and that no step takes a collection back.

Run `late_agent_uploads` - `submission.service.ts:678` says that an agent that
loses its socket as `exam:finalize` goes out reconnects and uploads a moment
later. It does not: a `collecting` session lets nobody join, an agent whose
`examEnded` is set does not ask, and without a join the upload is refused.

Fairness: `handleAgentJoin` runs on, the agent handles what is in its inbox, goes on
with a restore and with a collection, and socket.io reconnects once the network is
back: the event loops of both processes run, and every request ends in an answer or
in its timeout. Nothing is
assumed of the student, the teacher, the clock, the snapshot timer or the faults.
`CHECK_DEADLOCK FALSE`: with the session over and the folder removed, nothing is
left to do.

## 6. `GradingRun`

| variable | code |
|---|---|
| `status`, `class`, `scored` | `grading_result.status`, `ungradable_class`, `ai_total_score IS NOT NULL` |
| `attempts`, `current` | outcomes of the `grading_attempt` rows, `current_attempt_id` |
| `computed` | the newest `score_computation`: none, with a score, or without (the floor) |
| `manual`, `reviewed` | `teacher_review` rows of the two kinds |
| `job[s]`, `failures[s]` | the BullMQ job `grade-<submissionId>`, `failed` events not yet handled |
| `call[s]` | the worker call the job awaits (`live`) and one that nobody awaits (`stray`) |
| `request`, `publishing` | teacher requests in flight, what `finalizeGrades` has read |
| `promoted` | history: rows a rule change took from flagged to automatic |

| actions | code |
|---|---|
| `StartRead`, `StartSave`, `StartEnqueue` | `startGrading`: what is collected, the rows, the jobs |
| `StuckRead`, `StuckEnqueue` | `regradeStuck`, row by row |
| `RegradeRequeue`, `RegradeEnqueue` | `RegradeService`: the row, then the job |
| `SaveFails`, `EnqueueFails` | a batch of rows that cannot be saved, a `getJob`, `remove`, `add` or `addBulk` that throws |
| `Take`, `Timeout`, `Complete` | `GradingProcessor.process`, `withTimeout`, the job's end |
| `WriteScore`, `Flag` | `gradeOne` (pipeline `one_shot`): two UPDATEs |
| `StartAttempt`, `FinishGraded`, `FinishUngradable`, `FinishStale` | the investigator: open or resume an attempt, and close it in one transaction with the score, the status and the top-up of the audit sample |
| `CallFails`, `MarkUngradable`, `MarkFails` | an exception, the `failed` listener and its own failure |
| `ReviewRead`, `ReviewWrite` | review of a `one_shot` row, on the entity the controller loaded |
| `SetManualScore`, `SetErrorException`, `ChangeRules`, `RecordAudit`, `ConfirmGroup` | the teacher's transactions under the lock |
| `FinalizeRead`, `FinalizeCommit` | `finalizeGrades` |
| `Crash` | the process, with or without Redis |

Whatever runs under `lockTeacherScoring` is one step, since nothing else that
takes the lock can come in between. `finalizeGrades` is two, with the lock held
(`~Unlocked`) from its reads to its commit, so that what does *not* take the lock
can: the worker's one-shot calls and a review. What a computation comes to is a
choice here; `Scoring` says how it is made.

A stray call is the point of the module. `withTimeout` rejects the job and
leaves the call running, BullMQ tries again, and both calls, the failure
listener of an earlier attempt, and a regrade work on one row. What keeps it
consistent is `lockRunning`: an attempt that is not the current open one may not
write.

Run `grading` - two submissions, one per pipeline, 1 request, 2 tries, 2 presses,
1 fault; 149,448 distinct states. One fault with two tries shows a stray beside
its retry, or a failed listener; with tries used up by attempts that find
themselves stale it also shows the job that fails for good. One stray per
submission at a time bounds the calls. The two submissions interact only through
`finalizeGrades`, the top-up and the scopes of a recomputation. `addBulk`'s
chunks of 100 count as one step when all of them succeed. With two requests at a
time the instance has 517,334 states and passes as well; it takes too long for
every day, and only a second request makes a save fail on a row that another one
has created in between (`SaveFails` without a fault).

* `AttemptMatchesRow` - the row and its newest attempt tell one story.
* `ClosedAttemptsStay` - an attempt that ended is never rewritten or dropped.
* `PublishedHasScore` - every published grade exists, although a rule change may
  take a row's score away before.
* `PublicationIsStable` - the teacher lock keeps what `finalizeGrades` has read
  true until it commits. Its conditional UPDATE and 409 are a second line of
  defence that is never reached.
* `ImplementsLifecycle` - the rows implement `GradingLifecycle`: phases never go
  backwards except through a regrade of a row the *system* failed on, a score is
  written once, "no grade" is never a grade of zero. The mapping is `Phase`.
* `NeverAbandoned` - no step leaves a row in `ai_grading` or `ai_graded` with
  nobody to finish it: a waiting job, a live call that is not back yet, a failure
  listener still to run, or a request about to see to its job. This is what
  `onFailed` promises (`grading.processor.ts:156-162`). The property names five
  exceptions, and TLC refutes it without any of the first three and of the last:
  a restart; a listener whose own write fails; a call that fails between the two
  UPDATEs of `gradeOne`; and a regrade that finds its job still `active` and
  leaves it (`regrade.service.ts:210`) though the call has returned and only the
  completion is outstanding; and a request that fails on that row after it has
  committed it, because the save of a later batch fails or Redis does not answer
  while jobs are queued (the code speaks of it at `grading-run.service.ts:464-466`
  and `regrade.service.ts:199`). Of the fourth, the run reaches the form that
  comes from `RegradeService`; the one from `regradeStuck` takes a third press,
  beyond `MaxPresses`, so only the proof covers it.
* `JobEnds` - a job ends, and then its failure listener has run.

Run `promoted_never_sampled` - the plan `2026-09-29-audit-sampling.md:42` and the
comment at `score.service.ts:293` say that a result that was flagged first and
approved by a later change of rules is never drawn into the audit sample.
`topUpSessionAudit` fills the minimum from every `auto_approved` row, those
included.

Fairness: the worker takes jobs and completes them and `finalizeGrades` commits
(weak); a live call and the failure listener go on although they may have to wait
for the teacher lock again and again (strong: PostgreSQL serves the waiters of a
lock in their order). Teachers, faults and stray calls owe nothing.
`CHECK_DEADLOCK FALSE`: a session that is graded and published stops.

What the exceptions of `NeverAbandoned` leave behind differs. A row in
`ai_grading` without a job is taken up by the next `regradeStuck`. A row in
`ai_graded` that nobody will flag is not: it has a score, so no retry grades it
again; it is not in `ai_grading`, so `regradeStuck` passes it over; no review
takes it, and `finalizeGrades` refuses to publish while it is there.

## 7. `Scoring`

The module has no variables. A *case* is a record of everything a computation
reads: the test runs, the verdicts on the rules, what the lenses said, the
rubric, the rules in force, the teacher's exceptions and waivers, the breakers
that are off. `Measure` is `evaluatePredicate`, `Errors`, `CaseFlagged`,
`DecisionFlags` and `Confident` are `diagnose` and `decide`, `ComputeScore` is
`score-core.ts`, `Reprice` is `repriceBreakdown`. Confidences are compared in
exact integers: the code adds an epsilon to a mean of floats to the same end. The
result `fail` of a test case stands for every member of `FAILED`; the names, quotes
and texts of a breakdown are left out, and so is the price kept beside an error
that is not charged. `ScoreOf` has the code's `Math.max(0, ...)`, and section 9
proves that it never has anything to do.

`MCGradingRun` states the assumption `ScoringChecked`, which TLC evaluates at the
start of each of its runs: for 48 investigations whose errors come and go, all
exceptions and all prices out of {none, 0.10, 0.25}, and for every pair of test
runs of two cases (any result, a build that fails for all or for a group),

* `RepriceIsRecompute` - applying new prices to a published grade gives what
  computing it anew would, and names exactly the errors that lost their price;
* `ExceptionIsLocal` - an exception on one error changes neither the verdict nor
  another criterion, and taking an error out never costs the student anything;
* `AutoRestsOnEvidence` - nothing is approved automatically on test runs that
  disagree or are missing.

## 8. `ScoreLedger`

A `score_computation` row is never changed. Whoever changes something a score is
derived from takes `lockTeacherScoring`, and in the same transaction writes a new
row for every submission the change concerns and moves its status between
"automatic" and "flagged". So each transaction is one step here (what interleaves
with it is `GradingRun`'s subject), outcomes are *computed*, by `Scoring`, and
the question is the scope: did each change reach every submission it concerns?

| variable | code |
|---|---|
| `table.active`, `.dropped`, `.group` | `error_rule.state`, and the test group its current revision's predicate watches, or `verbal` |
| `table.listed`, `.criterion`, `.price` | `rubric_error` rows not removed, their criterion, the newest `rubric_error_price` |
| `table.waived`, `.exception` | `criterion_waiver` not revoked, the newest `error_exception` of a submission and rule |
| `table.blocked`, `.noErrorOff` | open `auto_rule_breaker` rows |
| `status[r]`, `class[r]` | `grading_result.status`, `ungradable_class`; a flagged row without a score has the status of its reason |
| `found[r]` | the investigation stored with the attempt, and the rule table it was given |
| `latest[r]` | the newest `score_computation` |
| `manual` | rows with a `manual_score` review |
| `basis[r]`, `tariff[r]` | the case of the latest computation; history: the prices a published row was promised |

| actions | code |
|---|---|
| `Start`, `Finish` | `loadRuleEntries`; `finishAttempt` with `writeInitial` and the audit sample |
| `SetPrice` | `PriceService.setPrice`: rows whose latest computation has the error |
| `Assign`, `Move`, `Remove`, `Copy` | `RubricErrorService`: rows of the rubric (`Assign`: only if a machine checks the rule) |
| `Revise`, `Drop`, `Split` | `ErrorRuleService`: all rows of the teacher, or of the rubric |
| `Waive` | `CriterionWaiverService.set`, `revoke` |
| `SetErrorException`, `SetManualScore`, `ConfirmVerdict` | the teacher and one submission |
| `RecordAudit`, `ResetBreaker` | a blind review of a sampled row, with the breakers it trips; turning one on again |
| `Finalize`, `Reapply` | `finalizeGrades`; `reapplyFinalizedSession`, all rows of a session or none |

`Edit(t, S)` is the common shape: the new table, and `recomputeForTeacher` over
those of `S` that are open and not graded by hand (`Recomputable`).

Abstractions: rules and criteria are model values and amounts integers in
hundredths; every version of a rubric has the same criteria, so rows of a rubric
are scoped by its name; which labels trip a breaker is a choice; the names and
descriptions of a rule, the reason and author of a computation and the audit log
are left out. The test bundle and the trust in the reference solution
(`rulerTrust`) are fixed: the code computes nothing again when they change after
a grading. A waived criterion is one toggle (`set` twice is a stutter in the code).

Run `ledger` - two submissions of one session and rubric, another rubric with
one of the rules and one criterion less, a rule a test group decides, a rule a model
decides and one yet to be made, one new price, two edits; 567,050 distinct states
up to the exchange of the two submissions. Two submissions are what a scope can
tell apart and what a sample, a breaker or a publication relates. Two edits show
every pair (remove and assign again, split and reprice, trip and reset); the
theorems below hold for any number. Deadlock is not checked: with the edits used
up and the session published nothing is left.

* `OpenFollowsTable` - the latest computation of an open submission is what
  today's table gives on the rules it was computed on, those are all in force,
  and the only rules in force it leaves out are for a model to judge.
* `AutoStillEarned` - what is approved automatically, or sampled from it, would
  be so today, by today's prices, exceptions and breakers.
* `PublishedAsPromised` - a published score is that of the published case at the
  prices of the publication, or of the last time new prices were applied,
  whatever became of rules, criteria and waivers since.
* `ScoreAddsUp` - every computation adds up: no criterion loses more than the
  rubric gives it and the score is what the criteria have left. This is about
  moves, copies and repricing, after which several errors may meet in one
  criterion and exceed it.
* `NothingBecomesFree` - applying new prices to a published session turns no
  charged error into a free one.
* `PublishedFallsOnlyByPrice` - a published score falls only because an error it
  is charged for became dearer (or got its first price).
* `ImplementsLifecycle` - the rows implement `GradingLifecycle`, as those of
  `GradingRun` do. There the outcome of a recomputation is a choice and the
  question is who interleaves; here it is computed, one transaction moves many
  rows, and a move that the trigger refused would undo all of them. The
  mapping: `Phase` of the status, the class as it is, and as scored the rows in
  `HasScore` - those approved, sampled or flagged by a computation, and those
  reviewed or published whose class is `none`.

Run `split_keeps_applied` - the specification of rules by rubric (T-RBE-SPLIT-2,
`2026-10-07-rules-by-rubric-design.md:380`) says that splitting a rule off for
one rubric keeps what it applies to. It keeps it for a rule that a test decides.
A rule that a model decides counts only if the submission's stored rule table has
its key; the split makes a new key, so the error and its deduction are gone from
every open submission of the rubric, even when nothing but the name was changed.

Consequences of the same design that the model shows and no document excludes: a
rule in words that is removed and assigned again comes back into the scores of
submissions that had been given it only when something else has them computed
again (hence "rules it leaves out are for a model to judge"); a split rule is no
longer under the breaker of the old one; and new prices cannot be applied to a
published session that was charged the old rule until its rubric lists a price
for it again. `pinned_price_version_id` is written by `reapplyFinalizedSession`
and read nowhere, so it is not a variable.

## 9. Proofs

`ExamSessionProofs.tla` proves for all values of the constants, under
`TimesAssumption` (the instants are naturals in their order) alone:

| theorem | property |
|---|---|
| `TypeCorrect` | `TypeOK` |
| `FinalizeBounded` | `FinalizePerActivation` |
| `SeatsImplementContract` | `SeatsAsPromised` (refinement) |
| `NoVerdictUnsigned` | `AbsentOnlyWhenSigned` |
| `SettledStaysSettled` | `SettledForGood` |
| `NeverOpenedUntouched` | `NeverOpenedIsUntouched` |
| `RosterIsSeated` | `SeatsAreKept` |
| `SignatureJudgesAll` | `JudgedOnceSigned` |

The argument:

* `TypeOK` is inductive; its proof has one step per action and every other
  proof cites it.
* `FinalizePerActivation` is inductive once typed: an activation raises `opens`
  when it makes the status `active`, finalize turns that unit into `toPublish`,
  publication turns `toPublish` into `broadcasts`.
* The refinement rests on a lemma about the shape of a step: how each action
  may change one seat. `AbsentOnlyWhenSigned` follows from the same shape, since
  only `ConfirmEnd` judges and it signs.
* `SettledForGood` needs no invariant beyond types: the guards of the readers
  exclude a settled status.
* `NeverOpenedIsUntouched` is not inductive: nothing in it excludes a confirm
  request in flight in a session that never opened. `UntouchedInv` ties the
  status to `opens` both ways and adds that no confirm is in flight, no
  signature given and no work there while `opens = 0`.
* `SeatsAreKept` is an action property. An opening commits what it read earlier,
  so `Seatless` already counts whom an opening in flight has not read: the commit
  itself then leaves nobody new without a seat (`OpeningSeats`), and an opening
  that begins has read the whole roster (`UnseenFrame`). `FilesInv` - an opened
  session, or one being opened, has a required file - is what a replacement of
  the files needs: the foreign key forbids it as soon as one seat exists.
* `JudgedOnceSigned` follows from the shape of the steps that touch a seat.

`ArchiveCheckProofs.tla` proves, under `QueueAssumption` (the bounds are
naturals, at least one checker and one attempt) alone, for any number of
uploads, requests, jobs, checkers, attempts and restarts:

| theorem | property |
|---|---|
| `TypeCorrect` | `TypeOK` |
| `PendingOwed` | `PendingIsOwed` |
| `AloneCurrent` | `AloneNeverStale` |

* `PendingIsOwed` is inductive once typed: whoever writes `pending` is then
  about to queue, a job is freed only by an action that writes a conclusion or
  records the loss.
* `AloneNeverStale` needs two invariants. `BasisInv`: what a verdict or a job
  that has read claims to be about the latest PUT agrees with the object now,
  and nothing claims a PUT that has not happened. `AloneInv`: while no two
  checkers have overlapped at most one job is busy, and after the last PUT was
  confirmed the right verdict is either there, or given up, or still *coming* -
  a request about to queue, or a job that will read the object as it is now.
  `ComingNext` shows that the only steps ending that are the ones that write the
  verdict, give up, or lose the job.

`AgentSessionProofs.tla` proves, under `AgentAssumption` (at least one file,
bounds are naturals) alone:

| theorem | property |
|---|---|
| `Invariant`, `TypeCorrect` | `IInv`, `TypeOK` |
| `RestoreKeepsWork` | `RestoredIsNotBlank` |
| `RemovedCollected` | `RemovedIsCollected` |
| `OlderByRestore` | `OlderOnlyByRestore` |
| `RoundsAdvance` | `RoundAdvances` |
| `JoinOwed` | `JoinIsOwed` |

`IInv` adds to the types five parts: `Ages` (nothing in the snapshot, in transit
or uploaded is newer than the last save), `RoundAgrees` (what a round has put and
confirmed, file by file, against what it holds and held at its start),
`BellAgrees` (while the session is active no round runs, no `finalize` or
`recollect` waits and nothing is uploaded), `SnapshotAgrees` (what a restore or a
snapshot in flight holds, against the workspace) and `UploadAgrees` (a process
that never asked for a snapshot holds nothing older than what is uploaded). The
restore needs `SnapshotAgrees` in the middle of its loop: where the snapshot holds
work, the workspace has work too or the entry is still to be written, unless the file
was lost or could not be written. Each action has one lemma `...Keeps`
(`WriteEntry` and `EntryFails` share `EntryKeeps`); the instance of the run `agent`
was checked with `IInv` as an invariant.

`RoundAdvances` needs the types only: outside the collection nothing but a restart
touches a running round (`OthersKeepRound`), and `ProceedAdvances` covers the
three ways a file is done. `JoinIsOwed` is not inductive: an ack read by an agent
whose socket has been replaced would leave it `joined` with nobody on the other
side. `JoinInv` adds that an ack waits only where the socket is in the room or on
its way there (`AckInRoom` - a lost connection takes its messages with it), and
that before the agent dials there is no socket and no question. It was checked on
the instance of the run `agent` first.

`GradingRunProofs.tla` proves, under `GradingAssumption` alone, for any
submissions, requests, tries and faults:

| theorem | property |
|---|---|
| `Invariant`, `TypeCorrect` | `IInv`, `TypeOK` |
| `AttemptsMatchRows` | `AttemptMatchesRow` |
| `ClosedStay` | `ClosedAttemptsStay` |
| `PublishedScored` | `PublishedHasScore` |
| `PublicationStable` | `PublicationIsStable` |
| `LifecycleRefined` | `ImplementsLifecycle` (refinement) |

Every action moves each row in one of nine ways (`RowMove`: stay, open, score,
begin an attempt, close it, ...). `NextMove` shows that once per action; that a
move keeps the row and its attempts consistent, leaves closed attempts alone and
is a step of the lifecycle is then a case analysis over nine moves. `IInv` adds
`RowAgrees` - what a status says of the rest of its row, which no guard reads:
a score belongs to some statuses and a reason to others, a reviewed one-shot row
has a review, a published row has its grade - and that calls and reviews stay
with their pipeline (`CallsAgree`, `RequestsAgree`).

`OwedProofs.tla` goes on from there, under the same assumption:

| theorem | property |
|---|---|
| `WorkAgrees` | (invariant `WorkInv`) |
| `RowsAreOwed` | `NeverAbandoned` |

`NeverAbandoned` is an action property that does not hold from every state. A
late call could put a flag on a row without a score, which would still be in
`ai_grading` when the call ends; a regrade that held two rows and sees to one
would abandon the other; a job of a row that does not exist would be left alone
when the row is made. `WorkInv` says that these states are not reached: a flag is
put on a score, a row that does not exist has no job, a request that is about to
see to jobs has rows, and a regrade has one. It was checked as an invariant of
the run `grading` first. The proof then asks of every action who finishes the row
afterwards: teachers leave an unfinished row alone (`TeacherKeeps`), a call that
throws leaves the job waiting or its listener pending (`ThrowKeeps`,
`FailedIsOwed`), a call that ends otherwise has moved the row on or is still owed
(`CallOwed`, `WorkerOwed`), and a request that lets go of a row has queued it or
found its job alive, unless it fails (`RequestOwed`).

`ScoringProofs.tla` proves for every case - any rubric, rules, runs, exceptions
and prices - the main part of what `ScoringChecked` evaluates:
`RepriceRecomputes`, `ExceptionKeepsDecision` and `AutoOnSoundEvidence`. Here
sums are never expanded: two scores are equal because the same errors are charged
at the same prices.

`SumProofs.tla` proves what does depend on the sums, for every case whose rules
and criteria are finite and whose prices are naturals or missing (`Priceable`):

| theorem | what it says |
|---|---|
| `ScoreWithinRubric` | no criterion loses more than it is worth, the score is the rest and lies between zero and the total: the clamp has nothing to do |
| `DearerNeverScoresMore` | prices that only rise never raise a score |
| `ExceptionDecidesAlone` | `ExceptionIsLocal`, for any case and prices |

A sum is a fold, and a proof about all finite sets would be an induction over
data. It is avoided by a smallest counterexample: strict inclusion on the subsets
of a finite set is well founded, so a set of subsets that is not empty has a
smallest member (`SmallestSet`), and the lemma is refuted there. In this way the
fold is shown to have a value (`FoldExists`, `TotalIsFold`), independent of the
element taken out first (`TotalRemove`), and monotone in its values and its set
(`TotalMonotone`, `TotalOfMore`).

`ScoreLedgerProofs.tla` proves, under `LedgerAssumption` (rubrics of rows, prices
are naturals, rules are finite, a rubric has finitely many criteria worth naturals,
investigations have the fields of a case, initial tables are well formed) alone, for any rows, rubrics, rules, prices, investigations and number of
edits:

| theorem | property |
|---|---|
| `Inductive`, `TypeCorrect` | `IInv`, `TypeOK` |
| `OpenRowsFollow` | `OpenFollowsTable` |
| `AutoIsEarned` | `AutoStillEarned` |
| `PublishedKept` | `PublishedAsPromised` |
| `NothingFreed` | `NothingBecomesFree` |
| `SumsKept`, `ScoresAddUp` | `SumInv`, `ScoreAddsUp` |
| `FallsOnlyByPrice` | `PublishedFallsOnlyByPrice` |
| `LifecycleKept` | `ImplementsLifecycle` (refinement) |

What the assumption says of numbers is the code's: a criterion is worth at least
0.25 and a rubric has at most 30 of them (`rubric.dto.ts`), and the database
refuses a negative deduction; amounts are counted in hundredths.

`IInv` adds what the properties leave open: the stored case (`basis`) is the one
today's table makes of the investigation, the decision on it under today's
breakers is "automatic" for the rows approved so, a published row is a
computation of its case at *some* prices that scores what its tariff gives, and
a row graded by hand is reviewed or published. The argument has two halves. A row
that is computed again satisfies `OpenRow` by construction (`EditStep`), and
`Settled` never leaves it automatic when the computation is not. A row that is
not satisfies it only if the edit did nothing to it: `Kept` lists what that
means - its rules, groups, criteria, waivers and exception as they were, the
prices of *its* errors unchanged, no new breaker about it - and `TableStep` says
that it is enough, since a computation depends on no other price
(`PricesOfErrors`). Each action then owes that the rows outside its scope are
`Kept`: that is where a scope too small would show. `NothingFreed` unfolds
`Reprice`: an error that would lose its price is exactly what makes `Refused` true.
`IInv` speaks of some prices among all functions, which TLC cannot enumerate; its
other parts and the properties are what the run `ledger` evaluates.

`ScoresAddUp` needs more than the shape of a computation: `SumInv` says that
every stored computation is the one its stored case gives at *some* prices that
can be added up, and that the promised prices of a published row are such prices.
A row moves in few ways (`RowStep`), and a repriced row is again a computation of
the same case (`RepriceRecomputes`), so `ScoreWithinRubric` applies to it whatever
it has been through. `FallsOnlyByPrice` then is `DearerNeverScoresMore` for the
new tariff and the old one: only `Reapply` changes a published score, it charges
the errors that were charged, and if none became dearer the score cannot fall.

The refinement goes by moves again: every transaction leaves a row alone, starts
it, grades it, gives it up or rejudges it (`RowMove`, `NextMove`), and each of
these is a step of the lifecycle or a stutter (`MoveIsLifecycle`). It needs
`LifeInv`, that a class stands exactly while the row has no score for the reason
it names; otherwise `HasScore`, which the mapping computes from status and class,
would change without a grading.

Only model-checked: the six liveness properties (fairness and `ENABLED` are out of
the prover's reach) and the violations. Every invariant and every action property
of a passing run is a theorem, and so are the refinements: of `SeatLifecycle` by
`ExamSession`, of `GradingLifecycle` by `GradingRun` and by `ScoreLedger`. Of the
liveness properties, what a proof can reach is stated on its own: `PendingIsOwed`
for `PendingResolves`, `JoinIsOwed` for `JoinIsAnswered`, `RoundAdvances` for
`CollectionEnds`, and `NeverAbandoned` for the rows whose jobs `JobEnds` is about.
The leaves of the proofs are small enough for a third of the provers' default time
(`tlapm --stretch 0.3`).

## 10. Not modelled

Components with status `not_modelled` in `PROJECT.json` have their reason there.
They are form handling behind database constraints, calls to external services,
prompts and documents, offline measurement, and user interface; what the modelled
parts need of them enters as a choice (a call fails, a computation comes out
flagged). Within the modelled parts:

* **Exam session**: the times are constants; `updateSchedule`, `setRubric`,
  archiving and reassignment change nothing the model keeps.
* **Gateway**: the rate limit, the strikes and locks of the join store, two joins
  of one socket, the lobby's broadcasts, the attendance report.
* **Agent**: the screens of access requests and roster refusals
  (`agent:access-granted` after the agent is in leaves it in `joining`), the
  materials and their release timer, database failures in the join handler,
  several snapshots in flight at once (`backup.ts:76`), archive entries that are not
  required files, the moment inside `writeFile` between truncation and content, the time between `endTime`
  and the sweep, archive verdicts that make a collected row missing again, the PUT of
  a dead process that lands late, a PUT that succeeds with a confirm that does not
  (the row's checksum is then older than the object), placeholders for archives,
  `nothing-to-restore`, a disconnection by the server.
* **Grading**: the legacy status of
  one-shot rows that were approved automatically, `exported`, the window inside
  BullMQ's `getJob` / `remove` / `add`, several submissions of one student, the
  audit log, anchors and the default problem. Bulk review is one review per row.
* **Breaker**: the counts that trip it; a label may or may not.
* **Rules**: proposals of an investigation before a teacher adopts them, the
  previews of a price or a revision, changes of the test bundle or the reference
  solution after a grading (nothing is computed again then), new versions of a
  rubric.
* **Failures that were looked at and left out**: two joins of one socket in the
  window before `client.data` is set (`exam-session.gateway.ts:320`; the agent
  asks once per connection), `updateSchedule` against an open
  (`exam-session.service.ts:421`; the times are constants), an enrolment written
  before a roster row that fails (`access-request.gateway.ts:221`), a review that
  meets a publication and writes no audit entry (`teacher-review.service.ts:144`),
  BullMQ's stall limit (`archive-check.processor.ts:57`).
