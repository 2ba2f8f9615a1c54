---------------------------- MODULE ArchiveCheck ----------------------------
(***************************************************************************)
(* The verdict on one collected archive: is every file the teacher asked   *)
(* for inside it?  The agent PUTs the archive at one fixed storage key,    *)
(* over whatever was there; submission:confirm commits `pending` and then, *)
(* outside its transaction, queues a BullMQ job; up to Concurrency jobs    *)
(* run at once, each reading the object and writing a verdict by id; the   *)
(* teacher may ask for a recheck.  Nothing joins the row, the object and   *)
(* the queue in one transaction.                                           *)
(***************************************************************************)
EXTENDS Naturals, FiniteSets

CONSTANTS
    Request,      \* slots for confirms and rechecks in flight at once
    Job,          \* slots for jobs not finished yet
    Concurrency,  \* ARCHIVE_CHECK_CONCURRENCY
    Attempts,     \* ARCHIVE_CHECK_JOB_OPTIONS.attempts
    MaxUploads,   \* bound on the PUTs of the agent
    MaxCrashes    \* bound on restarts of the API process

ASSUME QueueAssumption ==
    /\ Concurrency \in Nat \ {0} /\ Attempts \in Nat \ {0}
    /\ MaxUploads \in Nat /\ MaxCrashes \in Nat

VARIABLES
    object,      \* the object at the storage key: which PUT, and what it holds
    verdict,     \* submission.archive_check_status
    basis,       \* history: the PUT the verdict was reached on, 0 if on none
    confirmed,   \* history: the PUT at the key when a confirm last committed
    request,     \* the confirms and rechecks in flight
    job,         \* the queue and its workers
    orphaned,    \* history: a job owed was lost and none was queued since
    overlapped,  \* history: two checkers ran at once
    crashes

vars == <<object, verdict, basis, confirmed, request, job, orphaned, overlapped, crashes>>

Content == {"complete", "incomplete", "broken"}
Object == [version : Nat, content : Content \cup {"none"}]
Conclusion == {"passed", "failed", "unreadable"}
Verdict == {"not_applicable", "pending"} \cup Conclusion

Stage == {"idle", "confirm", "recheck", "enqueue"}

Free == [at |-> "free"]
JobState ==
         [at : {"free", "exhausted"}]
    \cup [at : {"waiting", "active"}, made : 0..Attempts - 1]
    \cup [at : {"read"}, made : 0..Attempts - 1, version : Nat, found : Conclusion]

Busy(j) == job[j].at \in {"active", "read"}

(* `broken` is every way of not being readable: too large, of another      *)
(* format, truncated, with too many entries.                               *)
Judgement(content) ==
    CASE content = "complete" -> "passed"
      [] content = "incomplete" -> "failed"
      [] OTHER -> "unreadable"

-----------------------------------------------------------------------------
Init ==
    /\ object = [version |-> 0, content |-> "none"]
    /\ verdict = "not_applicable" /\ basis = 0 /\ confirmed = 0
    /\ request = [r \in Request |-> "idle"]
    /\ job = [j \in Job |-> Free]
    /\ orphaned = FALSE /\ overlapped = FALSE /\ crashes = 0

(* The presigned PUT, at any time while its URL lives.                     *)
Upload(content) ==
    /\ object.version < MaxUploads
    /\ object' = [version |-> object.version + 1, content |-> content]
    /\ UNCHANGED <<verdict, basis, confirmed, request, job, orphaned, overlapped, crashes>>

-----------------------------------------------------------------------------
(* submission:confirm, from objectExists on.                               *)

ConfirmCheck(r) ==
    /\ request[r] = "idle"
    /\ object.version > 0
    /\ request' = [request EXCEPT ![r] = "confirm"]
    /\ UNCHANGED <<object, verdict, basis, confirmed, job, orphaned, overlapped, crashes>>

(* snapshotArchiveExpectations, in the transaction that collects the file: *)
(* the file has declared entries.                                          *)
ConfirmCommit(r) ==
    /\ request[r] = "confirm"
    /\ verdict' = "pending" /\ basis' = 0
    /\ confirmed' = object.version
    /\ request' = [request EXCEPT ![r] = "enqueue"]
    /\ UNCHANGED <<object, job, orphaned, overlapped, crashes>>

(* ArchiveRecheckService.requeue: find, then UPDATE by id, then addBulk.   *)
RecheckFind(r) ==
    /\ request[r] = "idle"
    /\ verdict \in {"failed", "unreadable", "pending"}
    /\ request' = [request EXCEPT ![r] = "recheck"]
    /\ UNCHANGED <<object, verdict, basis, confirmed, job, orphaned, overlapped, crashes>>

RecheckUpdate(r) ==
    /\ request[r] = "recheck"
    /\ verdict' = "pending" /\ basis' = 0
    /\ request' = [request EXCEPT ![r] = "enqueue"]
    /\ UNCHANGED <<object, confirmed, job, orphaned, overlapped, crashes>>

(* Mutant: the submission's id as job id, so a second job is swallowed     *)
(* while the first is unfinished.                                          *)
EnqueueOnce(r) ==
    /\ request[r] = "enqueue"
    /\ request' = [request EXCEPT ![r] = "idle"]
    /\ IF \E j \in Job : job[j] # Free
       THEN UNCHANGED job
       ELSE \E j \in Job : job' = [job EXCEPT ![j] = [at |-> "waiting", made |-> 0]]
    /\ orphaned' = FALSE
    /\ UNCHANGED <<object, verdict, basis, confirmed, overlapped, crashes>>

Enqueue(r) ==
    /\ request[r] = "enqueue"
    /\ request' = [request EXCEPT ![r] = "idle"]
    /\ \E j \in Job :
          /\ job[j] = Free
          /\ job' = [job EXCEPT ![j] = [at |-> "waiting", made |-> 0]]
    /\ orphaned' = FALSE
    /\ UNCHANGED <<object, verdict, basis, confirmed, overlapped, crashes>>

(* Redis refuses: logged by confirm, a 500 from the recheck, and `pending` *)
(* stays.                                                                  *)
EnqueueFails(r) ==
    /\ request[r] = "enqueue"
    /\ request' = [request EXCEPT ![r] = "idle"]
    /\ orphaned' = TRUE
    /\ UNCHANGED <<object, verdict, basis, confirmed, job, overlapped, crashes>>

-----------------------------------------------------------------------------
(* ArchiveCheckProcessor and ArchiveCheckService.checkOne.                 *)

Take(j) ==
    /\ job[j].at = "waiting"
    /\ Cardinality({k \in Job : Busy(k)}) < Concurrency
    /\ job' = [job EXCEPT ![j].at = "active"]
    /\ overlapped' = (overlapped \/ \E k \in Job : Busy(k))
    /\ UNCHANGED <<object, verdict, basis, confirmed, request, orphaned, crashes>>

(* getObjectSize and getObject: the object that is at the key now.         *)
ReadObject(j) ==
    /\ job[j].at = "active"
    /\ job' = [job EXCEPT ![j] = [at |-> "read", made |-> job[j].made,
                                  version |-> object.version,
                                  found |-> Judgement(object.content)]]
    /\ UNCHANGED <<object, verdict, basis, confirmed, request, orphaned, overlapped, crashes>>

(* UPDATE ... WHERE id = :id, whatever the row says by now.                *)
WriteVerdict(j) ==
    /\ job[j].at = "read"
    /\ verdict' = job[j].found
    /\ basis' = job[j].version
    /\ job' = [job EXCEPT ![j] = Free]
    /\ UNCHANGED <<object, confirmed, request, orphaned, overlapped, crashes>>

(* Mutant: the failed attempt is not counted.                              *)
CheckFailsUncounted(j) ==
    /\ Busy(j)
    /\ job' = [job EXCEPT ![j] = [at |-> "waiting", made |-> job[j].made]]
    /\ UNCHANGED <<object, verdict, basis, confirmed, request, orphaned, overlapped, crashes>>

(* Mutant: one attempt too many.                                           *)
CheckFailsOnceMore(j) ==
    /\ Busy(j)
    /\ job' = [job EXCEPT ![j] =
                  IF job[j].made < Attempts
                  THEN [at |-> "waiting", made |-> job[j].made + 1]
                  ELSE [at |-> "exhausted"]]
    /\ UNCHANGED <<object, verdict, basis, confirmed, request, orphaned, overlapped, crashes>>

(* Storage or database failed the attempt: BullMQ queues it again, or      *)
(* moves it to `failed`.                                                   *)
CheckFails(j) ==
    /\ Busy(j)
    /\ job' = [job EXCEPT ![j] =
                  IF job[j].made + 1 < Attempts
                  THEN [at |-> "waiting", made |-> job[j].made + 1]
                  ELSE [at |-> "exhausted"]]
    /\ UNCHANGED <<object, verdict, basis, confirmed, request, orphaned, overlapped, crashes>>

(* Mutant: onFailed takes the last attempt for one that will be repeated.  *)
GiveUpSilently(j) ==
    /\ job[j].at = "exhausted"
    /\ job' = [job EXCEPT ![j] = Free]
    /\ UNCHANGED <<object, verdict, basis, confirmed, request, orphaned, overlapped, crashes>>

(* onFailed runs after the job has failed for good.                        *)
GiveUp(j) ==
    /\ job[j].at = "exhausted"
    /\ verdict' = "unreadable" /\ basis' = 0
    /\ job' = [job EXCEPT ![j] = Free]
    /\ UNCHANGED <<object, confirmed, request, orphaned, overlapped, crashes>>

(* markUnreadable fails: nobody repeats the listener.                      *)
GiveUpFails(j) ==
    /\ job[j].at = "exhausted"
    /\ job' = [job EXCEPT ![j] = Free]
    /\ orphaned' = TRUE
    /\ UNCHANGED <<object, verdict, basis, confirmed, request, overlapped, crashes>>

-----------------------------------------------------------------------------
(* The process restarts.  Redis keeps the jobs: one that was running is    *)
(* found stalled and waits again.  Requests and listeners are gone.        *)
Crash ==
    /\ crashes < MaxCrashes
    /\ crashes' = crashes + 1
    /\ request' = [r \in Request |-> "idle"]
    /\ job' = [j \in Job |->
                  IF Busy(j) THEN [at |-> "waiting", made |-> job[j].made]
                  ELSE IF job[j].at = "exhausted" THEN Free ELSE job[j]]
    /\ orphaned' = \/ orphaned
                   \/ \E r \in Request : request[r] = "enqueue"
                   \/ \E j \in Job : job[j].at = "exhausted"
    /\ UNCHANGED <<object, verdict, basis, confirmed, overlapped>>

RequestStep(r) ==
    \/ ConfirmCheck(r) \/ ConfirmCommit(r)
    \/ RecheckFind(r) \/ RecheckUpdate(r)
    \/ Enqueue(r) \/ EnqueueFails(r)

JobStep(j) ==
    \/ Take(j) \/ ReadObject(j) \/ WriteVerdict(j)
    \/ CheckFails(j) \/ GiveUp(j) \/ GiveUpFails(j)

Next ==
    \/ \E content \in Content : Upload(content)
    \/ \E r \in Request : RequestStep(r)
    \/ \E j \in Job : JobStep(j)
    \/ Crash

(* A request that has committed goes on to the queue; the worker takes a   *)
(* job when it has room, and a job it has taken ends one way or another.   *)
Fairness ==
    /\ \A r \in Request : WF_vars(Enqueue(r) \/ EnqueueFails(r))
    /\ WF_vars(\E j \in Job : Take(j))
    /\ \A j \in Job : WF_vars(ReadObject(j) \/ WriteVerdict(j) \/ CheckFails(j)
                              \/ GiveUp(j) \/ GiveUpFails(j))

Spec == Init /\ [][Next]_vars
FairSpec == Spec /\ Fairness

-----------------------------------------------------------------------------
(* Properties.                                                             *)

(* Type invariant of the object, the row, the queue and the history.       *)
TypeOK ==
    /\ object \in Object
    /\ verdict \in Verdict
    /\ basis \in Nat /\ confirmed \in Nat /\ crashes \in Nat
    /\ request \in [Request -> Stage]
    /\ job \in [Job -> JobState]
    /\ orphaned \in BOOLEAN /\ overlapped \in BOOLEAN

Queueing == \E r \in Request : request[r] = "enqueue"
Unfinished == \E j \in Job : job[j] # Free

(* `pending` never lies: somebody still has to queue the check, or a job   *)
(* is unfinished, whichever uploads, rechecks, retries and restarts went   *)
(* before - unless a job was lost, and then the recheck button repairs it  *)
(* (confirmSubmission, requeue, onFailed).                                 *)
PendingIsOwed == verdict = "pending" => Queueing \/ Unfinished \/ orphaned

(* When the last PUT was confirmed and nothing is under way, the verdict   *)
(* is the one this very file deserves, or says that the check was given    *)
(* up.                                                                     *)
Settled == ~Queueing /\ ~Unfinished /\ ~orphaned
                     /\ confirmed > 0 /\ confirmed = object.version
GivenUp == verdict = "unreadable" /\ basis = 0
Current == verdict = Judgement(object.content) \/ GivenUp

(* What the queue guarantees if no two checkers ever ran at once: uploads, *)
(* confirms, failing attempts, rechecks and restarts in any order do not   *)
(* leave an old verdict behind (checkOne reads what is at the key when it  *)
(* runs, and every confirm queues a job of its own).                       *)
AloneNeverStale == ~overlapped /\ Settled => Current

(* A check that was asked for and not lost ends in a conclusion            *)
(* (ARCHIVE_CHECK_JOB_OPTIONS, onFailed).                                  *)
PendingResolves == verdict = "pending" /\ ~orphaned ~> verdict # "pending" \/ orphaned
=============================================================================
