------------------------- MODULE ArchiveCheckProofs -------------------------
(***************************************************************************)
(* Theorems about ArchiveCheck, for any number of request slots, jobs,     *)
(* checkers, attempts, uploads and restarts.                               *)
(***************************************************************************)
EXTENDS ArchiveCheck, TLAPS

LEMMA JudgementType == \A content : Judgement(content) \in Conclusion
  BY DEF Judgement, Conclusion

LEMMA TypeInit == Init => TypeOK
  <1> USE QueueAssumption
  <1> SUFFICES ASSUME Init PROVE TypeOK
    OBVIOUS
  <1>1. Free \in JobState
    BY DEF Free, JobState
  <1> QED BY <1>1 DEF Init, TypeOK, Object, Content, Verdict, Stage

LEMMA TypeNext == TypeOK /\ [Next]_vars => TypeOK'
  <1> USE QueueAssumption
  <1> SUFFICES ASSUME TypeOK, [Next]_vars PROVE TypeOK'
    OBVIOUS
  <1>0. Free \in JobState /\ [at |-> "waiting", made |-> 0] \in JobState
    BY DEF Free, JobState
  <1>1. CASE UNCHANGED vars
    BY <1>1 DEF vars, TypeOK
  <1>2. ASSUME NEW content \in Content, Upload(content) PROVE TypeOK'
    BY <1>2 DEF Upload, TypeOK, Object
  <1>3. ASSUME NEW r \in Request, RequestStep(r) PROVE TypeOK'
    <2>1. verdict' \in Verdict /\ basis' \in Nat /\ confirmed' \in Nat
      BY <1>3 DEF RequestStep, ConfirmCheck, ConfirmCommit, RecheckFind, RecheckUpdate, Enqueue,
                  EnqueueFails, TypeOK, Verdict, Object
    <2>2. request' \in [Request -> Stage]
      BY <1>3 DEF RequestStep, ConfirmCheck, ConfirmCommit, RecheckFind, RecheckUpdate, Enqueue,
                  EnqueueFails, TypeOK, Stage
    <2>3. job' \in [Job -> JobState]
      BY <1>0, <1>3 DEF RequestStep, ConfirmCheck, ConfirmCommit, RecheckFind, RecheckUpdate, Enqueue,
                  EnqueueFails, TypeOK
    <2>4. /\ object' = object /\ overlapped' = overlapped /\ crashes' = crashes
          /\ orphaned' \in BOOLEAN
      BY <1>3 DEF RequestStep, ConfirmCheck, ConfirmCommit, RecheckFind, RecheckUpdate, Enqueue,
                  EnqueueFails, TypeOK
    <2> QED BY <2>1, <2>2, <2>3, <2>4 DEF TypeOK
  <1>4. ASSUME NEW j \in Job, JobStep(j) PROVE TypeOK'
    <2>0. job[j] \in JobState
      BY DEF TypeOK
    <2>1. CASE Take(j)
      <3>1. [job[j] EXCEPT !.at = "active"] \in JobState
        BY <2>0, <2>1 DEF Take, JobState
      <3> QED BY <2>1, <3>1 DEF Take, TypeOK
    <2>2. CASE ReadObject(j)
      <3>1. [at |-> "read", made |-> job[j].made, version |-> object.version,
             found |-> Judgement(object.content)] \in JobState
        BY <2>0, <2>2, JudgementType DEF ReadObject, JobState, TypeOK, Object
      <3> QED BY <2>2, <3>1 DEF ReadObject, TypeOK
    <2>3. CASE WriteVerdict(j)
      <3>1. job[j].found \in Verdict /\ job[j].version \in Nat
        BY <2>0, <2>3 DEF WriteVerdict, JobState, Verdict
      <3> QED BY <1>0, <2>3, <3>1 DEF WriteVerdict, TypeOK
    <2>4. CASE CheckFails(j)
      <3>1. job[j].made \in 0..Attempts - 1
        BY <2>0, <2>4 DEF CheckFails, Busy, JobState
      <3>2. job[j].made + 1 < Attempts => [at |-> "waiting", made |-> job[j].made + 1] \in JobState
        BY <3>1 DEF JobState
      <3>3. [at |-> "exhausted"] \in JobState
        BY DEF JobState
      <3> QED BY <2>4, <3>2, <3>3 DEF CheckFails, TypeOK
    <2>5. CASE GiveUp(j)
      <3>1. job' \in [Job -> JobState]
        BY <1>0, <2>5 DEF GiveUp, TypeOK
      <3> QED BY <2>5, <3>1 DEF GiveUp, TypeOK, Verdict, Conclusion
    <2>6. CASE GiveUpFails(j)
      <3>1. job' \in [Job -> JobState]
        BY <1>0, <2>6 DEF GiveUpFails, TypeOK
      <3> QED BY <2>6, <3>1 DEF GiveUpFails, TypeOK
    <2> QED BY <1>4, <2>1, <2>2, <2>3, <2>4, <2>5, <2>6 DEF JobStep
  <1>5. CASE Crash
    <2>1. \A j \in Job : Busy(j) => [at |-> "waiting", made |-> job[j].made] \in JobState
      BY DEF TypeOK, Busy, JobState
    <2>2. job' \in [Job -> JobState]
      BY <1>0, <1>5, <2>1 DEF Crash, TypeOK
    <2> QED BY <1>5, <2>2 DEF Crash, TypeOK, Stage
  <1> QED BY <1>1, <1>2, <1>3, <1>4, <1>5 DEF Next

(* The declared types hold in every reachable state: in particular a job   *)
(* never makes more than Attempts attempts (ARCHIVE_CHECK_JOB_OPTIONS).    *)
THEOREM TypeCorrect == Spec => []TypeOK
  BY TypeInit, TypeNext, PTL DEF Spec

-----------------------------------------------------------------------------
(* Whoever makes the verdict `pending` is about to queue a job, and a job  *)
(* only ends by a verdict or by being lost.                                *)
LEMMA OwedNext == TypeOK /\ PendingIsOwed /\ [Next]_vars => PendingIsOwed'
  <1> SUFFICES ASSUME TypeOK, PendingIsOwed, [Next]_vars, verdict' = "pending"
               PROVE  (Queueing \/ Unfinished \/ orphaned)'
    BY DEF PendingIsOwed
  <1> USE DEF Queueing, Unfinished, Free
  <1>1. CASE UNCHANGED vars
    BY <1>1 DEF vars, PendingIsOwed
  <1>2. ASSUME NEW content \in Content, Upload(content)
        PROVE  (Queueing \/ Unfinished \/ orphaned)'
    BY <1>2 DEF Upload, PendingIsOwed
  <1>3. ASSUME NEW r \in Request, RequestStep(r)
        PROVE  (Queueing \/ Unfinished \/ orphaned)'
    <2>1. CASE ConfirmCheck(r) \/ RecheckFind(r)
      BY <2>1 DEF ConfirmCheck, RecheckFind, PendingIsOwed, TypeOK
    <2>2. CASE ConfirmCommit(r) \/ RecheckUpdate(r)
      BY <2>2 DEF ConfirmCommit, RecheckUpdate, TypeOK
    <2>3. CASE Enqueue(r)
      BY <2>3 DEF Enqueue, TypeOK
    <2>4. CASE EnqueueFails(r)
      BY <2>4 DEF EnqueueFails
    <2> QED BY <1>3, <2>1, <2>2, <2>3, <2>4 DEF RequestStep
  <1>4. ASSUME NEW j \in Job, JobStep(j)
        PROVE  (Queueing \/ Unfinished \/ orphaned)'
    <2>0. job[j] \in JobState
      BY DEF TypeOK
    <2>1. CASE Take(j)
      <3>1. job'[j].at = "active"
        BY <2>0, <2>1 DEF Take, TypeOK, JobState
      <3> QED BY <3>1
    <2>2. CASE ReadObject(j) \/ CheckFails(j)
      BY <2>2 DEF ReadObject, CheckFails, TypeOK
    <2>3. CASE WriteVerdict(j)
      <3>1. job[j].found # "pending"
        BY <2>0, <2>3 DEF WriteVerdict, JobState, Conclusion
      <3> QED BY <2>3, <3>1 DEF WriteVerdict
    <2>4. CASE GiveUp(j) \/ GiveUpFails(j)
      BY <2>4 DEF GiveUp, GiveUpFails
    <2> QED BY <1>4, <2>1, <2>2, <2>3, <2>4 DEF JobStep
  <1>5. CASE Crash
    <2>1. CASE Queueing \/ orphaned \/ \E j \in Job : job[j].at = "exhausted"
      BY <1>5, <2>1 DEF Crash
    <2>2. CASE \E j \in Job : job[j] # Free /\ job[j].at # "exhausted"
      BY <1>5, <2>2 DEF Crash, TypeOK
    <2>3. verdict = "pending"
      BY <1>5 DEF Crash
    <2> QED BY <2>1, <2>2, <2>3 DEF PendingIsOwed
  <1> QED BY <1>1, <1>2, <1>3, <1>4, <1>5 DEF Next

(* A `pending` row always has somebody working for it, unless its job was  *)
(* lost (confirmSubmission, requeue, onFailed).                            *)
THEOREM PendingOwed == Spec => []PendingIsOwed
  <1>1. Init => PendingIsOwed
    BY DEF Init, PendingIsOwed
  <1> QED BY <1>1, OwedNext, TypeCorrect, PTL DEF Spec

-----------------------------------------------------------------------------
(* Inductive strengthening of AloneNeverStale.                             *)

(* Nobody is late: what a job has read, and what the verdict rests on, is  *)
(* the object as it was then.                                              *)
BasisInv ==
    /\ confirmed <= object.version
    /\ basis <= object.version
    /\ basis > 0 /\ basis = object.version => verdict = Judgement(object.content)
    /\ \A j \in Job : job[j].at = "read" =>
          /\ job[j].version <= object.version
          /\ job[j].version = object.version => job[j].found = Judgement(object.content)

(* A check that will still read the object, or has lost its job.           *)
Coming == Queueing \/ orphaned \/ \E j \in Job : job[j].at = "waiting"

(* A check that will still write a verdict on the confirmed object, or     *)
(* give up.                                                                *)
Answering ==
    \E j \in Job :
       \/ job[j].at \in {"active", "exhausted"}
       \/ job[j].at = "read" /\ job[j].version >= confirmed

AloneInv ==
    ~overlapped =>
        /\ \A j, k \in Job : Busy(j) /\ Busy(k) => j = k
        /\ \A j \in Job : job[j].at = "read" /\ job[j].version < confirmed => Coming
        /\ basis < confirmed /\ ~GivenUp => Coming \/ Answering

LEMMA BasisNext == TypeOK /\ BasisInv /\ [Next]_vars => BasisInv'
  <1> SUFFICES ASSUME TypeOK, BasisInv, [Next]_vars PROVE BasisInv'
    OBVIOUS
  <1> USE DEF BasisInv
  <1>0. /\ object.version \in Nat /\ basis \in Nat /\ confirmed \in Nat
        /\ job \in [Job -> JobState]
        /\ \A j \in Job : job[j].at = "read" => job[j].version \in Nat
    BY DEF TypeOK, Object, JobState
  <1>1. CASE UNCHANGED vars
    BY <1>1 DEF vars
  <1>2. ASSUME NEW content \in Content, Upload(content) PROVE BasisInv'
    <2>1. /\ object'.version = object.version + 1 /\ UNCHANGED <<confirmed, basis, job, verdict>>
      BY <1>2 DEF Upload
    <2> QED BY <1>0, <2>1
  <1>3. ASSUME NEW r \in Request, RequestStep(r) PROVE BasisInv'
    <2>1. CASE ConfirmCheck(r) \/ RecheckFind(r) \/ EnqueueFails(r)
      BY <2>1 DEF ConfirmCheck, RecheckFind, EnqueueFails
    <2>2. CASE ConfirmCommit(r) \/ RecheckUpdate(r)
      BY <1>0, <2>2 DEF ConfirmCommit, RecheckUpdate
    <2>3. CASE Enqueue(r)
      BY <1>0, <2>3 DEF Enqueue
    <2> QED BY <1>3, <2>1, <2>2, <2>3 DEF RequestStep
  <1>4. ASSUME NEW j \in Job, JobStep(j) PROVE BasisInv'
    <2>1. CASE Take(j)
      <3>1. job'[j].at = "active" /\ \A k \in Job \ {j} : job'[k] = job[k]
        BY <1>0, <2>1 DEF Take, JobState
      <3> QED BY <1>0, <2>1, <3>1 DEF Take
    <2>2. CASE ReadObject(j)
      BY <1>0, <2>2 DEF ReadObject
    <2>3. CASE WriteVerdict(j)
      BY <1>0, <2>3 DEF WriteVerdict, Free
    <2>4. CASE CheckFails(j)
      BY <1>0, <2>4 DEF CheckFails
    <2>5. CASE GiveUp(j) \/ GiveUpFails(j)
      BY <1>0, <2>5 DEF GiveUp, GiveUpFails, Free
    <2> QED BY <1>4, <2>1, <2>2, <2>3, <2>4, <2>5 DEF JobStep
  <1>5. CASE Crash
    <2>1. \A j \in Job : job'[j].at # "read"
      BY <1>0, <1>5 DEF Crash, Busy, Free
    <2> QED BY <1>5, <2>1 DEF Crash
  <1> QED BY <1>1, <1>2, <1>3, <1>4, <1>5 DEF Next

(* A coming check keeps coming until a checker takes the job.              *)
LEMMA ComingNext ==
  ASSUME TypeOK, [Next]_vars, Coming, \A j \in Job : ~Take(j)
  PROVE  Coming'
  <1> USE DEF Coming, Queueing
  <1>0. job \in [Job -> JobState] /\ request \in [Request -> Stage]
    BY DEF TypeOK
  <1>1. CASE UNCHANGED vars
    BY <1>1 DEF vars
  <1>2. ASSUME NEW content \in Content, Upload(content) PROVE Coming'
    BY <1>2 DEF Upload
  <1>3. ASSUME NEW r \in Request, RequestStep(r) PROVE Coming'
    <2>1. CASE ConfirmCheck(r) \/ RecheckFind(r) \/ ConfirmCommit(r) \/ RecheckUpdate(r)
      BY <1>0, <2>1 DEF ConfirmCheck, RecheckFind, ConfirmCommit, RecheckUpdate
    <2>2. CASE Enqueue(r)
      BY <1>0, <2>2 DEF Enqueue
    <2>3. CASE EnqueueFails(r)
      BY <2>3 DEF EnqueueFails
    <2> QED BY <1>3, <2>1, <2>2, <2>3 DEF RequestStep
  <1>4. ASSUME NEW j \in Job, JobStep(j) PROVE Coming'
    <2>1. job[j].at # "waiting"
      BY <1>4 DEF JobStep, ReadObject, WriteVerdict, CheckFails, Busy, GiveUp, GiveUpFails
    <2>2. \A k \in Job \ {j} : job'[k] = job[k]
      BY <1>0, <1>4 DEF JobStep, ReadObject, WriteVerdict, CheckFails, GiveUp, GiveUpFails
    <2>3. UNCHANGED request /\ (orphaned => orphaned')
      BY <1>4 DEF JobStep, ReadObject, WriteVerdict, CheckFails, GiveUp, GiveUpFails
    <2> QED BY <2>1, <2>2, <2>3
  <1>5. CASE Crash
    BY <1>0, <1>5 DEF Crash, Busy
  <1> QED BY <1>1, <1>2, <1>3, <1>4, <1>5 DEF Next

LEMMA AloneNext == TypeOK /\ BasisInv /\ AloneInv /\ [Next]_vars => AloneInv'
  <1> SUFFICES ASSUME TypeOK, BasisInv, AloneInv, [Next]_vars, ~overlapped'
               PROVE  /\ \A j, k \in Job : Busy(j)' /\ Busy(k)' => j = k
                      /\ \A j \in Job : job'[j].at = "read" /\ job'[j].version < confirmed' => Coming'
                      /\ basis' < confirmed' /\ ~GivenUp' => Coming' \/ Answering'
    BY DEF AloneInv
  <1> DEFINE Goal == /\ \A j, k \in Job : Busy(j)' /\ Busy(k)' => j = k
                     /\ \A j \in Job : job'[j].at = "read" /\ job'[j].version < confirmed' => Coming'
                     /\ basis' < confirmed' /\ ~GivenUp' => Coming' \/ Answering'
  <1>0. /\ object.version \in Nat /\ basis \in Nat /\ confirmed \in Nat
        /\ job \in [Job -> JobState] /\ request \in [Request -> Stage]
        /\ \A j \in Job : job[j].at = "read" => job[j].version \in Nat
        /\ confirmed <= object.version
    BY DEF TypeOK, Object, JobState, BasisInv
  <1>a. ~overlapped
    <2>1. overlapped => overlapped'
      BY DEF Next, vars, RequestStep, JobStep, Upload, ConfirmCheck, RecheckFind, ConfirmCommit,
             RecheckUpdate, Enqueue, EnqueueFails, Take, ReadObject, WriteVerdict, CheckFails,
             GiveUp, GiveUpFails, Crash
    <2> QED BY <2>1
  <1>b. /\ \A j, k \in Job : Busy(j) /\ Busy(k) => j = k
        /\ \A j \in Job : job[j].at = "read" /\ job[j].version < confirmed => Coming
        /\ basis < confirmed /\ ~GivenUp => Coming \/ Answering
    BY <1>a DEF AloneInv
  <1>1. CASE UNCHANGED <<verdict, basis, confirmed, job>> /\ (Coming => Coming')
    BY <1>b, <1>1 DEF GivenUp, Answering, Busy
  <1>2. ASSUME NEW r \in Request, RequestStep(r) PROVE Goal
    <2>1. CASE ConfirmCheck(r) \/ RecheckFind(r) \/ EnqueueFails(r)
      <3>1. \A j \in Job : ~Take(j)
        BY <1>0, <2>1 DEF ConfirmCheck, RecheckFind, EnqueueFails, Take, TypeOK, JobState
      <3> QED BY <1>1, <2>1, <3>1, ComingNext DEF ConfirmCheck, RecheckFind, EnqueueFails
    <2>2. CASE ConfirmCommit(r) \/ RecheckUpdate(r)
      <3>1. Coming' /\ UNCHANGED job
        BY <1>0, <2>2 DEF ConfirmCommit, RecheckUpdate, Coming, Queueing
      <3> QED BY <1>b, <3>1 DEF Busy
    <2>3. CASE Enqueue(r)
      <3>1. PICK j \in Job : /\ job[j] = Free
                             /\ job' = [job EXCEPT ![j] = [at |-> "waiting", made |-> 0]]
        BY <2>3 DEF Enqueue
      <3>2. Coming' /\ ~Busy(j)'
        BY <1>0, <3>1 DEF Coming, Busy
      <3>3. \A k \in Job \ {j} : job'[k] = job[k]
        BY <1>0, <3>1
      <3> QED BY <1>b, <3>2, <3>3 DEF Busy
    <2> QED BY <1>2, <2>1, <2>2, <2>3 DEF RequestStep
  <1>3. ASSUME NEW j \in Job, JobStep(j) PROVE Goal
    <2>0. UNCHANGED confirmed
      BY <1>3 DEF JobStep, Take, ReadObject, WriteVerdict, CheckFails, GiveUp, GiveUpFails
    <2>1. CASE Take(j)
      <3>1. /\ \A k \in Job : ~Busy(k)
            /\ UNCHANGED <<verdict, basis>>
        BY <2>1 DEF Take
      <3>2. job'[j].at = "active" /\ \A k \in Job \ {j} : job'[k] = job[k]
        BY <1>0, <2>1 DEF Take, JobState
      <3> QED BY <3>1, <3>2 DEF Busy, Answering
    <2>2. CASE ReadObject(j)
      <3>1. /\ job[j].at = "active" /\ UNCHANGED <<verdict, basis>>
            /\ job'[j].at = "read" /\ job'[j].version = object.version
            /\ \A k \in Job \ {j} : job'[k] = job[k]
        BY <1>0, <2>2 DEF ReadObject
      <3>2. \A k \in Job : Busy(k)' => k = j
        BY <1>b, <3>1 DEF Busy
      <3>3. Answering'
        BY <1>0, <2>0, <3>1 DEF Answering
      <3> QED BY <1>0, <2>0, <3>1, <3>2, <3>3 DEF Busy
    <2>3. CASE WriteVerdict(j)
      <3>1. /\ job[j].at = "read" /\ basis' = job[j].version
            /\ job'[j].at = "free" /\ \A k \in Job \ {j} : job'[k] = job[k]
        BY <1>0, <2>3 DEF WriteVerdict, Free
      <3>2. \A k \in Job : ~Busy(k)'
        BY <1>b, <3>1 DEF Busy
      <3>3. \A k \in Job : ~Take(k)
        BY <1>0, <2>3, <3>1 DEF Take, WriteVerdict, JobState
      <3>4. job[j].version < confirmed => Coming'
        BY <1>b, <3>1, <3>3, ComingNext
      <3> QED BY <1>0, <2>0, <3>1, <3>2, <3>4 DEF Busy
    <2>4. CASE CheckFails(j)
      <3>1. /\ Busy(j) /\ UNCHANGED <<verdict, basis>>
            /\ job'[j].at \in {"waiting", "exhausted"}
            /\ \A k \in Job \ {j} : job'[k] = job[k]
        BY <1>0, <2>4 DEF CheckFails
      <3>2. \A k \in Job : ~Busy(k)'
        BY <1>b, <3>1 DEF Busy
      <3>3. Coming' \/ Answering'
        BY <3>1 DEF Coming, Answering
      <3> QED BY <3>2, <3>3 DEF Busy
    <2>5. CASE GiveUp(j) \/ GiveUpFails(j)
      <3>1. /\ job[j].at = "exhausted" /\ job'[j].at = "free"
            /\ \A k \in Job \ {j} : job'[k] = job[k]
        BY <1>0, <2>5 DEF GiveUp, GiveUpFails, Free
      <3>2. \A k \in Job : ~Take(k)
        BY <1>0, <3>1 DEF Take, JobState
      <3>3. Coming => Coming'
        BY <3>2, ComingNext
      <3>4. GivenUp' \/ Coming'
        BY <2>5 DEF GiveUp, GiveUpFails, GivenUp, Coming
      <3> QED BY <1>b, <2>0, <3>1, <3>3, <3>4 DEF Busy
    <2> QED BY <1>3, <2>1, <2>2, <2>3, <2>4, <2>5 DEF JobStep
  <1>4. CASE Crash
    <2>1. \A k \in Job : ~Busy(k)'
      BY <1>0, <1>4 DEF Crash, Busy, Free
    <2>2. UNCHANGED <<verdict, basis, confirmed>>
      BY <1>4 DEF Crash
    <2>3. Coming => Coming'
      BY <1>0, <1>4 DEF Crash, Coming, Queueing, Busy
    <2>4. Answering => Coming'
      BY <1>0, <1>4 DEF Crash, Coming, Answering, Busy
    <2> QED BY <1>b, <2>1, <2>2, <2>3, <2>4 DEF Busy, GivenUp
  <1>5. CASE UNCHANGED vars \/ \E content \in Content : Upload(content)
    BY <1>1, <1>5 DEF vars, Upload, Coming, Queueing
  <1> QED BY <1>2, <1>3, <1>4, <1>5 DEF Next

(* As long as no two checkers ran at once, no order of uploads, confirms,  *)
(* failing attempts, rechecks and restarts leaves a verdict that does not  *)
(* belong to the confirmed file (checkOne, upsertCollected, requeue).      *)
THEOREM AloneCurrent == Spec => []AloneNeverStale
  <1> DEFINE IInv == TypeOK /\ BasisInv /\ AloneInv
  <1>1. Init => IInv
    <2> SUFFICES ASSUME Init PROVE BasisInv /\ AloneInv
      BY TypeInit
    <2>1. \A j \in Job : job[j].at = "free"
      BY DEF Init, Free
    <2> QED BY <2>1 DEF Init, BasisInv, AloneInv, Busy
  <1>2. IInv /\ [Next]_vars => IInv'
    BY TypeNext, BasisNext, AloneNext
  <1>3. IInv => AloneNeverStale
    <2> SUFFICES ASSUME IInv, ~overlapped, Settled, ~GivenUp
                 PROVE  verdict = Judgement(object.content)
      BY DEF AloneNeverStale, Current
    <2>1. ~Coming /\ ~Answering
      BY DEF Settled, Coming, Answering, Unfinished, Free
    <2>2. basis >= confirmed
      BY <2>1 DEF AloneInv, TypeOK
    <2> QED BY <2>2 DEF Settled, BasisInv, TypeOK, Object
  <1> QED BY <1>1, <1>2, <1>3, PTL DEF Spec
=============================================================================
