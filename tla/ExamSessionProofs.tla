------------------------- MODULE ExamSessionProofs -------------------------
(***************************************************************************)
(* Proofs about ExamSession, for any sets of students, files and handlers  *)
(* and any schedule.                                                       *)
(***************************************************************************)
EXTENDS ExamSession, TLAPS

(* The initial state is well typed.                                        *)
LEMMA TypeInit == Init => TypeOK
  <1> SUFFICES ASSUME Init PROVE TypeOK
    OBVIOUS
  <1>1. handler \in [Worker -> Request] /\ autoOpen \in Tick
    <2>1. Idle \in Request /\ [pc |-> "idle"] \in Tick
      BY DEF Idle, Request, Tick
    <2> QED BY <2>1 DEF Init
  <1>2. /\ roster \in [Student -> RosterSource]
        /\ seat \in [Student -> [Deliverable -> SeatStatus]]
    BY DEF Init, RosterSource, SeatStatus
  <1> QED BY <1>1, <1>2 DEF Init, TypeOK, SessionStatus

(* What the handlers build is a request again.                             *)
LEMMA SeededType ==
  ASSUME TypeOK, NEW students
  PROVE  Seeded(students) \in [Student -> [Deliverable -> SeatStatus]]
  BY DEF TypeOK, Seeded, SeatStatus

LEMMA RosterType ==
  ASSUME TypeOK
  PROVE  /\ CopiedRoster \in [Student -> RosterSource]
         /\ Materialized \in [Student -> RosterSource]
  BY DEF TypeOK, CopiedRoster, Materialized, RosterSource

LEMMA WithoutSeatsType ==
  ASSUME TypeOK, NEW students
  PROVE  WithoutSeats(students) \in [Student -> [Deliverable -> SeatStatus]]
  BY DEF TypeOK, WithoutSeats, SeatStatus

LEMMA AbsenteesMarkedType ==
  TypeOK => AbsenteesMarked \in [Student -> [Deliverable -> SeatStatus]]
  BY DEF TypeOK, AbsenteesMarked, SeatStatus

(* Every handler is left with a request of its type.                       *)
LEMMA EnterType ==
  ASSUME TypeOK, NEW w \in Worker, NEW request \in Request,
         Enter(w, request) \/ Advance(w, request)
  PROVE  handler' \in [Worker -> Request]
  BY DEF TypeOK, Enter, Advance

LEMMA FinishType ==
  ASSUME TypeOK, NEW w \in Worker, Finish(w)
  PROVE  handler' \in [Worker -> Request]
  BY DEF TypeOK, Finish, Idle, Request

(* What a deletion leaves of the requests in flight.                       *)
LEMMA FinishDeletingFrame ==
  ASSUME TypeOK, NEW w \in Worker, NEW students, FinishDeleting(w, students)
  PROVE  /\ handler' \in [Worker -> Request]
         /\ handler'[w] = Idle
         /\ \A v \in Worker \ {w} :
               \/ handler'[v] = handler[v]
               \/ handler[v].op = "delete" /\ handler'[v].op = "delete"
  <1>0. handler \in [Worker -> Request] /\ Idle \in Request
    BY DEF TypeOK, Idle, Request
  <1>1. ASSUME NEW r \in Request, r.op = "delete"
        PROVE  /\ [r EXCEPT !.row = "gone"] \in Request
               /\ [r EXCEPT !.row = "gone"].op = "delete"
    <2>1. r \in [op : {"delete"}, student : Student, row : {"there", "copied", "gone"}]
      BY <1>1 DEF Request
    <2>2. [r EXCEPT !.row = "gone"] \in
             [op : {"delete"}, student : Student, row : {"there", "copied", "gone"}]
      BY <2>1
    <2> QED BY <2>2 DEF Request
  <1>2. ASSUME NEW v \in Worker
        PROVE  /\ handler'[v] \in Request
               /\ \/ v = w \/ handler'[v] = handler[v]
                  \/ handler[v].op = "delete" /\ handler'[v].op = "delete"
    BY <1>0, <1>1 DEF FinishDeleting
  <1> QED BY <1>2 DEF FinishDeleting

LEMMA OpenReadType ==
  ASSUME TypeOK, NEW w \in Worker, OpenRead(w) PROVE TypeOK'
  <1>1. /\ [op |-> "seed", rows |-> OnRoster] \in Request
        /\ [op |-> "copy"] \in Request
    BY DEF Request, OnRoster
  <1>2. handler' \in [Worker -> Request]
    BY <1>1, EnterType DEF OpenRead
  <1> QED BY <1>2 DEF OpenRead, TypeOK, db

LEMMA OpenCommitType ==
  ASSUME TypeOK, NEW w \in Worker, OpenCommit(w) PROVE TypeOK'
  <1>1. handler' \in [Worker -> Request]
    BY FinishType DEF OpenCommit
  <1>2. /\ status' \in SessionStatus /\ opens' \in Nat
        /\ seat' \in [Student -> [Deliverable -> SeatStatus]]
        /\ roster' \in [Student -> RosterSource]
    BY SeededType, RosterType DEF OpenCommit, SeedAndActivate, CopyAndActivate, Activate,
       SessionStatus, TypeOK
  <1> QED BY <1>1, <1>2 DEF OpenCommit, SeedAndActivate, CopyAndActivate, TypeOK

LEMMA SessionStepType ==
  ASSUME TypeOK, SessionStep PROVE TypeOK'
  <1>1. CASE FinalizeUpdate
    BY <1>1 DEF FinalizeUpdate, TypeOK, SessionStatus
  <1>2. CASE PublishFinalized
    BY <1>2 DEF PublishFinalized, TypeOK, db
  <1>3. CASE ConfirmEnd
    BY <1>3, AbsenteesMarkedType DEF ConfirmEnd, TypeOK, SessionStatus, memory
  <1>4. CASE CollectionSweep
    BY <1>4 DEF CollectionSweep, TypeOK, SessionStatus, memory
  <1>5. CASE Crash
    <2>1. Idle \in Request /\ [pc |-> "idle"] \in Tick
      BY DEF Idle, Request, Tick
    <2> QED BY <1>5, <2>1 DEF Crash, TypeOK, db
  <1>6. CASE Tock
    BY <1>6 DEF Tock, TypeOK, db, memory
  <1> QED
    BY <1>1, <1>2, <1>3, <1>4, <1>5, <1>6 DEF SessionStep, FinalizeManually, FinalizeSweep

LEMMA AutoOpenType ==
  ASSUME TypeOK, AutoOpen PROVE TypeOK'
  <1>0. /\ [pc |-> "idle"] \in Tick
        /\ autoOpen.pc # "idle" =>
             /\ [pc |-> "copy", now |-> autoOpen.now] \in Tick
             /\ [pc |-> "unready", now |-> autoOpen.now] \in Tick
             /\ [pc |-> "seed", now |-> autoOpen.now, rows |-> OnRoster] \in Tick
    BY DEF TypeOK, Tick, OnRoster
  <1>1. CASE AutoOpenBegin
    BY <1>1 DEF AutoOpenBegin, TypeOK, Tick, db
  <1>2. CASE AutoOpenTooLate
    BY <1>0, <1>2 DEF AutoOpenTooLate, TransitionUnopened, AutoOpenEnds, TypeOK, SessionStatus
  <1>3. CASE AutoOpenRead
    BY <1>0, <1>3 DEF AutoOpenRead, TypeOK, db
  <1>4. CASE AutoOpenCommit
    <2>1. /\ status' \in SessionStatus /\ opens' \in Nat
          /\ seat' \in [Student -> [Deliverable -> SeatStatus]]
          /\ roster' \in [Student -> RosterSource]
      BY <1>4, SeededType, RosterType DEF AutoOpenCommit, SeedAndActivate, CopyAndActivate,
         Activate, SessionStatus, TypeOK
    <2> QED
      BY <1>0, <1>4, <2>1 DEF AutoOpenCommit, SeedAndActivate, CopyAndActivate, AutoOpenEnds,
         TypeOK
  <1>5. CASE AutoOpenFails
    BY <1>0, <1>5 DEF AutoOpenFails, AutoOpenEnds, TypeOK, db
  <1>6. CASE AutoOpenGivesUp
    BY <1>0, <1>6 DEF AutoOpenGivesUp, TransitionUnopened, AutoOpenEnds, TypeOK, SessionStatus
  <1> QED BY <1>1, <1>2, <1>3, <1>4, <1>5, <1>6 DEF AutoOpen

LEMMA CancelType ==
  ASSUME TypeOK, NEW w \in Worker, CancelRead(w) \/ CancelWrite(w) PROVE TypeOK'
  <1>1. [op |-> "cancel"] \in Request
    BY DEF Request
  <1>2. handler' \in [Worker -> Request]
    BY <1>1, EnterType, FinishType DEF CancelRead, CancelWrite
  <1> QED BY <1>2 DEF CancelRead, CancelWrite, TypeOK, SessionStatus, db

(* A request read from `handler` carries fields of the declared types.     *)
LEMMA RequestFields ==
  ASSUME NEW r \in Request
  PROVE  /\ r.op = "seed" => r.rows \subseteq Student
         /\ r.op = "replace" => r.files \subseteq Deliverable
         /\ r.op = "import" => r.students \subseteq Student
         /\ r.op \in {"add", "remove"} => r.student \in Student /\ r.awaiting \in BOOLEAN
         /\ r.op = "delete" => r.student \in Student
         /\ r.op \in {"confirm", "write"} => r.student \in Student /\ r.file \in Deliverable
  BY DEF Request

LEMMA RosterReadType ==
  ASSUME TypeOK, NEW w \in Worker,
         \/ \E files \in (SUBSET Deliverable) \ {{}} : ReplaceRead(w, files)
         \/ MaterializeRead(w)
         \/ \E students \in (SUBSET Student) \ {{}}, removeMissing \in BOOLEAN :
               ImportRead(w, students, removeMissing)
         \/ \E s \in Student : AddRead(w, s) \/ RemoveRead(w, s)
  PROVE  TypeOK'
  <1>1. PICK request \in Request : Enter(w, request)
    <2>1. ASSUME NEW files \in SUBSET Deliverable
          PROVE  [op |-> "replace", files |-> files] \in Request
      BY DEF Request
    <2>2. [op |-> "materialize"] \in Request
      BY DEF Request
    <2>3. ASSUME NEW students \in SUBSET Student, NEW removeMissing \in BOOLEAN
          PROVE  [op |-> "import", students |-> students, removeMissing |-> removeMissing]
                   \in Request
      BY DEF Request
    <2>4. ASSUME NEW s \in Student, NEW awaiting \in BOOLEAN
          PROVE  /\ [op |-> "add", student |-> s, awaiting |-> awaiting] \in Request
                 /\ [op |-> "remove", student |-> s, awaiting |-> awaiting] \in Request
      BY DEF Request
    <2>5. IsAwaitingOpen(status) \in BOOLEAN
      BY DEF IsAwaitingOpen
    <2> QED
      BY <2>1, <2>2, <2>3, <2>4, <2>5
      DEF ReplaceRead, MaterializeRead, ImportRead, AddRead, RemoveRead
  <1>2. handler' \in [Worker -> Request]
    BY <1>1, EnterType
  <1>3. UNCHANGED db /\ EditUnchanged
    BY DEF ReplaceRead, MaterializeRead, ImportRead, AddRead, RemoveRead
  <1> QED BY <1>2, <1>3 DEF EditUnchanged, TypeOK, db

LEMMA RosterCommitType ==
  ASSUME TypeOK, NEW w \in Worker,
         \/ ReplaceCommit(w) \/ MaterializeCommit(w) \/ ImportCommit(w)
         \/ AddCommit(w) \/ RemoveDelete(w)
  PROVE  TypeOK'
  <1>0. handler[w] \in Request
    BY DEF TypeOK
  <1>1. handler' \in [Worker -> Request]
    BY FinishType, FinishDeletingFrame
    DEF ReplaceCommit, MaterializeCommit, ImportCommit, AddCommit, RemoveDelete
  <1>2. CASE ReplaceCommit(w)
    BY <1>0, <1>1, <1>2, RequestFields DEF ReplaceCommit, EditUnchanged, TypeOK
  <1>3. CASE MaterializeCommit(w)
    BY <1>1, <1>3, RosterType DEF MaterializeCommit, EditUnchanged, TypeOK
  <1>4. CASE ImportCommit(w)
    <2>1. roster' \in [Student -> RosterSource]
      BY <1>4, RosterType DEF ImportCommit, RosterSource
    <2>2. seat' \in [Student -> [Deliverable -> SeatStatus]]
      BY <1>4, WithoutSeatsType DEF ImportCommit
    <2> QED BY <1>1, <1>4, <2>1, <2>2 DEF ImportCommit, EditUnchanged, TypeOK
  <1>5. CASE AddCommit(w)
    <2>1. roster' \in [Student -> RosterSource]
      BY <1>5, RosterType DEF AddCommit, RosterSource, TypeOK
    <2>2. seat' \in [Student -> [Deliverable -> SeatStatus]]
      BY <1>5, SeededType DEF AddCommit
    <2> QED BY <1>1, <1>5, <2>1, <2>2 DEF AddCommit, EditUnchanged, TypeOK
  <1>6. CASE RemoveDelete(w)
    <2>1. roster' \in [Student -> RosterSource]
      BY <1>6, RosterType DEF RemoveDelete, RosterSource, TypeOK
    <2>2. seat' \in [Student -> [Deliverable -> SeatStatus]]
      BY <1>6, WithoutSeatsType DEF RemoveDelete
    <2> QED BY <1>1, <1>6, <2>1, <2>2 DEF RemoveDelete, EditUnchanged, TypeOK
  <1> QED BY <1>2, <1>3, <1>4, <1>5, <1>6

LEMMA RemoveCheckType ==
  ASSUME TypeOK, NEW w \in Worker, RemoveCheck(w) PROVE TypeOK'
  <1>1. handler[w] \in Request /\ handler[w].op = "remove"
    BY DEF TypeOK, RemoveCheck
  <1>2. handler[w].student \in Student /\ handler[w].awaiting \in BOOLEAN
    BY <1>1, RequestFields
  <1>3. ASSUME NEW row \in {"there", "copied"}
        PROVE  [op |-> "delete", student |-> handler[w].student, row |-> row] \in Request
    BY <1>2 DEF Request
  <1>4. handler' \in [Worker -> Request]
    BY <1>3, EnterType DEF RemoveCheck
  <1> QED BY <1>4 DEF RemoveCheck, EditUnchanged, TypeOK, db

LEMMA ConfirmType ==
  ASSUME TypeOK, NEW w \in Worker,
         \/ \E s \in Student, d \in Deliverable : ConfirmCheck(w, s, d)
         \/ ConfirmRead(w) \/ ConfirmWrite(w) \/ ConfirmRetry(w) \/ Abort(w)
  PROVE  TypeOK'
  <1>0. handler[w] \in Request
    BY DEF TypeOK
  <1>1. ASSUME NEW s \in Student, NEW d \in Deliverable
        PROVE  /\ [op |-> "confirm", student |-> s, file |-> d] \in Request
               /\ \A old \in SeatStatus :
                    [op |-> "write", student |-> s, file |-> d, old |-> old] \in Request
    BY DEF Request
  <1>2. CASE \E s \in Student, d \in Deliverable : ConfirmCheck(w, s, d)
    <2>1. handler' \in [Worker -> Request]
      BY <1>1, <1>2, EnterType DEF ConfirmCheck
    <2> QED BY <1>2, <2>1 DEF ConfirmCheck, DbUnchanged, TypeOK, db
  <1>3. CASE ConfirmRead(w)
    <2>1. handler[w].student \in Student /\ handler[w].file \in Deliverable
      BY <1>0, <1>3, RequestFields DEF ConfirmRead
    <2>2. seat[handler[w].student][handler[w].file] \in SeatStatus
      BY <2>1 DEF TypeOK
    <2>3. handler' \in [Worker -> Request]
      BY <1>1, <1>3, <2>1, <2>2, EnterType DEF ConfirmRead
    <2> QED BY <1>3, <2>3 DEF ConfirmRead, DbUnchanged, TypeOK, db
  <1>4. CASE ConfirmWrite(w)
    <2>1. handler' \in [Worker -> Request]
      BY <1>4, FinishType DEF ConfirmWrite
    <2>2. seat' \in [Student -> [Deliverable -> SeatStatus]]
      BY <1>0, <1>4, RequestFields DEF ConfirmWrite, TypeOK, SeatStatus
    <2> QED BY <1>4, <2>1, <2>2 DEF ConfirmWrite, TypeOK
  <1>5. CASE ConfirmRetry(w)
    <2>1. handler[w].student \in Student /\ handler[w].file \in Deliverable
      BY <1>0, <1>5, RequestFields DEF ConfirmRetry
    <2>2. handler' \in [Worker -> Request]
      BY <1>1, <1>5, <2>1, EnterType DEF ConfirmRetry
    <2> QED BY <1>5, <2>2 DEF ConfirmRetry, DbUnchanged, TypeOK, db
  <1>6. CASE Abort(w)
    <2>1. handler' \in [Worker -> Request]
      BY <1>6, FinishType DEF Abort
    <2> QED BY <1>6, <2>1 DEF Abort, DbUnchanged, TypeOK, db
  <1> QED BY <1>2, <1>3, <1>4, <1>5, <1>6

LEMMA StudentStepType ==
  ASSUME TypeOK, NEW s \in Student, StudentStep(s) PROVE TypeOK'
  <1>1. CASE Join(s)
    BY <1>1 DEF Join, DbUnchanged, TypeOK, db
  <1>2. CASE Leave(s)
    BY <1>2 DEF Leave, DbUnchanged, TypeOK, db
  <1>3. CASE RequestAccess(s)
    BY <1>3 DEF RequestAccess, DbUnchanged, TypeOK, db
  <1>4. CASE Grant(s)
    <2>1. seat' \in [Student -> [Deliverable -> SeatStatus]]
      BY <1>4, SeededType DEF Grant
    <2>2. roster' \in [Student -> RosterSource]
      BY <1>4 DEF Grant, TypeOK, RosterSource
    <2> QED BY <1>4, <2>1, <2>2 DEF Grant, TypeOK
  <1>5. CASE Deny(s)
    BY <1>5 DEF Deny, DbUnchanged, TypeOK, db
  <1> QED BY <1>1, <1>2, <1>3, <1>4, <1>5 DEF StudentStep

LEMMA TypeStep == TypeOK /\ [Next]_vars => TypeOK'
  <1> SUFFICES ASSUME TypeOK, [Next]_vars PROVE TypeOK'
    OBVIOUS
  <1>1. CASE SessionStep
    BY <1>1, SessionStepType
  <1>2. CASE AutoOpen
    BY <1>2, AutoOpenType
  <1>3. ASSUME NEW w \in Worker, HandlerStep(w) PROVE TypeOK'
    BY <1>3, OpenReadType, OpenCommitType, CancelType, RosterReadType, RosterCommitType,
       RemoveCheckType, ConfirmType DEF HandlerStep
  <1>4. ASSUME NEW s \in Student, StudentStep(s) PROVE TypeOK'
    BY <1>4, StudentStepType
  <1>5. CASE UNCHANGED vars
    BY <1>5 DEF TypeOK, vars, db, memory
  <1> QED BY <1>1, <1>2, <1>3, <1>4, <1>5 DEF Next

(* Every reachable state is well typed.                                    *)
THEOREM TypeCorrect == Spec => []TypeOK
  BY TypeInit, TypeStep, PTL DEF Spec

-----------------------------------------------------------------------------
(* The steps that touch the status and the finalize counters.              *)
StatusChange ==
    \/ \E w \in Worker : OpenCommit(w) \/ CancelWrite(w)
    \/ FinalizeUpdate \/ PublishFinalized \/ ConfirmEnd \/ CollectionSweep \/ Crash
    \/ AutoOpenTooLate \/ AutoOpenCommit \/ AutoOpenGivesUp

LEMMA StatusFrame ==
  [Next]_vars => UNCHANGED <<status, signed, toPublish, broadcasts, opens>> \/ StatusChange
  <1> SUFFICES ASSUME [Next]_vars, ~StatusChange
               PROVE UNCHANGED <<status, signed, toPublish, broadcasts, opens>>
    OBVIOUS
  <1>1. CASE SessionStep
    BY <1>1 DEF SessionStep, StatusChange, FinalizeManually, FinalizeSweep, Tock, db, memory
  <1>2. CASE AutoOpen
    BY <1>2 DEF AutoOpen, StatusChange, AutoOpenBegin, AutoOpenRead, AutoOpenFails,
       AutoOpenEnds, db
  <1>3. ASSUME NEW w \in Worker, HandlerStep(w)
        PROVE  UNCHANGED <<status, signed, toPublish, broadcasts, opens>>
    BY <1>3 DEF HandlerStep, StatusChange, OpenRead, CancelRead, ReplaceRead, ReplaceCommit,
       MaterializeRead, MaterializeCommit, ImportRead, ImportCommit, AddRead, AddCommit,
       RemoveRead, RemoveCheck, RemoveDelete, ConfirmCheck, ConfirmRead, ConfirmWrite,
       ConfirmRetry, Abort, EditUnchanged, DbUnchanged, db
  <1>4. ASSUME NEW s \in Student, StudentStep(s)
        PROVE  UNCHANGED <<status, signed, toPublish, broadcasts, opens>>
    BY <1>4 DEF StudentStep, Join, Leave, RequestAccess, Grant, Deny, DbUnchanged, db
  <1>5. CASE UNCHANGED vars
    BY <1>5 DEF vars, db, memory
  <1> QED BY <1>1, <1>2, <1>3, <1>4, <1>5 DEF Next

(* A committed activation leaves the session active and opened.            *)
LEMMA ActivateOpens ==
  ASSUME TypeOK, Activate
  PROVE  /\ status' = "active"
         /\ status = "active" => opens' = opens
         /\ status # "active" => opens' = opens + 1
  BY DEF Activate

LEMMA FinalizeStep ==
  TypeOK /\ FinalizePerActivation /\ [Next]_vars => FinalizePerActivation'
  <1> SUFFICES ASSUME TypeOK, FinalizePerActivation, [Next]_vars
               PROVE  FinalizePerActivation'
    OBVIOUS
  <1> USE DEF FinalizePerActivation
  <1>0. toPublish \in Nat /\ broadcasts \in Nat /\ opens \in Nat
    BY DEF TypeOK
  <1>1. CASE UNCHANGED <<status, signed, toPublish, broadcasts, opens>>
    BY <1>1
  <1>2. CASE (\E w \in Worker : OpenCommit(w)) \/ AutoOpenCommit
    <2>1. Activate /\ UNCHANGED <<toPublish, broadcasts>>
      BY <1>2 DEF OpenCommit, AutoOpenCommit, SeedAndActivate, CopyAndActivate, AutoOpenEnds
    <2>2. CASE status = "active"
      BY <1>0, <2>1, <2>2, ActivateOpens
    <2>3. CASE status # "active"
      BY <1>0, <2>1, <2>3, ActivateOpens
    <2> QED BY <2>2, <2>3
  <1>3. CASE \E w \in Worker : CancelWrite(w)
    BY <1>0, <1>3 DEF CancelWrite
  <1>4. CASE FinalizeUpdate
    BY <1>0, <1>4 DEF FinalizeUpdate
  <1>5. CASE PublishFinalized
    BY <1>0, <1>5 DEF PublishFinalized, db
  <1>6. CASE ConfirmEnd \/ CollectionSweep
    BY <1>0, <1>6 DEF ConfirmEnd, CollectionSweep, memory
  <1>7. CASE Crash
    BY <1>0, <1>7 DEF Crash, db
  <1>8. CASE AutoOpenTooLate \/ AutoOpenGivesUp
    BY <1>0, <1>8 DEF AutoOpenTooLate, AutoOpenGivesUp, TransitionUnopened, AutoOpenEnds,
       IsAwaitingOpen
  <1> QED
    BY <1>1, <1>2, <1>3, <1>4, <1>5, <1>6, <1>7, <1>8, StatusFrame DEF StatusChange

(* exam:finalize is owed and published at most once per activation,        *)
(* whatever the sweep, the button and a restart do (finalizeExamSession).  *)
THEOREM FinalizeBounded == Spec => []FinalizePerActivation
  <1>1. Init => FinalizePerActivation
    BY DEF Init, FinalizePerActivation
  <1> QED BY <1>1, FinalizeStep, TypeCorrect, PTL DEF Spec

-----------------------------------------------------------------------------
(* The steps that touch a seat or the signature.                           *)
SeatChange ==
    \/ \E w \in Worker : \/ OpenCommit(w) \/ ImportCommit(w) \/ AddCommit(w)
                         \/ RemoveDelete(w) \/ ConfirmWrite(w)
    \/ AutoOpenCommit \/ ConfirmEnd
    \/ \E s \in Student : Grant(s)

LEMMA SeatFrame == [Next]_vars => UNCHANGED <<seat, signed>> \/ SeatChange
  <1> SUFFICES ASSUME [Next]_vars, ~SeatChange PROVE UNCHANGED <<seat, signed>>
    OBVIOUS
  <1>1. CASE SessionStep
    BY <1>1 DEF SessionStep, SeatChange, FinalizeManually, FinalizeSweep, FinalizeUpdate,
       PublishFinalized, CollectionSweep, Crash, Tock, db, memory
  <1>2. CASE AutoOpen
    BY <1>2 DEF AutoOpen, SeatChange, AutoOpenBegin, AutoOpenRead, AutoOpenFails,
       AutoOpenTooLate, AutoOpenGivesUp, TransitionUnopened, AutoOpenEnds, db
  <1>3. ASSUME NEW w \in Worker, HandlerStep(w) PROVE UNCHANGED <<seat, signed>>
    BY <1>3 DEF HandlerStep, SeatChange, OpenRead, CancelRead, CancelWrite, ReplaceRead,
       ReplaceCommit, MaterializeRead, MaterializeCommit, ImportRead, AddRead, RemoveRead,
       RemoveCheck, ConfirmCheck, ConfirmRead, ConfirmRetry, Abort, EditUnchanged,
       DbUnchanged, db
  <1>4. ASSUME NEW s \in Student, StudentStep(s) PROVE UNCHANGED <<seat, signed>>
    BY <1>4 DEF StudentStep, SeatChange, Join, Leave, RequestAccess, Deny, DbUnchanged, db
  <1>5. CASE UNCHANGED vars
    BY <1>5 DEF vars, db
  <1> QED BY <1>1, <1>2, <1>3, <1>4, <1>5 DEF Next

(* Seeding, judging, deleting and collecting each stay in the contract.    *)
LEMMA SeedingKeepsContract ==
  ASSUME TypeOK, NEW students, seat' = Seeded(students), signed' = signed
  PROVE  Seats!SeatNext
  BY DEF Seats!SeatNext, Seats!Seed, Seats!Keep, Seeded, TypeOK

LEMMA DeletingKeepsContract ==
  ASSUME TypeOK, NEW students, seat' = WithoutSeats(students), signed' = signed
  PROVE  Seats!SeatNext
  BY DEF Seats!SeatNext, Seats!Discard, Seats!Keep, WithoutSeats, TypeOK

LEMMA SeatStep == TypeOK /\ [Next]_vars => [Seats!SeatNext]_(Seats!SeatVars)
  <1> SUFFICES ASSUME TypeOK, [Next]_vars, SeatChange PROVE Seats!SeatNext
    BY SeatFrame DEF Seats!SeatVars
  <1>1. CASE (\E w \in Worker : OpenCommit(w)) \/ AutoOpenCommit
    BY <1>1, SeedingKeepsContract DEF OpenCommit, AutoOpenCommit, SeedAndActivate,
       CopyAndActivate
  <1>2. CASE (\E w \in Worker : AddCommit(w)) \/ (\E s \in Student : Grant(s))
    BY <1>2, SeedingKeepsContract DEF AddCommit, Grant
  <1>3. CASE \E w \in Worker : ImportCommit(w) \/ RemoveDelete(w)
    BY <1>3, DeletingKeepsContract DEF ImportCommit, RemoveDelete
  <1>4. CASE \E w \in Worker : ConfirmWrite(w)
    BY <1>4 DEF ConfirmWrite, Seats!SeatNext, Seats!Arrive, Seats!Keep, TypeOK
  <1>5. CASE ConfirmEnd
    BY <1>5 DEF ConfirmEnd, AbsenteesMarked, Seats!SeatNext, Seats!Judge, Seats!Keep, TypeOK
  <1> QED BY <1>1, <1>2, <1>3, <1>4, <1>5 DEF SeatChange

(* The session implements the contract of its submission rows: seeding,    *)
(* late uploads, removals and absence verdicts in any interleaving.        *)
THEOREM SeatsImplementContract == Spec => SeatsAsPromised
  <1>1. Init => Seats!SeatInit
    BY DEF Init, Seats!SeatInit
  <1> QED BY <1>1, SeatStep, TypeCorrect, PTL DEF Spec, SeatsAsPromised, Seats!SeatSpec

(* No seat is `absent` before a teacher has signed the session's end: the  *)
(* sweep that closes a forgotten session judges nobody (completeExpired).  *)
THEOREM NoVerdictUnsigned == Spec => []AbsentOnlyWhenSigned
  <1>1. Init => AbsentOnlyWhenSigned
    BY DEF Init, AbsentOnlyWhenSigned
  <1>2. TypeOK /\ AbsentOnlyWhenSigned /\ [Next]_vars => AbsentOnlyWhenSigned'
    BY SeatStep DEF AbsentOnlyWhenSigned, Seats!SeatNext, Seats!SeatVars, Seats!Seed,
       Seats!Arrive, Seats!Judge, Seats!Discard, Seats!Keep
  <1> QED BY <1>1, <1>2, TypeCorrect, PTL DEF Spec

-----------------------------------------------------------------------------
(* Which step leaves which request in `handler`: an upload in flight comes *)
(* from an earlier step of that upload or from a collecting session, a     *)
(* writer of the status from the status it read.                           *)
LEMMA HandlerFrame ==
  ASSUME TypeOK, [Next]_vars, NEW w \in Worker, handler'[w] # handler[w]
  PROVE  /\ handler'[w].op \in {"confirm", "write"} =>
              handler[w].op \in {"confirm", "write"} \/ IsCollectionOpen(status)
         /\ handler'[w].op = "cancel" => CanCancel(status)
         /\ handler'[w].op = "seed" => FreezeKeepsRoster /\ handler'[w].rows = OnRoster
         /\ handler'[w].op = "copy" => FreezeCopiesClass
         /\ handler'[w].op = "replace" => handler'[w].files # {}
         /\ handler'[w].op \in {"seed", "copy"} => UNCHANGED <<deliverables, roster, seat>>
  <1>0. handler \in [Worker -> Request]
    BY DEF TypeOK
  <1>1. CASE SessionStep
    BY <1>0, <1>1 DEF SessionStep, FinalizeManually, FinalizeSweep, FinalizeUpdate,
       PublishFinalized, ConfirmEnd, CollectionSweep, Crash, Tock, Idle, memory
  <1>2. CASE AutoOpen
    BY <1>2 DEF AutoOpen, AutoOpenBegin, AutoOpenTooLate, AutoOpenRead, AutoOpenCommit,
       AutoOpenFails, AutoOpenGivesUp, AutoOpenEnds
  <1>3. ASSUME NEW v \in Worker, HandlerStep(v), v # w
        PROVE  handler'[w].op = "delete"
    <2>1. CASE ImportCommit(v) \/ RemoveDelete(v)
      BY <1>3, <2>1, FinishDeletingFrame DEF ImportCommit, RemoveDelete
    <2> QED
      BY <1>0, <1>3, <2>1 DEF HandlerStep, OpenRead, OpenCommit, CancelRead, CancelWrite,
         ReplaceRead, ReplaceCommit, MaterializeRead, MaterializeCommit, ImportRead, AddRead,
         AddCommit, RemoveRead, RemoveCheck, ConfirmCheck, ConfirmRead, ConfirmWrite,
         ConfirmRetry, Abort, Enter, Advance, Finish
  <1>4. CASE HandlerStep(w)
    <2>1. CASE OpenRead(w)
      BY <1>0, <2>1 DEF OpenRead, Enter, db
    <2>2. CASE CancelRead(w)
      BY <1>0, <2>2 DEF CancelRead, Enter
    <2>3. CASE \E files \in (SUBSET Deliverable) \ {{}} : ReplaceRead(w, files)
      <3>1. PICK files \in (SUBSET Deliverable) \ {{}} : ReplaceRead(w, files)
        BY <2>3
      <3>2. handler'[w] = [op |-> "replace", files |-> files] /\ files # {}
        BY <1>0, <3>1 DEF ReplaceRead, Enter
      <3> QED BY <3>2
    <2>4. CASE \/ MaterializeRead(w) \/ RemoveCheck(w)
               \/ \E students \in (SUBSET Student) \ {{}}, removeMissing \in BOOLEAN :
                     ImportRead(w, students, removeMissing)
               \/ \E s \in Student : AddRead(w, s) \/ RemoveRead(w, s)
      BY <1>0, <2>4 DEF MaterializeRead, RemoveCheck, ImportRead, AddRead, RemoveRead,
         Enter, Advance
    <2>5. CASE \E s \in Student, d \in Deliverable : ConfirmCheck(w, s, d)
      BY <1>0, <2>5 DEF ConfirmCheck, Enter, IsAcceptingUploads
    <2>6. CASE ConfirmRead(w) \/ ConfirmRetry(w)
      BY <1>0, <2>6 DEF ConfirmRead, ConfirmRetry, Advance
    <2>7. CASE \/ OpenCommit(w) \/ CancelWrite(w) \/ ReplaceCommit(w) \/ MaterializeCommit(w)
               \/ ImportCommit(w) \/ AddCommit(w) \/ RemoveDelete(w) \/ ConfirmWrite(w)
               \/ Abort(w)
      <3>1. handler'[w] = Idle
        BY <1>0, <2>7, FinishDeletingFrame DEF OpenCommit, CancelWrite, ReplaceCommit,
           MaterializeCommit, ImportCommit, AddCommit, RemoveDelete, ConfirmWrite, Abort, Finish
      <3> QED BY <3>1 DEF Idle
    <2> QED BY <1>4, <2>1, <2>2, <2>3, <2>4, <2>5, <2>6, <2>7 DEF HandlerStep
  <1>5. ASSUME NEW s \in Student, StudentStep(s) PROVE UNCHANGED handler
    BY <1>5 DEF StudentStep, Join, Leave, RequestAccess, Grant, Deny
  <1>6. CASE UNCHANGED vars
    BY <1>6 DEF vars, memory
  <1> QED BY <1>1, <1>2, <1>3, <1>4, <1>5, <1>6 DEF Next

(* The same for the auto-open tick.                                        *)
LEMMA TickFrame ==
  ASSUME [Next]_vars, autoOpen' # autoOpen
  PROVE  /\ autoOpen'.pc = "seed" => FreezeKeepsRoster /\ autoOpen'.rows = OnRoster
         /\ autoOpen'.pc = "copy" => FreezeCopiesClass
         /\ autoOpen'.pc \in {"seed", "copy"} => UNCHANGED <<deliverables, roster, seat>>
  <1>1. CASE SessionStep
    BY <1>1 DEF SessionStep, FinalizeManually, FinalizeSweep, FinalizeUpdate,
       PublishFinalized, ConfirmEnd, CollectionSweep, Crash, Tock, memory
  <1>2. CASE AutoOpen
    BY <1>2 DEF AutoOpen, AutoOpenBegin, AutoOpenTooLate, AutoOpenRead, AutoOpenCommit,
       AutoOpenFails, AutoOpenGivesUp, AutoOpenEnds, db
  <1>3. ASSUME NEW w \in Worker, HandlerStep(w) PROVE UNCHANGED autoOpen
    BY <1>3 DEF HandlerStep, OpenRead, OpenCommit, CancelRead, CancelWrite, ReplaceRead,
       ReplaceCommit, MaterializeRead, MaterializeCommit, ImportRead, ImportCommit, AddRead,
       AddCommit, RemoveRead, RemoveCheck, RemoveDelete, ConfirmCheck, ConfirmRead,
       ConfirmWrite, ConfirmRetry, Abort, EditUnchanged, DbUnchanged
  <1>4. ASSUME NEW s \in Student, StudentStep(s) PROVE UNCHANGED autoOpen
    BY <1>4 DEF StudentStep, Join, Leave, RequestAccess, Grant, Deny, DbUnchanged
  <1>5. CASE UNCHANGED vars
    BY <1>5 DEF vars, memory
  <1> QED BY <1>1, <1>2, <1>3, <1>4, <1>5 DEF Next

-----------------------------------------------------------------------------
(* A settled session stays settled: what could reopen it was in flight     *)
(* before, and nothing new may start.                                      *)
LEMMA SettledStep == TypeOK /\ Settled /\ [Next]_vars => Settled'
  <1> SUFFICES ASSUME TypeOK, Settled, [Next]_vars PROVE Settled'
    OBVIOUS
  <1>1. /\ ~IsAwaitingOpen(status) /\ ~CanCancel(status) /\ status # "active"
        /\ \A w \in Worker : handler[w].op \notin {"seed", "copy", "cancel"}
        /\ autoOpen.pc \notin {"seed", "copy"}
    BY DEF Settled, StaleWriter, IsAwaitingOpen, CanCancel
  <1>2. status' \in {"collecting", "completed", "cancelled"}
    <2>1. CASE UNCHANGED status
      BY <2>1 DEF Settled
    <2>2. CASE StatusChange
      BY <1>1, <2>2 DEF Settled, StatusChange, OpenCommit, CancelWrite, FinalizeUpdate,
         PublishFinalized, ConfirmEnd, CollectionSweep, Crash, AutoOpenTooLate,
         AutoOpenCommit, AutoOpenGivesUp, TransitionUnopened, db
    <2> QED BY <2>1, <2>2, StatusFrame
  <1>3. ~FreezeKeepsRoster /\ ~FreezeCopiesClass
    BY <1>1 DEF FreezeKeepsRoster, FreezeCopiesClass
  <1>4. ASSUME NEW w \in Worker PROVE handler'[w].op \notin {"seed", "copy", "cancel"}
    BY <1>1, <1>3, HandlerFrame
  <1>5. autoOpen'.pc \notin {"seed", "copy"}
    BY <1>1, <1>3, TickFrame
  <1> QED BY <1>2, <1>4, <1>5 DEF Settled, StaleWriter

(* The only way back from `collecting`, `completed` or `cancelled` is a    *)
(* freeze or a cancel that had read an earlier status.                     *)
THEOREM SettledStaysSettled == Spec => SettledForGood
  <1>1. TypeOK /\ [Next]_vars => [Settled => Settled']_vars
    BY SettledStep
  <1> QED BY <1>1, TypeCorrect, PTL DEF Spec, SettledForGood

-----------------------------------------------------------------------------
(* Inductive strengthening of NeverOpenedIsUntouched: a session in or past *)
(* `active` has been opened, and before that no upload is in flight.       *)
Unopened == status \in {"draft", "scheduled", "not_ready", "missed"}

UntouchedInv ==
    /\ status \in {"active", "collecting", "completed"} => opens > 0
    /\ Unopened => opens = 0
    /\ opens = 0 =>
          /\ ~signed
          /\ \A w \in Worker : handler[w].op \notin {"confirm", "write"}
          /\ \A s \in Student, d \in Deliverable : seat[s][d] \in {"none", "not_submitted"}

LEMMA OpensStep ==
  ASSUME TypeOK, UntouchedInv, [Next]_vars
  PROVE  /\ opens' \in Nat /\ opens' >= opens
         /\ status' \in {"active", "collecting", "completed"} => opens' > 0
         /\ Unopened' => opens' = 0
  <1> USE DEF UntouchedInv, Unopened
  <1>0. opens \in Nat
    BY DEF TypeOK
  <1>1. CASE UNCHANGED <<status, signed, toPublish, broadcasts, opens>>
    BY <1>0, <1>1
  <1>2. CASE (\E w \in Worker : OpenCommit(w)) \/ AutoOpenCommit
    <2>1. Activate
      BY <1>2 DEF OpenCommit, AutoOpenCommit, SeedAndActivate, CopyAndActivate
    <2> QED BY <1>0, <2>1 DEF Activate
  <1>3. CASE \E w \in Worker : CancelWrite(w)
    BY <1>0, <1>3 DEF CancelWrite
  <1>4. CASE FinalizeUpdate \/ PublishFinalized \/ ConfirmEnd \/ CollectionSweep \/ Crash
    BY <1>0, <1>4 DEF FinalizeUpdate, PublishFinalized, ConfirmEnd, CollectionSweep, Crash, db
  <1>5. CASE AutoOpenTooLate \/ AutoOpenGivesUp
    BY <1>0, <1>5 DEF AutoOpenTooLate, AutoOpenGivesUp, TransitionUnopened, AutoOpenEnds,
       IsAwaitingOpen
  <1> QED BY <1>1, <1>2, <1>3, <1>4, <1>5, StatusFrame DEF StatusChange

LEMMA UntouchedStep == TypeOK /\ UntouchedInv /\ [Next]_vars => UntouchedInv'
  <1> SUFFICES ASSUME TypeOK, UntouchedInv, [Next]_vars PROVE UntouchedInv'
    OBVIOUS
  <1>1. SUFFICES ASSUME opens' = 0
                 PROVE  /\ ~signed'
                        /\ \A w \in Worker : handler'[w].op \notin {"confirm", "write"}
                        /\ \A s \in Student, d \in Deliverable :
                              seat'[s][d] \in {"none", "not_submitted"}
    BY OpensStep DEF UntouchedInv, Unopened
  <1>2. opens = 0 /\ ~signed /\ ~IsCollectionOpen(status)
    <2>1. opens = 0
      BY <1>1, OpensStep DEF TypeOK
    <2> QED BY <2>1 DEF UntouchedInv, IsCollectionOpen
  <1>3. \A w \in Worker : handler[w].op \notin {"confirm", "write"}
    BY <1>2 DEF UntouchedInv
  <1>4. ASSUME NEW w \in Worker PROVE handler'[w].op \notin {"confirm", "write"}
    BY <1>2, <1>3, HandlerFrame
  <1>5. ~ConfirmEnd /\ \A w \in Worker : ~ConfirmWrite(w)
    BY <1>2, <1>3 DEF ConfirmEnd, ConfirmWrite, IsCollectionOpen
  <1>6. ~signed'
    BY <1>2, <1>5, SeatFrame DEF SeatChange, OpenCommit, ImportCommit, AddCommit, RemoveDelete,
       AutoOpenCommit, Grant, SeedAndActivate, CopyAndActivate
  <1>7. ASSUME NEW s \in Student, NEW d \in Deliverable
        PROVE  seat'[s][d] \in {"none", "not_submitted"}
    <2>1. seat[s][d] \in {"none", "not_submitted"}
      BY <1>2 DEF UntouchedInv
    <2>2. CASE \E students : seat' = Seeded(students) \/ seat' = WithoutSeats(students)
      BY <2>1, <2>2 DEF Seeded, WithoutSeats
    <2>3. CASE UNCHANGED seat
      BY <2>1, <2>3
    <2>4. SeatChange => \E students : seat' = Seeded(students) \/ seat' = WithoutSeats(students)
      BY <1>5 DEF SeatChange, OpenCommit, ImportCommit, AddCommit, RemoveDelete,
         AutoOpenCommit, Grant, SeedAndActivate, CopyAndActivate
    <2> QED BY <2>2, <2>3, <2>4, SeatFrame
  <1> QED BY <1>4, <1>6, <1>7

(* A session that says it never opened has neither work nor verdicts: no   *)
(* late verdict of the auto-open sweep undoes an opening.                  *)
THEOREM NeverOpenedUntouched == Spec => []NeverOpenedIsUntouched
  <1>1. Init => UntouchedInv
    BY DEF Init, UntouchedInv, Unopened, Idle
  <1>2. UntouchedInv => NeverOpenedIsUntouched
    BY DEF UntouchedInv, NeverOpenedIsUntouched, Unopened
  <1> QED BY <1>1, <1>2, UntouchedStep, TypeCorrect, PTL DEF Spec

-----------------------------------------------------------------------------
(* The steps that touch the roster or the required files.                  *)
RosterChange ==
    \/ \E w \in Worker : \/ OpenCommit(w) \/ ReplaceCommit(w) \/ MaterializeCommit(w)
                         \/ ImportCommit(w) \/ AddCommit(w) \/ RemoveDelete(w)
    \/ AutoOpenCommit
    \/ \E s \in Student : Grant(s)

LEMMA RosterFrame == [Next]_vars => UNCHANGED <<roster, deliverables, enrolled>> \/ RosterChange
  <1> SUFFICES ASSUME [Next]_vars, ~RosterChange PROVE UNCHANGED <<roster, deliverables, enrolled>>
    OBVIOUS
  <1>1. CASE SessionStep
    BY <1>1 DEF SessionStep, FinalizeManually, FinalizeSweep, FinalizeUpdate,
       PublishFinalized, ConfirmEnd, CollectionSweep, Crash, Tock, db
  <1>2. CASE AutoOpen
    BY <1>2 DEF AutoOpen, RosterChange, AutoOpenBegin, AutoOpenRead, AutoOpenFails,
       AutoOpenTooLate, AutoOpenGivesUp, TransitionUnopened, db
  <1>3. ASSUME NEW w \in Worker, HandlerStep(w) PROVE UNCHANGED <<roster, deliverables, enrolled>>
    BY <1>3 DEF HandlerStep, RosterChange, OpenRead, CancelRead, CancelWrite, ReplaceRead,
       MaterializeRead, ImportRead, AddRead, RemoveRead, RemoveCheck, ConfirmCheck,
       ConfirmRead, ConfirmWrite, ConfirmRetry, Abort, EditUnchanged, DbUnchanged, db
  <1>4. ASSUME NEW s \in Student, StudentStep(s) PROVE UNCHANGED <<roster, deliverables, enrolled>>
    BY <1>4 DEF StudentStep, RosterChange, Join, Leave, RequestAccess, Deny, DbUnchanged, db
  <1>5. CASE UNCHANGED vars
    BY <1>5 DEF vars, db
  <1> QED BY <1>1, <1>2, <1>3, <1>4, <1>5 DEF Next

LEMMA FilesFrame ==
  [Next]_vars => /\ UNCHANGED deliverables \/ \E w \in Worker : ReplaceCommit(w)
                 /\ UNCHANGED enrolled
  BY RosterFrame DEF RosterChange, OpenCommit, ReplaceCommit, MaterializeCommit, ImportCommit,
     AddCommit, RemoveDelete, AutoOpenCommit, Grant, SeedAndActivate, CopyAndActivate

(* An opening in flight: all that can make the session open.               *)
Opening ==
    \/ \E w \in Worker : handler[w].op \in {"seed", "copy"}
    \/ autoOpen.pc \in {"seed", "copy"}

LEMMA OpenFrame ==
  ASSUME [Next]_vars, IsCollectionOpen(status)'
  PROVE  \/ IsCollectionOpen(status)
         \/ Opening /\ (AutoOpenCommit \/ \E w \in Worker : OpenCommit(w))
  <1>1. CASE \E w \in Worker : OpenCommit(w)
    BY <1>1 DEF OpenCommit, Opening
  <1>2. CASE AutoOpenCommit
    BY <1>2 DEF AutoOpenCommit, Opening
  <1> QED
    BY <1>1, <1>2, StatusFrame DEF StatusChange, IsCollectionOpen, CancelWrite, FinalizeUpdate,
       PublishFinalized, ConfirmEnd, CollectionSweep, Crash, AutoOpenTooLate,
       AutoOpenGivesUp, TransitionUnopened, db

-----------------------------------------------------------------------------
(* An opened session, and one that is being opened, has a required file:   *)
(* what a replacement could otherwise do is to leave a session of which    *)
(* nobody has a seat.                                                      *)
FilesInv ==
    /\ IsCollectionOpen(status) \/ Opening => deliverables # {}
    /\ \A w \in Worker : handler[w].op = "replace" => handler[w].files # {}

LEMMA FilesStep == TypeOK /\ FilesInv /\ [Next]_vars => FilesInv'
  <1> SUFFICES ASSUME TypeOK, FilesInv, [Next]_vars PROVE FilesInv'
    OBVIOUS
  <1>1. deliverables' = deliverables \/ deliverables' # {}
    BY FilesFrame DEF FilesInv, ReplaceCommit
  <1>2. Opening' => deliverables' # {}
    <2>1. CASE \E w \in Worker : handler'[w] # handler[w] /\ handler'[w].op \in {"seed", "copy"}
      BY <2>1, HandlerFrame DEF FreezeKeepsRoster, FreezeCopiesClass
    <2>2. CASE autoOpen' # autoOpen /\ autoOpen'.pc \in {"seed", "copy"}
      BY <2>2, TickFrame DEF FreezeKeepsRoster, FreezeCopiesClass
    <2>3. CASE Opening
      BY <1>1, <2>3 DEF FilesInv
    <2> QED BY <2>1, <2>2, <2>3 DEF Opening
  <1>3. IsCollectionOpen(status)' => deliverables' # {}
    BY <1>1, OpenFrame DEF FilesInv
  <1>4. ASSUME NEW w \in Worker, handler'[w].op = "replace" PROVE handler'[w].files # {}
    BY <1>4, HandlerFrame DEF FilesInv
  <1> QED BY <1>2, <1>3, <1>4 DEF FilesInv

-----------------------------------------------------------------------------
(* Seeding only adds seats, and gives all of them to the students named.   *)
LEMMA SeededHasAll ==
  ASSUME NEW students, seat \in [Student -> [Deliverable -> SeatStatus]],
         deliverables \subseteq Deliverable, NEW s \in Student, NEW d \in deliverables,
         Seeded(students)[s][d] = "none"
  PROVE  seat[s][d] = "none" /\ s \notin students
  BY DEF Seeded

(* An opening that commits had announced whom it leaves without seats.     *)
LEMMA OpeningSeats ==
  ASSUME TypeOK, [Next]_vars, AutoOpenCommit \/ \E w \in Worker : OpenCommit(w),
         NEW s \in Student, Seatless(s)'
  PROVE  Seatless(s)
  <1>0. seat \in [Student -> [Deliverable -> SeatStatus]] /\ deliverables \subseteq Deliverable
    BY DEF TypeOK
  <1>1. ASSUME NEW rows, SeedAndActivate(rows)
        PROVE  s \notin rows /\ roster[s] # "none" /\ \E d \in deliverables : seat[s][d] = "none"
    BY <1>0, <1>1, SeededHasAll DEF SeedAndActivate, Seatless
  <1>2. ASSUME CopyAndActivate
        PROVE  /\ s \notin enrolled /\ roster[s] # "none"
               /\ \E d \in deliverables : seat[s][d] = "none"
    BY <1>0, <1>2, SeededHasAll DEF CopyAndActivate, Seatless, CopiedRoster
  <1>3. CASE AutoOpenCommit
    BY <1>1, <1>2, <1>3 DEF AutoOpenCommit, Seatless, Unseen
  <1>4. ASSUME NEW w \in Worker, OpenCommit(w) PROVE Seatless(s)
    BY <1>1, <1>2, <1>4 DEF OpenCommit, Seatless, Unseen
  <1> QED BY <1>3, <1>4

(* An opening that begins has read the whole roster.                       *)
LEMMA UnseenFrame ==
  ASSUME TypeOK, [Next]_vars, NEW s \in Student, Unseen(s)', roster'[s] # "none"
  PROVE  Unseen(s)
  <1>1. FreezeKeepsRoster => \A t \in Student : t \notin OnRoster => roster[t] = "none"
    BY DEF OnRoster
  <1>2. FreezeCopiesClass => roster[s] = "none"
    BY DEF FreezeCopiesClass, OnRoster
  <1>3. UNCHANGED enrolled
    BY FilesFrame
  <1>4. ASSUME NEW w \in Worker, handler'[w] # handler[w],
               \/ handler'[w].op = "seed" /\ s \notin handler'[w].rows
               \/ handler'[w].op = "copy"
        PROVE  FALSE
    BY <1>1, <1>2, <1>4, HandlerFrame
  <1>5. ASSUME autoOpen' # autoOpen,
               \/ autoOpen'.pc = "seed" /\ s \notin autoOpen'.rows
               \/ autoOpen'.pc = "copy"
        PROVE  FALSE
    BY <1>1, <1>2, <1>5, TickFrame
  <1> QED BY <1>3, <1>4, <1>5 DEF Unseen

(* Every step that takes a seat away, or puts someone on the roster        *)
(* without one, is one of those the property names.                        *)
LEMMA SeatsStep ==
  ASSUME TypeOK, FilesInv, [Next]_vars, NEW s \in Student, Seatless(s)', ~Seatless(s)
  PROVE  RemovedTooLate(s) \/ EditedTooLate(s)
  <1>0. /\ seat \in [Student -> [Deliverable -> SeatStatus]]
        /\ roster \in [Student -> RosterSource] /\ deliverables \subseteq Deliverable
    BY DEF TypeOK
  <1>1. ~AutoOpenCommit /\ \A w \in Worker : ~OpenCommit(w)
    BY OpeningSeats
  <1>2. /\ roster'[s] # "none" /\ \E d \in deliverables' : seat'[s][d] = "none"
        /\ IsCollectionOpen(status) \/ Unseen(s)
    <2>1. roster'[s] # "none" /\ (IsCollectionOpen(status)' \/ Unseen(s)')
      BY DEF Seatless
    <2>2. IsCollectionOpen(status)' => IsCollectionOpen(status)
      BY <1>1, OpenFrame
    <2>3. Unseen(s)' => Unseen(s)
      BY <2>1, UnseenFrame
    <2> QED BY <2>1, <2>2, <2>3 DEF Seatless
  <1>3. roster[s] = "none" \/ \A d \in deliverables : seat[s][d] # "none"
    BY <1>2 DEF Seatless
  (* A step that leaves the student's seats alone can only have put him on *)
  (* the roster.                                                           *)
  <1>4. ASSUME UNCHANGED deliverables,
               \A d \in deliverables : seat'[s][d] = "none" => seat[s][d] = "none"
        PROVE  roster[s] = "none"
    BY <1>2, <1>3, <1>4
  <1>5. CASE UNCHANGED <<roster, deliverables>> /\ UNCHANGED seat
    BY <1>2, <1>4, <1>5
  <1>6. CASE ConfirmEnd \/ \E w \in Worker : ConfirmWrite(w)
    <2>1. ASSUME NEW d \in Deliverable, seat'[s][d] = "none" PROVE seat[s][d] = "none"
      <3>1. CASE ConfirmEnd
        BY <2>1, <3>1 DEF ConfirmEnd, AbsenteesMarked
      <3>2. CASE \E w \in Worker : ConfirmWrite(w)
        BY <1>0, <2>1, <3>2 DEF ConfirmWrite
      <3> QED BY <1>6, <3>1, <3>2
    <2> QED BY <1>0, <1>2, <1>4, <1>6, <2>1 DEF ConfirmEnd, ConfirmWrite
  <1>7. ASSUME NEW w \in Worker, ReplaceCommit(w) PROVE FALSE
    <2>1. Unseen(s) => Opening
      BY DEF Unseen, Opening
    <2>2. PICK d \in deliverables : TRUE
      BY <1>2, <2>1 DEF FilesInv
    <2> QED BY <1>2, <1>3, <1>7, <2>2 DEF ReplaceCommit
  <1>8. ASSUME NEW w \in Worker, MaterializeCommit(w) PROVE EditedTooLate(s)
    <2>1. roster[s] = "none"
      BY <1>4, <1>8 DEF MaterializeCommit
    <2> QED
      BY <1>2, <1>8, <2>1 DEF MaterializeCommit, Materialized, CopiedRoster, EditedTooLate
  <1>9. ASSUME NEW w \in Worker, ImportCommit(w) PROVE EditedTooLate(s)
    <2>1. PICK missing : /\ seat' = WithoutSeats(missing)
                         /\ s \in missing => roster'[s] = "none"
                         /\ roster'[s] \in {"attached", "none", Materialized[s]}
      BY <1>9 DEF ImportCommit
    <2>2. roster[s] = "none"
      BY <1>2, <1>4, <1>9, <2>1 DEF ImportCommit, WithoutSeats
    <2>3. roster'[s] \in {"frozen", "attached"}
      BY <1>2, <2>1, <2>2 DEF Materialized, CopiedRoster
    <2> QED BY <1>9, <2>2, <2>3 DEF EditedTooLate
  <1>10. ASSUME NEW w \in Worker, AddCommit(w) PROVE EditedTooLate(s)
    <2>1. /\ seat' = Seeded({handler[w].student}) /\ UNCHANGED deliverables
          /\ s # handler[w].student => roster'[s] \in {roster[s], Materialized[s]}
      BY <1>0, <1>10, RosterType DEF AddCommit
    <2>2. s # handler[w].student /\ roster[s] = "none"
      BY <1>0, <1>2, <1>4, <2>1, SeededHasAll
    <2>3. roster'[s] = "frozen"
      BY <1>2, <2>1, <2>2 DEF Materialized, CopiedRoster
    <2> QED BY <1>10, <2>2, <2>3 DEF EditedTooLate
  <1>11. ASSUME NEW w \in Worker, RemoveDelete(w)
         PROVE  RemovedTooLate(s) \/ EditedTooLate(s)
    <2>1. CASE s = handler[w].student
      <3>1. handler[w].row = "gone"
        BY <1>2, <1>11, <2>1 DEF RemoveDelete
      <3> QED BY <1>11, <2>1, <3>1 DEF RemovedTooLate
    <2>2. CASE s # handler[w].student
      <3>1. seat'[s] = seat[s] /\ UNCHANGED deliverables
        BY <1>11, <2>2 DEF RemoveDelete, WithoutSeats
      <3>2. roster[s] = "none"
        BY <1>4, <3>1
      <3>3. roster'[s] = "frozen"
        BY <1>2, <1>11, <3>2 DEF RemoveDelete, CopiedRoster
      <3> QED BY <1>11, <2>2, <3>2, <3>3 DEF EditedTooLate
    <2> QED BY <2>1, <2>2
  <1>12. ASSUME NEW t \in Student, Grant(t) PROVE FALSE
    <2>1. seat' = Seeded({t}) /\ UNCHANGED deliverables /\ (s # t => roster'[s] = roster[s])
      BY <1>0, <1>12 DEF Grant
    <2> QED BY <1>0, <1>2, <1>4, <2>1, SeededHasAll
  <1> QED
    BY <1>1, <1>5, <1>6, <1>7, <1>8, <1>9, <1>10, <1>11, <1>12, SeatFrame, RosterFrame
    DEF SeatChange, RosterChange

(* Nobody on the roster of an opened session loses a seat but by a removal *)
(* that comes too late, or is without one from the start but by an edit of *)
(* the snapshot that does; who was let in by hand, only by such a removal. *)
THEOREM RosterIsSeated == Spec => SeatsAreKept
  <1>1. Init => FilesInv
    BY DEF Init, FilesInv, Opening, Idle, IsCollectionOpen
  <1>2. TypeOK /\ FilesInv /\ [Next]_vars =>
          [\A s \in Student :
              Seatless(s)' => Seatless(s) \/ RemovedTooLate(s) \/ EditedTooLate(s)]_vars
    BY SeatsStep
  <1> QED BY <1>1, <1>2, FilesStep, TypeCorrect, PTL DEF Spec, SeatsAreKept

-----------------------------------------------------------------------------
(* What is seated after the signature is seated by one of three requests.  *)
LEMMA JudgedStep ==
  ASSUME TypeOK, [Next]_vars, NEW s \in Student, Unjudged(s)', ~Unjudged(s)
  PROVE  SeatedAfterwards(s)
  <1>0. seat \in [Student -> [Deliverable -> SeatStatus]]
    BY DEF TypeOK
  <1>1. PICK d \in Deliverable : seat'[s][d] = "not_submitted"
    BY DEF Unjudged
  <1>2. signed' /\ (signed => seat[s][d] # "not_submitted")
    BY DEF Unjudged
  <1>3. ~ConfirmEnd
    BY <1>1 DEF ConfirmEnd, AbsenteesMarked
  <1>4. signed /\ seat[s][d] # "not_submitted"
    BY <1>2, <1>3, SeatFrame DEF SeatChange, OpenCommit, AutoOpenCommit, SeedAndActivate,
       CopyAndActivate, ImportCommit, AddCommit, RemoveDelete, ConfirmWrite, Grant
  <1>5. ASSUME NEW w \in Worker, ImportCommit(w) \/ RemoveDelete(w) \/ ConfirmWrite(w)
        PROVE  FALSE
    <2>1. CASE ImportCommit(w) \/ RemoveDelete(w)
      BY <1>1, <1>4, <2>1 DEF ImportCommit, RemoveDelete, WithoutSeats
    <2>2. CASE ConfirmWrite(w)
      BY <1>0, <1>1, <1>4, <2>2 DEF ConfirmWrite
    <2> QED BY <1>5, <2>1, <2>2
  <1>6. ASSUME NEW t, t # s, seat' = Seeded({t}) PROVE FALSE
    BY <1>1, <1>4, <1>6 DEF Seeded
  <1>7. seat' # seat
    BY <1>1, <1>4
  <1> QED
    BY <1>3, <1>5, <1>6, <1>7, SeatFrame DEF SeatChange, SeatedAfterwards, AddCommit, Grant

(* A signature judges every seat there is, and none escapes it afterwards  *)
(* but one that is seeded by a request which did not ask for it.           *)
THEOREM SignatureJudgesAll == Spec => JudgedOnceSigned
  <1>1. TypeOK /\ [Next]_vars =>
          [\A s \in Student : Unjudged(s)' => Unjudged(s) \/ SeatedAfterwards(s)]_vars
    BY JudgedStep
  <1> QED BY <1>1, TypeCorrect, PTL DEF Spec, JudgedOnceSigned
============================================================================
