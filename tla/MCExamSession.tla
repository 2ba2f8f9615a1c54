--------------------------- MODULE MCExamSession ---------------------------
(***************************************************************************)
(* Model checking ExamSession, and what comments of the code say of it     *)
(* that its interleavings do not keep.                                     *)
(***************************************************************************)
EXTENDS ExamSession

(* session-roster.service.ts:289, in freeze: "re-read status inside the    *)
(* transaction - avoids the race with cancel/finalize".  A cancelled       *)
(* session should then stay cancelled.                                     *)
CancelledStays == [][status = "cancelled" => status' = "cancelled"]_vars

(* session-roster.service.ts:673, in deleteRosterRow: a student who has    *)
(* submitted cannot be removed from the roster.                            *)
SubmittedIsNeverRemoved ==
    [][\A s \in Student, d \in Deliverable :
          seat[s][d] = "collected" => seat'[s][d] = "collected"]_vars
============================================================================
