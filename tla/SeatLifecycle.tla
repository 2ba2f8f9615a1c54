--------------------------- MODULE SeatLifecycle ---------------------------
(***************************************************************************)
(* What the rows of the `submission` table promise over their whole life:  *)
(* one seat per student and required file.  It is the contract of the      *)
(* trigger `validate_submission_lifecycle`, cut at transaction boundaries: *)
(* `received` and `validated` only exist inside the transaction that ends  *)
(* in `collected`, and no code path writes `invalid` any more, so a        *)
(* committed seat is one of four things.                                   *)
(***************************************************************************)
CONSTANTS Student, Deliverable

VARIABLES
    seat,   \* seat[s][d]: "none" (no row), "not_submitted", "absent", "collected"
    signed  \* exam_session.completed_by IS NOT NULL

SeatVars == <<seat, signed>>

SeatInit ==
    /\ seat = [s \in Student |-> [d \in Deliverable |-> "none"]]
    /\ signed = FALSE

(* A row is created empty-handed or by a file that arrived.  It becomes    *)
(* `absent` from `not_submitted` alone, and only under a signature; a late *)
(* file lifts it out of `absent`; nothing leads out of `collected` except  *)
(* the deletion of the row.                                                *)
Seed(s, d)    == seat[s][d] = "none" /\ seat'[s][d] = "not_submitted"
Arrive(s, d)  == seat'[s][d] = "collected"
Judge(s, d)   == seat[s][d] = "not_submitted" /\ seat'[s][d] = "absent" /\ signed'
Discard(s, d) == seat'[s][d] = "none"
Keep(s, d)    == seat'[s][d] = seat[s][d]

(* One transaction may move many seats, each in its own way; a signature,  *)
(* once given, is never taken back.                                        *)
SeatNext ==
    /\ signed => signed'
    /\ \A s \in Student, d \in Deliverable :
          Seed(s, d) \/ Arrive(s, d) \/ Judge(s, d) \/ Discard(s, d) \/ Keep(s, d)

SeatSpec == SeatInit /\ [][SeatNext]_SeatVars
=============================================================================
