--------------------------- MODULE MCAgentSession ---------------------------
(***************************************************************************)
(* Model checking AgentSession, and what a comment of the code says of it  *)
(* that the code does not do.                                              *)
(***************************************************************************)
EXTENDS AgentSession

(* submission.service.ts:676, on isAcceptingUploads: "an agent that loses  *)
(* its socket right as `exam:finalize` goes out reconnects and uploads a   *)
(* moment later".                                                          *)
LateAgentUploads ==
    (hasJoinedOnce /\ conn = "down" /\ session = "collecting" /\ folder = "briefed") ~>
        (\/ Identified \/ ~hasJoinedOnce
         \/ session = "expired" \/ folder = "none")
=============================================================================
