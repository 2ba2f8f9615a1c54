-------------------------- MODULE GradingLifecycle --------------------------
(***************************************************************************)
(* What the grading of a session promises about each collected submission, *)
(* whoever does the work and however often it is retried.  It is the       *)
(* contract of the triggers on `grading_result`, cut at transaction        *)
(* boundaries and seen by a teacher, for whom `ai_grading` and `ai_graded` *)
(* are both "the AI is not finished".                                      *)
(***************************************************************************)
CONSTANT Submission

VARIABLES
    phase,   \* none, grading, flagged, proposed, sampled, reviewed, published
    scored,  \* submissions whose AI score has been written
    class    \* why a submission could not be graded: none, system, submission

LifecycleVars == <<phase, scored, class>>

LifecycleInit ==
    /\ phase = [s \in Submission |-> "none"]
    /\ scored = {}
    /\ class = [s \in Submission |-> "none"]

Becomes(s, from, to) == phase[s] \in from /\ phase'[s] \in to

KeepsScore(s) == (s \in scored <=> s \in scored') /\ class'[s] = class[s]

Opened(s) == Becomes(s, {"none"}, {"grading"}) /\ KeepsScore(s)

(* The score is written once, in a row that carries no reason against it.  *)
Scored(s) ==
    /\ Becomes(s, {"grading"}, {"grading", "flagged", "proposed", "sampled"})
    /\ s \notin scored /\ s \in scored'
    /\ class'[s] = "none"

(* No grade is not a grade of zero: the row is flagged with a reason.      *)
GivenUp(s) ==
    /\ Becomes(s, {"grading"}, {"flagged"})
    /\ s \notin scored /\ s \notin scored'
    /\ class'[s] \in {"system", "submission"}

(* Grading starts over only where the system failed and no score exists.   *)
Restarted(s) ==
    /\ Becomes(s, {"flagged"}, {"grading"})
    /\ s \notin scored /\ s \notin scored'
    /\ class[s] = "system" /\ class'[s] = "none"

(* From here on only people and rules move a row, and never its score.     *)
Moved(s) ==
    /\ \/ Becomes(s, {"grading"}, {"flagged"}) /\ s \in scored
       \/ Becomes(s, {"proposed"}, {"sampled", "flagged", "reviewed", "published"})
       \/ Becomes(s, {"sampled"}, {"flagged", "reviewed"})
       \/ Becomes(s, {"flagged"}, {"proposed", "reviewed"})
       \/ Becomes(s, {"reviewed"}, {"published"})
    /\ KeepsScore(s)

Kept(s) == phase'[s] = phase[s] /\ KeepsScore(s)

(* A transaction may move several rows, each in its own way.               *)
LifecycleNext ==
    \A s \in Submission :
        \/ Opened(s) \/ Scored(s) \/ GivenUp(s) \/ Restarted(s) \/ Moved(s)
        \/ Kept(s)

LifecycleSpec == LifecycleInit /\ [][LifecycleNext]_LifecycleVars
=============================================================================
