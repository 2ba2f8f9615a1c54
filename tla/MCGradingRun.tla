---------------------------- MODULE MCGradingRun ----------------------------
(***************************************************************************)
(* Model checking GradingRun, and Scoring by evaluation at the end.        *)
(***************************************************************************)
EXTENDS GradingRun, Scoring, TLC

CONSTANTS a, b

Symmetry == Permutations(Investigated)

(* docs/superpowers/plans/2026-09-29-audit-sampling.md:42 and the comment  *)
(* at score.service.ts:291-294: a result that was flagged first and        *)
(* approved automatically later is never drawn into the audit sample.      *)
PromotedNeverSampled ==
    \A s \in promoted : status[s] # "audit_pending"
-----------------------------------------------------------------------------
(* The scoring functions over bounded cases: one group of two test cases,  *)
(* rule 1 decided by it, rule 2 by the model, both of criterion "c"; rule  *)
(* 3 has a predicate no tool measures and a criterion worth nothing.       *)

TestCase == [group : {"g"}, name : {1, 2}]
Passing == [c \in TestCase |-> "pass"]
Run(result) == [compiled |-> TRUE, scope |-> "all", result |-> result]
FailedBuild(scope) == [compiled |-> FALSE, scope |-> scope,
                       result |-> [c \in TestCase |-> "none"]]
Runs == {Run(r) : r \in [TestCase -> {"none", "pass", "fail", "timeout"}]}
            \cup {FailedBuild(s) : s \in {"all", "g", "other"}}

Case == [verdict |-> TRUE, exhausted |-> FALSE, cases |-> TestCase,
         runs |-> {Run(Passing)},
         rubric |-> [c \in {"c", "free"} |-> IF c = "c" THEN 30 ELSE 0],
         rules |-> 1..3,
         criterion |-> <<"c", "c", "free">>,
         group |-> <<"g", "verbal", "unmeasurable">>,
         own |-> {2, 3}, seen |-> <<"machine", "model", "model">>,
         claim |-> <<"none", "none", "none">>,
         challenge |-> <<{}, {}, {}>>,
         exception |-> <<"none", "none", "none">>,
         waived |-> {}, readFile |-> TRUE, doubt |-> FALSE, blocked |-> {},
         noErrorOff |-> FALSE, ceiling |-> 50, cap |-> 100, theta |-> 85]

Prices == {<<i, j, Unpriced>> : i, j \in {Unpriced, 10, 25}}

(* Cases whose errors come and go: tests that pass, fail or do not agree,  *)
(* a model that names rule 2, and lenses that answer to it.                *)
Diagnosed ==
    {[Case EXCEPT !.runs = runs, !.exhausted = ex, !.claim[2] = claim,
                  !.challenge[2] = said] :
        runs \in {{Run(Passing)}, {FailedBuild("all")},
                  {Run(Passing), FailedBuild("g")}},
        ex \in BOOLEAN, claim \in {"none", "word"},
        said \in {{}, {"unverified"}, {"refuted", "confirmed"}, {"confirmed", "unverified"}}}

Exceptions == {"none", "exclude", "include"}

(* Up to two test runs of any result; a case may have left the bundle.     *)
Tested == {[Case EXCEPT !.runs = {t, u}, !.cases = cases] :
              t, u \in Runs, cases \in {TestCase, {CHOOSE c \in TestCase : TRUE}}}

(* Repricing a published grade is recomputing it at the new prices; an     *)
(* exception decides about its error alone; evidence that is unstable or   *)
(* missing approves nothing.                                               *)
ASSUME ScoringChecked ==
    /\ \A x \in Diagnosed, e, f \in Exceptions, p, q \in Prices :
          RepriceIsRecompute([x EXCEPT !.exception = <<e, f, "none">>], p, q)
    /\ \A x \in Diagnosed, e, f, g \in Exceptions, p \in Prices, r \in {1, 2} :
          ExceptionIsLocal([x EXCEPT !.exception = <<e, f, "none">>], p, r, g)
    /\ \A x \in Tested, p \in Prices : AutoRestsOnEvidence(x, p)
=============================================================================
