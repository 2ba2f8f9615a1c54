------------------------------- MODULE Scoring -------------------------------
(***************************************************************************)
(* The score of one investigated submission: a function of the stored      *)
(* investigation, the rubric, the rules and prices in force and the        *)
(* teacher's exceptions.  No state; GradingRun meets it as the outcome a   *)
(* computation may have.                                                   *)
(*                                                                         *)
(* A case x is a record:                                                   *)
(*   verdict    the investigation reached a verdict                        *)
(*   exhausted  it stopped because a budget ran out                        *)
(*   cases      the test cases of the bundle, each [group, name]           *)
(*   runs       its run_tests calls, each [compiled, scope, result]: scope *)
(*              a group or "all", result[c] what case c came to, or "none" *)
(*   rubric     the largest deduction of each criterion, in hundredths     *)
(*   rules      the teacher's active rules, each with criterion[r] and     *)
(*              group[r]: the test group that decides it, "verbal" without *)
(*              a predicate, "unmeasurable" with one no tool measures yet  *)
(*   own        the rules its own rule table gave to the model             *)
(*   seen       rulesSeen: "no", "machine" or "model"                      *)
(*   claim      the verdict on a rule: "none", "word", or "tool" if backed *)
(*   challenge  what the lenses said of a rule, a set of statuses          *)
(*   exception  the teacher's latest exception: none, exclude, include     *)
(*   waived     criteria marked as having no rules                         *)
(*   readFile   the agent has read a submitted file                        *)
(*   doubt      a flag of the investigation, a suspicious or inconclusive  *)
(*              lens, or an unverified ruler                               *)
(*   blocked    rules whose automatic approval is off                      *)
(*   noErrorOff automatic approval of submissions without errors is off    *)
(*   ceiling, cap, theta   confidences, in hundredths                      *)
(* p and q are prices, [rule -> hundredths or Unpriced].                   *)
(***************************************************************************)
EXTENDS Integers, FiniteSets
LOCAL INSTANCE FiniteSetsExt

CaseFields ==
    {"verdict", "exhausted", "cases", "runs", "rubric", "rules", "criterion", "group",
     "own", "seen", "claim", "challenge", "exception", "waived", "readFile", "doubt",
     "blocked", "noErrorOff", "ceiling", "cap", "theta"}

Unpriced == -1

SumOf(f) == MapThenSumSet(LAMBDA e : f[e], DOMAIN f)
Total(S, f) == SumOf([e \in S |-> f[e]])

(* Mutant: a criterion that may lose more than it is worth.                *)
Uncapped(raw, max) == raw

Capped(raw, max) == IF raw > max THEN max ELSE raw

(* computeDeductionScore: what each criterion loses to the errors E.       *)
Deducted(x, p, E) ==
    [c \in DOMAIN x.rubric |->
        Capped(Total({r \in E : x.criterion[r] = c /\ p[r] # Unpriced}, p), x.rubric[c])]

ScoreOf(x, p, E) ==
    LET left == Total(DOMAIN x.rubric, x.rubric) - Total(DOMAIN x.rubric, Deducted(x, p, E)) IN
    IF left < 0 THEN 0 ELSE left

-----------------------------------------------------------------------------
(* What the test runs say.                                                 *)

HasPredicate(x, r) == x.group[r] # "verbal"
MachineChecked(x, r) == x.group[r] \notin {"verbal", "unmeasurable"}

Compiled(x) == {t \in x.runs : t.compiled}
Seen(x, c) == {t.result[c] : t \in Compiled(x)} \ {"none"}
CasesSeen(x, g) == {c \in UNION {DOMAIN t.result : t \in x.runs} : c.group = g}
Broken(x, g) == {t \in x.runs : ~t.compiled /\ t.scope \in {"all", g}}

(* A case some run saw fail or time out, though another saw it pass.       *)
Unstable(x, c) == Seen(x, c) \cap {"fail", "timeout"} # {}

(* evaluatePredicate, for `test_group_failed`.  A case that failed and     *)
(* never passed is evidence whatever else happened; a build that fails     *)
(* only sometimes is not.                                                  *)
Measure(x, g) ==
    LET expected == {c \in x.cases : c.group = g} IN
    IF expected = {} THEN "unmeasured"
    ELSE IF \E c \in CasesSeen(x, g) : "fail" \in Seen(x, c) /\ "pass" \notin Seen(x, c)
         THEN "present"
    ELSE IF Broken(x, g) # {}
         THEN IF Compiled(x) = {} THEN "present" ELSE "unmeasured"
    ELSE IF \E c \in CasesSeen(x, g) : Unstable(x, c) THEN "unmeasured"
    ELSE IF \A c \in expected : "pass" \in Seen(x, c) THEN "absent"
    ELSE "unmeasured"

Measured(x, r) == IF MachineChecked(x, r) THEN Measure(x, x.group[r]) ELSE "unmeasured"

(* uncoveredCases: cases of the bundle without a result in any run.        *)
Uncovered(x) ==
    {c \in x.cases : ~\E t \in x.runs :
        IF t.compiled THEN t.result[c] # "none" ELSE t.scope \in {"all", c.group}}

(* A run happened and no case of any run passed.                           *)
NothingPassed(x) ==
    /\ \E t \in x.runs : ~t.compiled \/ \E c \in DOMAIN t.result : t.result[c] # "none"
    /\ ~\E t \in Compiled(x) : \E c \in DOMAIN t.result : t.result[c] = "pass"

-----------------------------------------------------------------------------
(* diagnose and decide.                                                    *)

(* The rules a computation considers: those of a criterion of the rubric   *)
(* that a machine checks, or that this submission's own table had.         *)
Used(x) ==
    {r \in x.rules : /\ x.criterion[r] \in DOMAIN x.rubric
                     /\ MachineChecked(x, r) \/ r \in x.own}

MachineErrors(x) == {r \in Used(x) : Measured(x, r) = "present"}
ModelErrors(x) == {r \in Used(x) : ~MachineChecked(x, r) /\ x.claim[r] # "none"}
Errors(x) == MachineErrors(x) \cup ModelErrors(x)

(* One lens that refutes is enough; one that confirms, if none refutes.    *)
Refuted(x) == {r \in ModelErrors(x) : "refuted" \in x.challenge[r]}
Unverified(x) == {r \in ModelErrors(x) : x.challenge[r] = {"unverified"}}

(* The floor: nothing to grade from, or a budget that ran out on nothing.  *)
Gradable(x) ==
    /\ x.verdict /\ x.cases # {} /\ Uncovered(x) = {}
    /\ ~(x.exhausted /\ Errors(x) = {})

(* A rule of which this investigation cannot say that it was considered.   *)
Gap(x, r) ==
    IF HasPredicate(x, r) THEN Measured(x, r) = "unmeasured"
    ELSE x.seen[r] # "model" \/ ~x.readFile

RulesOf(x, c) == {r \in Used(x) : x.criterion[r] = c}

CriterionOpen(x) ==
    \E c \in DOMAIN x.rubric :
        /\ x.rubric[c] > 0
        /\ \/ RulesOf(x, c) = {} /\ c \notin x.waived
           \/ \E r \in RulesOf(x, c) : Gap(x, r)

CaseFlagged(x) ==
    \/ CriterionOpen(x) \/ NothingPassed(x) \/ x.doubt
    \/ Errors(x) = {} /\ x.noErrorOff
    \/ Errors(x) \cap x.blocked # {}

DecisionFlags(x, p) ==
         {<<r, "unpriced">> : r \in {e \in Errors(x) \ Refuted(x) : p[e] = Unpriced}}
    \cup {<<r, "refuted">> : r \in Refuted(x)}
    \cup {<<r, "unverified">> : r \in Unverified(x)}

CapOf(x, r) ==
    IF MachineChecked(x, r) THEN 100
    ELSE IF x.claim[r] = "tool" THEN 80
    ELSE Capped(50, x.ceiling)

(* caseConfidence, a mean weighted by price, against theta.  It decides    *)
(* only where nothing is flagged, which settles the other caps.            *)
Confident(x, p) ==
    LET priced == {r \in Errors(x) : p[r] > 0} IN
    /\ x.cap >= x.theta
    /\ Total(priced, [r \in priced |-> (CapOf(x, r) - x.theta) * p[r]]) >= 0

Decide(x, p) ==
    IF ~Gradable(x) THEN "ungradable"
    ELSE IF CaseFlagged(x) \/ DecisionFlags(x, p) # {} \/ ~Confident(x, p) THEN "flagged"
    ELSE "auto"

-----------------------------------------------------------------------------
(* computeScore: the decision on all the rules, then the exceptions.       *)

Excluded(x) == {r \in Used(x) : x.exception[r] = "exclude"}
Included(x) == {r \in Used(x) : x.exception[r] = "include"}

(* How an error enters the score.  The teacher's exception beats the lens. *)
Counted(x, p) ==
    LET out == Excluded(x)
        refuted == Refuted(x) \ (out \cup Included(x)) IN
    [r \in Errors(x) |->
        IF r \in refuted THEN "refuted"
        ELSE IF r \in out THEN "excluded"
        ELSE IF p[r] = Unpriced THEN "unpriced"
        ELSE "counted"]

Charged(counted) == {r \in DOMAIN counted : counted[r] \notin {"excluded", "refuted"}}

(* The flags that stay: an excluded error needs none, and a refuted one    *)
(* that was included again waits for a price if it has none.               *)
ErrorFlags(x, p) ==
         {f \in DecisionFlags(x, p) :
            f[1] \notin Excluded(x) /\ ~(f[2] = "refuted" /\ f[1] \in Included(x))}
    \cup {<<r, "unpriced">> : r \in {e \in Refuted(x) \cap Included(x) : p[e] = Unpriced}}

ComputeScore(x, p) ==
    LET counted == Counted(x, p)
        charged == Charged(counted) IN
    [counted |-> counted,
     flags |-> ErrorFlags(x, p),
     deducted |-> Deducted(x, p, charged),
     score |-> ScoreOf(x, p, charged)]

Repriced(counted, q) ==
    [r \in DOMAIN counted |->
        IF counted[r] \in {"excluded", "refuted"} THEN counted[r]
        ELSE IF q[r] = Unpriced THEN "unpriced" ELSE "counted"]

(* repriceBreakdown: the errors of a published computation at the prices q. *)
Reprice(x, before, q) ==
    LET counted == Repriced(before.counted, q) IN
    [counted |-> counted,
     flags |-> {<<r, "unpriced">> : r \in {e \in DOMAIN counted : counted[e] = "unpriced"}}
               \cup {f \in before.flags : f[2] \in {"refuted", "unverified"}},
     deducted |-> Deducted(x, q, Charged(counted)),
     score |-> ScoreOf(x, q, Charged(counted))]

NewlyUnpriced(before, q) ==
    {r \in DOMAIN before.counted :
        before.counted[r] # "unpriced" /\ Repriced(before.counted, q)[r] = "unpriced"}

-----------------------------------------------------------------------------
(* What the numbers promise, of one case.                                  *)

(* Applying new prices to a published grade gives what computing it anew   *)
(* at those prices would, and nothing else: no error the teacher or a lens *)
(* took out comes back, none that has lost its price goes unnoticed.       *)
RepriceIsRecompute(x, p, q) ==
    LET before == ComputeScore(x, p)
        after == Reprice(x, before, q) IN
    Gradable(x) =>
        /\ after = ComputeScore(x, q)
        /\ NewlyUnpriced(before, q) =
               {r \in Charged(before.counted) : p[r] # Unpriced /\ q[r] = Unpriced}

(* The case after another exception on rule r.                            *)
WithException(x, r, e) == [x EXCEPT !.exception[r] = e]

(* A teacher's exception on one error decides about that error alone: the  *)
(* verdict and every other criterion stay, and taking the error out never  *)
(* costs the student anything.                                             *)
ExceptionIsLocal(x, p, r, e) ==
    LET y == WithException(x, r, e)
        old == ComputeScore(x, p)
        new == ComputeScore(y, p) IN
    Gradable(x) =>
        /\ Decide(y, p) = Decide(x, p)
        /\ \A s \in Errors(x) \ {r} : new.counted[s] = old.counted[s]
        /\ \A c \in DOMAIN x.rubric \ {x.criterion[r]} : new.deducted[c] = old.deducted[c]
        /\ e = "exclude" => new.score >= old.score
        /\ 0 <= new.score /\ new.score <= Total(DOMAIN x.rubric, x.rubric)

(* Nothing is approved automatically on evidence that disagrees with       *)
(* itself: of every group a rule of an open criterion watches, the rule    *)
(* is an error with a price, or each case of the bundle passed and no run  *)
(* failed to build it, failed it or ran out of time on it.                 *)
AutoRestsOnEvidence(x, p) ==
    Decide(x, p) = "auto" =>
        \A r \in Used(x) :
            (MachineChecked(x, r) /\ x.rubric[x.criterion[r]] > 0) =>
                \/ r \in Errors(x) /\ p[r] # Unpriced
                \/ \A c \in {d \in x.cases : d.group = x.group[r]} :
                      /\ \E t \in x.runs : t.compiled /\ t.result[c] = "pass"
                      /\ \A t \in x.runs :
                            IF t.compiled THEN t.result[c] \notin {"fail", "timeout"}
                            ELSE t.scope \notin {"all", c.group}
=============================================================================
