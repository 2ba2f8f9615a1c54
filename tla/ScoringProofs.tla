---------------------------- MODULE ScoringProofs ----------------------------
(***************************************************************************)
(* Theorems about Scoring, for every case and all prices.  No sum is taken *)
(* here: two scores are equal because the same errors are charged at the   *)
(* same prices.  SumProofs says how scores compare.                        *)
(***************************************************************************)
EXTENDS Scoring, TLAPS
LOCAL INSTANCE FiniteSetsExt
LOCAL INSTANCE Folds

(* SumOf by the definition of the fold it is written with.                 *)
LEMMA SumIsFold ==
    ASSUME NEW f
    PROVE SumOf(f) = (CHOOSE iter : iter = [s \in SUBSET DOMAIN f |->
            IF s = {} THEN 0
            ELSE f[CHOOSE x \in s : TRUE] + iter[s \ {CHOOSE x \in s : TRUE}]])[DOMAIN f]
BY DEF SumOf, MapThenSumSet, MapThenFoldSet

(* Repricing keeps every decision about an error but the one on its price. *)
LEMMA RepricedIsCounted ==
    ASSUME NEW x, NEW p, NEW q
    PROVE Repriced(Counted(x, p), q) = Counted(x, q)
<1>1. DOMAIN Counted(x, p) = Errors(x)
    BY DEF Counted
<1>2. ASSUME NEW r \in Errors(x)
      PROVE (IF Counted(x, p)[r] \in {"excluded", "refuted"} THEN Counted(x, p)[r]
             ELSE IF q[r] = Unpriced THEN "unpriced" ELSE "counted") = Counted(x, q)[r]
    BY <1>2 DEF Counted
<1>3. Repriced(Counted(x, p), q) =
        [r \in Errors(x) |->
            IF Counted(x, p)[r] \in {"excluded", "refuted"} THEN Counted(x, p)[r]
            ELSE IF q[r] = Unpriced THEN "unpriced" ELSE "counted"]
    BY <1>1 DEF Repriced
<1>4. Counted(x, q) = [r \in Errors(x) |-> Counted(x, q)[r]]
    BY DEF Counted
<1> QED BY <1>2, <1>3, <1>4

(* Which flags a computation leaves on its errors, said of each error.     *)
LEMMA FlagsOfCounted ==
    ASSUME NEW x, NEW p
    PROVE ErrorFlags(x, p) =
               {<<r, "unpriced">> : r \in {e \in Errors(x) : Counted(x, p)[e] = "unpriced"}}
          \cup {<<r, "refuted">> : r \in Refuted(x) \ (Excluded(x) \cup Included(x))}
          \cup {<<r, "unverified">> : r \in Unverified(x) \ Excluded(x)}
<1>1. Refuted(x) \subseteq Errors(x)
    BY DEF Refuted, Errors
<1>2. \A e \in Errors(x) : Counted(x, p)[e] = "unpriced" <=>
          /\ p[e] = Unpriced /\ e \notin Excluded(x)
          /\ e \in Refuted(x) => e \in Included(x)
    BY DEF Counted, Excluded, Included
<1>3. \A e : ~(e \in Excluded(x) /\ e \in Included(x))
    BY DEF Excluded, Included
<1> QED BY <1>1, <1>2, <1>3 DEF ErrorFlags, DecisionFlags

(* The errors of a computation at new prices are its errors computed anew. *)
LEMMA RepriceAsComputed ==
    ASSUME NEW x, NEW p, NEW q
    PROVE Reprice(x, ComputeScore(x, p), q) = ComputeScore(x, q)
<1> DEFINE before == ComputeScore(x, p)
<1>1. before.counted = Counted(x, p) /\ before.flags = ErrorFlags(x, p)
    BY DEF ComputeScore
<1>2. Repriced(before.counted, q) = Counted(x, q)
    BY <1>1, RepricedIsCounted
<1>3. DOMAIN Counted(x, p) = Errors(x) /\ DOMAIN Counted(x, q) = Errors(x)
    BY DEF Counted
<1>4. {<<r, "unpriced">> : r \in {e \in Errors(x) : Counted(x, q)[e] = "unpriced"}}
        \cup {f \in before.flags : f[2] \in {"refuted", "unverified"}} = ErrorFlags(x, q)
    BY <1>1, FlagsOfCounted
<1> QED BY <1>2, <1>3, <1>4 DEF Reprice, ComputeScore

(* repriceBreakdown: applying new prices to a published grade is computing *)
(* it anew at those prices.                                                *)
THEOREM RepriceRecomputes ==
    ASSUME NEW x, NEW p, NEW q
    PROVE RepriceIsRecompute(x, p, q)
<1> DEFINE before == ComputeScore(x, p)
<1>1. before.counted = Counted(x, p)
    BY DEF ComputeScore
<1>2. Repriced(before.counted, q) = Counted(x, q)
    BY <1>1, RepricedIsCounted
<1>3. DOMAIN Counted(x, p) = Errors(x) /\ DOMAIN Counted(x, q) = Errors(x)
    BY DEF Counted
<1>4. NewlyUnpriced(before, q) =
        {r \in Charged(before.counted) : p[r] # Unpriced /\ q[r] = Unpriced}
    BY <1>1, <1>2, <1>3 DEF NewlyUnpriced, Charged, Counted
<1> QED BY <1>4, RepriceAsComputed DEF RepriceIsRecompute

-----------------------------------------------------------------------------
(* The fields a diagnosis is made from: all but the exceptions, which are  *)
(* applied to it, and the breakers, which act on it.                       *)
Evidence == CaseFields \ {"exception", "blocked", "noErrorOff"}

SameEvidence(x, y) == \A f \in Evidence : y[f] = x[f]

(* diagnose: on the same evidence, the same errors and the same doubts.    *)
LEMMA SameDiagnosis ==
    ASSUME NEW x, NEW y, SameEvidence(x, y)
    PROVE /\ Errors(y) = Errors(x) /\ (Gradable(y) <=> Gradable(x))
          /\ (CriterionOpen(y) <=> CriterionOpen(x))
          /\ (NothingPassed(y) <=> NothingPassed(x)) /\ y.doubt = x.doubt
          /\ \A p : /\ DecisionFlags(y, p) = DecisionFlags(x, p)
                   /\ (Confident(y, p) <=> Confident(x, p))
<1>1. /\ y.verdict = x.verdict /\ y.exhausted = x.exhausted /\ y.cases = x.cases
      /\ y.runs = x.runs /\ y.rubric = x.rubric /\ y.rules = x.rules
      /\ y.criterion = x.criterion /\ y.group = x.group /\ y.own = x.own
      /\ y.seen = x.seen /\ y.claim = x.claim /\ y.challenge = x.challenge
      /\ y.waived = x.waived /\ y.readFile = x.readFile /\ y.doubt = x.doubt
      /\ y.ceiling = x.ceiling /\ y.cap = x.cap /\ y.theta = x.theta
    BY DEF SameEvidence, Evidence, CaseFields
<1>2. \A g : Measure(y, g) = Measure(x, g)
    BY <1>1 DEF Measure, CasesSeen, Seen, Compiled, Broken, Unstable
<1>3. \A s : MachineChecked(y, s) = MachineChecked(x, s) /\ Measured(y, s) = Measured(x, s)
    BY <1>1, <1>2 DEF MachineChecked, Measured
<1>4. Used(y) = Used(x)
    BY <1>1, <1>3 DEF Used
<1>5. ModelErrors(y) = ModelErrors(x) /\ Errors(y) = Errors(x)
    BY <1>1, <1>3, <1>4 DEF Errors, MachineErrors, ModelErrors
<1>6. Refuted(y) = Refuted(x) /\ Unverified(y) = Unverified(x)
    BY <1>1, <1>5 DEF Refuted, Unverified
<1>7. Gradable(y) <=> Gradable(x)
    BY <1>1, <1>5 DEF Gradable, Uncovered
<1>8. CriterionOpen(y) <=> CriterionOpen(x)
    BY <1>1, <1>3, <1>4 DEF CriterionOpen, RulesOf, Gap, HasPredicate
<1>9. NothingPassed(y) <=> NothingPassed(x)
    BY <1>1 DEF NothingPassed, Compiled
<1>10. ASSUME NEW p PROVE DecisionFlags(y, p) = DecisionFlags(x, p)
    BY <1>5, <1>6 DEF DecisionFlags
<1>11. ASSUME NEW p PROVE Confident(y, p) <=> Confident(x, p)
  <2>1. \A s : CapOf(y, s) = CapOf(x, s)
      BY <1>1, <1>3 DEF CapOf
  <2>2. [s \in {t \in Errors(y) : p[t] > 0} |-> (CapOf(y, s) - y.theta) * p[s]]
          = [s \in {t \in Errors(x) : p[t] > 0} |-> (CapOf(x, s) - x.theta) * p[s]]
      BY <1>1, <1>5, <2>1
  <2> QED BY <1>1, <1>5, <2>2 DEF Confident
<1> QED BY <1>1, <1>5, <1>7, <1>8, <1>9, <1>10, <1>11

(* An automatic approval outlives a change of the breakers that is not     *)
(* about its errors.                                                       *)
LEMMA AutoUnlessBroken ==
    ASSUME NEW x, NEW y, NEW p, SameEvidence(x, y), Decide(x, p) = "auto",
           Errors(x) \cap y.blocked \subseteq x.blocked,
           Errors(x) = {} /\ y.noErrorOff => x.noErrorOff
    PROVE Decide(y, p) = "auto"
<1>1. Gradable(x) /\ ~CaseFlagged(x) /\ DecisionFlags(x, p) = {} /\ Confident(x, p)
    BY DEF Decide
<1>2. ~CaseFlagged(y)
    BY <1>1, SameDiagnosis DEF CaseFlagged
<1> QED BY <1>1, <1>2, SameDiagnosis DEF Decide

(* computeScore applies an exception after decide(): the verdict is that   *)
(* of the case without it.                                                 *)
THEOREM ExceptionKeepsDecision ==
    ASSUME NEW x, CaseFields \subseteq DOMAIN x, NEW p, NEW r, NEW e
    PROVE Decide(WithException(x, r, e), p) = Decide(x, p)
<1> DEFINE y == WithException(x, r, e)
<1>1. ASSUME NEW f \in CaseFields \ {"exception"} PROVE y[f] = x[f]
    BY <1>1 DEF WithException, CaseFields
<1> HIDE DEF y
<1>2. SameEvidence(x, y) /\ y.blocked = x.blocked /\ y.noErrorOff = x.noErrorOff
    BY <1>1 DEF SameEvidence, Evidence, CaseFields
<1>3. CaseFlagged(y) <=> CaseFlagged(x)
    BY <1>2, SameDiagnosis DEF CaseFlagged
<1>4. Decide(y, p) = Decide(x, p)
    BY <1>2, <1>3, SameDiagnosis DEF Decide
<1> QED BY <1>4 DEF y

-----------------------------------------------------------------------------
(* A score and a verdict depend on the prices of the errors alone.         *)
LEMMA PricesOfErrors ==
    ASSUME NEW x, NEW p, NEW q, \A e \in Errors(x) : p[e] = q[e]
    PROVE ComputeScore(x, p) = ComputeScore(x, q) /\ Decide(x, p) = Decide(x, q)
<1>1. Refuted(x) \subseteq Errors(x)
    BY DEF Refuted, Errors
<1>2. Counted(x, p) = Counted(x, q)
    BY DEF Counted
<1>3. DecisionFlags(x, p) = DecisionFlags(x, q)
    BY DEF DecisionFlags
<1>4. ErrorFlags(x, p) = ErrorFlags(x, q)
    BY <1>1, <1>3 DEF ErrorFlags
<1> DEFINE E == Charged(Counted(x, p))
           due(c) == {r \in E : x.criterion[r] = c /\ p[r] # Unpriced}
<1>5. E \subseteq Errors(x)
    BY DEF Charged, Counted
<1>6. Deducted(x, p, E) = Deducted(x, q, E)
  <2>1. ASSUME NEW c
        PROVE Total(due(c), p) = Total({r \in E : x.criterion[r] = c /\ q[r] # Unpriced}, q)
    <3>1. due(c) = {r \in E : x.criterion[r] = c /\ q[r] # Unpriced}
        BY <1>5
    <3>2. [r \in due(c) |-> p[r]] = [r \in due(c) |-> q[r]]
        BY <1>5
    <3> QED BY <3>1, <3>2 DEF Total
  <2> QED BY <2>1 DEF Deducted
<1>7. ComputeScore(x, p) = ComputeScore(x, q)
    BY <1>2, <1>4, <1>6 DEF ComputeScore, ScoreOf
<1>8. Confident(x, p) <=> Confident(x, q)
  <2>1. {r \in Errors(x) : p[r] > 0} = {r \in Errors(x) : q[r] > 0}
      OBVIOUS
  <2>2. [r \in {s \in Errors(x) : p[s] > 0} |-> (CapOf(x, r) - x.theta) * p[r]]
          = [r \in {s \in Errors(x) : q[s] > 0} |-> (CapOf(x, r) - x.theta) * q[r]]
      BY <2>1
  <2> QED BY <2>1, <2>2 DEF Confident
<1>9. Decide(x, p) = Decide(x, q)
    BY <1>3, <1>8 DEF Decide
<1> QED BY <1>7, <1>9

-----------------------------------------------------------------------------
(* decide(): an automatic approval rests on test results that agree.  A    *)
(* rule its criterion needs is measured, and what is measured is either an *)
(* error, which is then priced, or absent, which takes every case passed   *)
(* and nothing against it.  A run has a result for each case it may have.  *)
THEOREM AutoOnSoundEvidence ==
    ASSUME NEW x, NEW p,
           \A t \in x.runs : x.cases \subseteq DOMAIN t.result
    PROVE AutoRestsOnEvidence(x, p)
<1> SUFFICES ASSUME Decide(x, p) = "auto", NEW r \in Used(x),
                    MachineChecked(x, r), x.rubric[x.criterion[r]] > 0
             PROVE \/ r \in Errors(x) /\ p[r] # Unpriced
                   \/ \A c \in {d \in x.cases : d.group = x.group[r]} :
                         /\ \E t \in x.runs : t.compiled /\ t.result[c] = "pass"
                         /\ \A t \in x.runs :
                               IF t.compiled THEN t.result[c] \notin {"fail", "timeout"}
                               ELSE t.scope \notin {"all", c.group}
    BY DEF AutoRestsOnEvidence
<1>1. ~CaseFlagged(x) /\ DecisionFlags(x, p) = {}
    BY DEF Decide
<1>2. x.criterion[r] \in DOMAIN x.rubric
    BY DEF Used
<1>3. Measured(x, r) # "unmeasured"
  <2>1. ~CriterionOpen(x)
      BY <1>1 DEF CaseFlagged
  <2>2. r \in RulesOf(x, x.criterion[r])
      BY DEF RulesOf
  <2>3. ~Gap(x, r)
      BY <1>2, <2>1, <2>2 DEF CriterionOpen
  <2> QED BY <2>3 DEF Gap, HasPredicate, MachineChecked
<1>4. CASE Measured(x, r) = "present"
  <2>1. r \in Errors(x) /\ r \notin Refuted(x)
      BY <1>4 DEF Errors, MachineErrors, ModelErrors, Refuted
  <2> QED BY <1>1, <2>1 DEF DecisionFlags
<1>5. CASE Measured(x, r) = "absent"
  <2> SUFFICES ASSUME NEW c \in x.cases, c.group = x.group[r]
               PROVE /\ \E t \in x.runs : t.compiled /\ t.result[c] = "pass"
                     /\ \A t \in x.runs :
                           IF t.compiled THEN t.result[c] \notin {"fail", "timeout"}
                           ELSE t.scope \notin {"all", c.group}
      OBVIOUS
  <2>1. Measure(x, x.group[r]) = "absent"
      BY <1>5 DEF Measured
  <2>2. /\ Broken(x, x.group[r]) = {}
        /\ \A d \in CasesSeen(x, x.group[r]) : ~Unstable(x, d)
        /\ "pass" \in Seen(x, c)
      BY <2>1 DEF Measure
  <2>3. PICK t \in x.runs : t.compiled /\ t.result[c] = "pass"
      BY <2>2 DEF Seen, Compiled
  <2>4. c \in CasesSeen(x, x.group[r])
      BY <2>3 DEF CasesSeen
  <2>5. Seen(x, c) \cap {"fail", "timeout"} = {}
      BY <2>2, <2>4 DEF Unstable
  <2>6. ASSUME NEW u \in x.runs, u.compiled
        PROVE u.result[c] \notin {"fail", "timeout"}
      BY <2>5, <2>6 DEF Seen, Compiled
  <2>7. ASSUME NEW u \in x.runs, ~u.compiled
        PROVE u.scope \notin {"all", c.group}
      BY <2>2, <2>7 DEF Broken
  <2> QED BY <2>3, <2>6, <2>7
<1>6. Measured(x, r) \in {"present", "absent", "unmeasured"}
    BY DEF Measured, Measure
<1> QED BY <1>3, <1>4, <1>5, <1>6
=============================================================================
