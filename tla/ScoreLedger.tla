----------------------------- MODULE ScoreLedger -----------------------------
(***************************************************************************)
(* The scores of one teacher's investigated submissions and everything     *)
(* they are derived from: the rules, listed in rubrics with a criterion    *)
(* and a price, the waived criteria, the teacher's exceptions and the      *)
(* automatic-approval breakers.  A score_computation row is never changed; *)
(* whoever changes an input writes the rows of the submissions it touches  *)
(* in the same transaction, under lockTeacherScoring.  So each transaction *)
(* is one step, and what can go wrong is its scope: a submission it should *)
(* have computed again and did not.                                        *)
(***************************************************************************)
EXTENDS Scoring

CONSTANTS
    Row, Rubric, Rule,
    RubricOf, SessionOf,  \* of each row
    Criteria,       \* [rubric -> [criterion -> largest deduction]]
    Groups,         \* what may decide a rule: a test group, verbal, ...
    Price,          \* deductions a teacher sets
    Investigation,  \* what an investigation may find: cases of Scoring
    InitialTable,
    EnvBlocked,     \* rules the environment keeps from automatic approval
    MaxEdits        \* bound on the teacher's edits and the breakers that trip

Criterion == UNION {DOMAIN Criteria[b] : b \in Rubric}

TableOK(t) ==
    /\ DOMAIN t = {"active", "dropped", "group", "listed", "criterion", "price", "waived",
                   "exception", "blocked", "noErrorOff"}
    /\ {t.active, t.dropped, t.blocked} \subseteq SUBSET Rule /\ t.noErrorOff \in BOOLEAN
    /\ t.group \in [Rule -> Groups] /\ t.listed \in [Rubric -> SUBSET Rule]
    /\ t.criterion \in [Rubric -> [Rule -> Criterion]]
    /\ t.price \in [Rubric -> [Rule -> Nat \cup {Unpriced}]]
    /\ t.waived \in [Rubric -> SUBSET Criterion]
    /\ t.exception \in [Row -> [Rule -> {"none", "exclude", "include"}]]
    /\ \A b \in Rubric :
          /\ t.listed[b] \subseteq t.active \cup t.dropped
          /\ \A e \in t.listed[b] : t.criterion[b][e] \in DOMAIN Criteria[b]

ASSUME LedgerAssumption ==
    /\ RubricOf \in [Row -> Rubric] /\ Price \subseteq Nat /\ MaxEdits \in Nat
    /\ IsFiniteSet(Rule)
    /\ \A b \in Rubric : /\ IsFiniteSet(DOMAIN Criteria[b])
                         /\ \A c \in DOMAIN Criteria[b] : Criteria[b][c] \in Nat
    /\ \A inv \in Investigation : CaseFields \subseteq DOMAIN inv
    /\ \A t \in InitialTable : TableOK(t)

VARIABLES
    table,      \* the teacher's rules, prices, waivers, exceptions, breakers
    status,
    class,      \* grading_result.ungradable_class
    found,      \* the stored investigation, with the rule table it was given
    latest,     \* the newest computation of the row
    basis,      \* the case it was computed on, whose criteria it has kept
    manual,     \* rows with a manual score
    tariff,     \* history: the prices a published row was promised
    edits

vars == <<table, status, class, found, latest, basis, manual, tariff, edits>>

(* "system" and "submission" are flagged rows with that ungradable_class.  *)
Status == {"none", "grading", "system", "submission",
           "auto", "sampled", "flagged", "reviewed", "published"}
Open == {"auto", "sampled", "flagged", "reviewed"}

Active(t, b) == t.listed[b] \cap t.active
RowsOf(b) == {r \in Row : RubricOf[r] = b}
Machine(t, e) == t.group[e] \notin {"verbal", "unmeasurable"}

-----------------------------------------------------------------------------
(* One computation: loadScoreContext, loadRuleSnapshots, computeScore.     *)

(* The case of row r, whose investigation is x, on the rules S.            *)
CaseOf(t, x, r, S) ==
    [x EXCEPT !.rubric = Criteria[RubricOf[r]],
              !.rules = S,
              !.criterion = [e \in S |-> t.criterion[RubricOf[r]][e]],
              !.group = [e \in S |-> t.group[e]],
              !.waived = t.waived[RubricOf[r]],
              !.exception = t.exception[r],
              !.blocked = {}, !.noErrorOff = FALSE]

(* The breakers decide on a case, never on its score.                      *)
Guarded(t, x) == [x EXCEPT !.blocked = t.blocked \cup EnvBlocked,
                           !.noErrorOff = t.noErrorOff]

PricesOf(t, r, S) == [e \in S |-> t.price[RubricOf[r]][e]]

NoScore == -1
Floor == [counted |-> [e \in {} |-> "counted"], flags |-> {},
          deducted |-> [c \in {} |-> 0], score |-> NoScore]

Compute(x, p) == IF Gradable(x) THEN ComputeScore(x, p) ELSE Floor

RulesNow(t, r) == Active(t, RubricOf[r])
CaseNow(t, r) == CaseOf(t, found[r], r, RulesNow(t, r))
PricesNow(t, r) == PricesOf(t, r, RulesNow(t, r))
Outcome(t, r) == Decide(Guarded(t, CaseNow(t, r)), PricesNow(t, r))

ErrorsOf(r) == DOMAIN latest[r].counted

(* Mutant: what a teacher has looked at is left as it is.                  *)
UnseenOnly(r) == status[r] \in Open \ {"reviewed"} /\ r \notin manual

(* recomputeForTeacher: which rows a change of the table may touch.        *)
Recomputable(r) == status[r] \in Open /\ r \notin manual

(* Mutant: a review ends when the machine becomes certain.                 *)
Resettled(t, r) ==
    IF Outcome(t, r) = "auto"
    THEN IF status[r] \in {"flagged", "reviewed"} THEN "auto" ELSE status[r]
    ELSE IF status[r] \in {"auto", "sampled"} THEN "flagged" ELSE status[r]

(* ruleLayerTransition.                                                    *)
Settled(t, r) ==
    IF Outcome(t, r) = "auto"
    THEN IF status[r] = "flagged" THEN "auto" ELSE status[r]
    ELSE IF status[r] \in {"auto", "sampled"} THEN "flagged" ELSE status[r]

(* The computations of the rows S on the table t, and their new statuses.  *)
Computed(t, S) ==
    /\ basis' = [r \in Row |-> IF r \in S THEN CaseNow(t, r) ELSE basis[r]]
    /\ latest' = [r \in Row |-> IF r \in S THEN Compute(CaseNow(t, r), PricesNow(t, r))
                                ELSE latest[r]]

Moved(t, S) == [r \in Row |-> IF r \in S THEN Settled(t, r) ELSE status[r]]

(* A request that makes the table t and computes the rows S again.         *)
Edit(t, S) ==
    LET again == {r \in S : Recomputable(r)} IN
    /\ edits < MaxEdits /\ edits' = edits + 1
    /\ table' = t
    /\ Computed(t, again)
    /\ status' = Moved(t, again)
    /\ UNCHANGED <<found, class, manual, tariff>>

-----------------------------------------------------------------------------
(* Grading: an attempt reads the rule table, investigates, is computed.    *)

Blank == [r \in Row |-> [own |-> {}, seen |-> [e \in Rule |-> "no"]]]

Init ==
    /\ table \in InitialTable
    /\ status = [r \in Row |-> "none"]
    /\ class = [r \in Row |-> "none"]
    /\ found = Blank /\ basis = Blank
    /\ latest = [r \in Row |-> Floor]
    /\ manual = {}
    /\ tariff = [r \in Row |-> <<>>]
    /\ edits = 0

(* loadRuleEntries: the model is shown every active rule of the rubric and *)
(* which of them it has to judge.  A retry reads the table again.          *)
Start(r) ==
    LET given == RulesNow(table, r) IN
    /\ status[r] \in {"none", "system", "grading"}
    /\ status' = [status EXCEPT ![r] = "grading"]
    /\ class' = [class EXCEPT ![r] = "none"]
    /\ found' = [found EXCEPT ![r] =
            [own |-> {e \in given : ~Machine(table, e)},
             seen |-> [e \in Rule |-> IF e \notin given THEN "no"
                                      ELSE IF Machine(table, e) THEN "machine"
                                      ELSE "model"]]]
    /\ UNCHANGED <<table, latest, basis, manual, tariff, edits>>

(* What the model said, of rules it was given.                             *)
Stored(r, inv) ==
    [inv EXCEPT !.own = found[r].own, !.seen = found[r].seen,
                !.claim = [e \in Rule |-> IF e \in found[r].own THEN inv.claim[e] ELSE "none"]]

(* The audit sample: the row itself, and, once nothing of the session is   *)
(* being graded any more, whoever is missing from it.                      *)
Sample(r, st) ==
    LET peers == {q \in Row : SessionOf[q] = SessionOf[r]} IN
    {D \in SUBSET {q \in peers : st[q] = "auto"} :
        D \subseteq {r} \/ \A q \in peers : st[q] # "grading"}

(* finishAttempt, on the table of this moment.                             *)
Finish(r, inv) ==
    LET x == CaseOf(table, Stored(r, inv), r, RulesNow(table, r))
        p == PricesNow(table, r)
        to(s) == [status EXCEPT ![r] = s] IN
    /\ status[r] = "grading"
    /\ found' = [found EXCEPT ![r] = Stored(r, inv)]
    /\ IF Gradable(x)
       THEN /\ basis' = [basis EXCEPT ![r] = x]
            /\ latest' = [latest EXCEPT ![r] = ComputeScore(x, p)]
            /\ LET st == to(IF Decide(Guarded(table, x), p) = "auto" THEN "auto"
                            ELSE "flagged") IN
               \E D \in Sample(r, st) :
                  status' = [q \in Row |-> IF q \in D THEN "sampled" ELSE st[q]]
            /\ UNCHANGED class
       ELSE /\ \E why \in {"system", "submission"} :
                  status' = to(why) /\ class' = [class EXCEPT ![r] = why]
            /\ UNCHANGED <<basis, latest>>
    /\ UNCHANGED <<table, manual, tariff, edits>>

-----------------------------------------------------------------------------
(* The teacher's rules: RubricErrorService, ErrorRuleService, PriceService.*)

(* A new version of the price table: the prices given, the rest copied.    *)
Priced(t, b, prices) ==
    [t EXCEPT !.price[b] = [e \in Rule |-> IF e \in DOMAIN prices THEN prices[e] ELSE @[e]]]

(* The row that lists rule e in rubric b, new or brought back.             *)
Listed(t, b, e, c) ==
    [t EXCEPT !.listed[b] = @ \cup {e}, !.criterion[b][e] = c]

RowsWith(b, e) == {r \in RowsOf(b) : e \in ErrorsOf(r)}

SetPrice(b, e, d) ==
    /\ e \in table.listed[b]
    /\ Edit(Priced(table, b, [s \in {e} |-> d]), RowsWith(b, e))

(* What a machine checks is measured on the stored runs at once; a rule in *)
(* words does not apply to what is graded already.                         *)
Measurable(t, b, e) == IF Machine(t, e) THEN RowsOf(b) ELSE {}

(* assign.  A rule that is not there yet is created, or was proposed by an *)
(* investigation and is adopted, with the predicate the teacher gives it.  *)
Assign(b, e, c, g, prices) ==
    LET created == e \notin table.active
        rules == [table EXCEPT !.active = @ \cup {e}, !.group[e] = g]
        t == Priced(Listed(rules, b, e, c), b, prices) IN
    /\ e \notin table.listed[b] \cup table.dropped
    /\ c \in DOMAIN Criteria[b] /\ DOMAIN prices \subseteq {e}
    /\ created \/ g = table.group[e]
    /\ Edit(t, Measurable(t, b, e))

Move(b, e, c) ==
    /\ e \in table.listed[b] /\ c \in DOMAIN Criteria[b]
    /\ Edit([table EXCEPT !.criterion[b][e] = c], RowsOf(b))

(* The row keeps its prices, for the day it is brought back.               *)
Remove(b, e) ==
    /\ e \in table.listed[b]
    /\ Edit([table EXCEPT !.listed[b] = @ \ {e}], RowsOf(b))

(* Mutant: rules whose criterion the target does not have as well.         *)
AllCopied(a, b) == Active(table, a) \ table.listed[b]

Copied(a, b) == {e \in Active(table, a) \ table.listed[b] :
                    table.criterion[a][e] \in DOMAIN Criteria[b]}

Copy(a, b) ==
    LET new == Copied(a, b)
        t == [table EXCEPT !.listed[b] = @ \cup new,
                           !.criterion[b] = [e \in Rule |-> IF e \in new
                                THEN table.criterion[a][e] ELSE @[e]]] IN
    /\ a # b /\ new # {}
    /\ Edit(Priced(t, b, [e \in new |-> table.price[a][e]]), RowsOf(b))

Revise(e, g) ==
    /\ e \in table.active \cup table.dropped /\ g # table.group[e]
    /\ Edit([table EXCEPT !.group[e] = g], Row)

(* setState: `dismissed` or `retired`, nowhere in use any more.            *)
Drop(e) ==
    /\ e \in table.active
    /\ Edit([table EXCEPT !.active = @ \ {e}, !.dropped = @ \cup {e}], Row)

(* split, "only this rubric": the row of rubric b that lists e, its        *)
(* criterion and prices with it, becomes the row of a new rule n, and so   *)
(* do the exceptions.                                                      *)
SplitTable(b, e, n, g) ==
    [table EXCEPT !.active = @ \cup {n}, !.group[n] = g,
                  !.listed[b] = (@ \ {e}) \cup {n},
                  !.criterion[b][n] = table.criterion[b][e],
                  !.price[b] = [@ EXCEPT ![n] = table.price[b][e], ![e] = Unpriced],
                  !.exception = [r \in Row |-> IF RubricOf[r] = b
                        THEN [@[r] EXCEPT ![n] = table.exception[r][e]] ELSE @[r]]]

Split(b, e, n, g) ==
    /\ e \in table.listed[b] /\ \E a \in Rubric \ {b} : e \in table.listed[a]
    /\ n \notin table.active \cup table.dropped
    /\ Edit(SplitTable(b, e, n, g), RowsOf(b))

(* CriterionWaiverService: marked as having no rules, or not any more.     *)
Waive(b, c) ==
    /\ c \in DOMAIN Criteria[b]
    /\ Edit([table EXCEPT !.waived[b] = (@ \cup {c}) \ (@ \cap {c})], RowsOf(b))

(* edits counts them all, so at its bound there is none to look for.       *)
RuleEdit ==
    /\ edits < MaxEdits
    /\ \/ \E b \in Rubric, e \in Rule :
             \/ Remove(b, e)
             \/ \E d \in Price \cup {Unpriced} : SetPrice(b, e, d)
             \/ \E c \in DOMAIN Criteria[b] : Move(b, e, c)
             \/ \E c \in DOMAIN Criteria[b], g \in Groups,
                  prices \in {<<>>} \cup [{e} -> Price \cup {Unpriced}] : Assign(b, e, c, g, prices)
             \/ \E n \in Rule, g \in Groups : Split(b, e, n, g)
       \/ \E a, b \in Rubric : Copy(a, b)
       \/ \E b \in Rubric : \E c \in DOMAIN Criteria[b] : Waive(b, c)
       \/ \E e \in Rule : Drop(e) \/ \E g \in Groups : Revise(e, g)

-----------------------------------------------------------------------------
(* The teacher and single submissions.                                     *)

(* setErrorException: computed once more, whatever comes of it.            *)
SetErrorException(r, e, direction) ==
    LET t == [table EXCEPT !.exception[r][e] = direction] IN
    /\ status[r] \in Open \ {"sampled"} /\ e \in ErrorsOf(r)
    /\ edits < MaxEdits /\ edits' = edits + 1
    /\ table' = t
    /\ Computed(t, {r})
    /\ status' = [status EXCEPT ![r] = "reviewed"]
    /\ UNCHANGED <<found, class, manual, tariff>>

(* setManualScore, also on a published row, whose status stays.            *)
SetManualScore(r) ==
    /\ status[r] \in {"auto", "flagged", "system", "submission", "reviewed", "published"}
    /\ edits < MaxEdits /\ edits' = edits + 1
    /\ manual' = manual \cup {r}
    /\ status' = [status EXCEPT ![r] = IF @ = "published" THEN @ ELSE "reviewed"]
    /\ UNCHANGED <<table, found, class, latest, basis, tariff>>

(* confirmGroup, for one of its rows.                                      *)
ConfirmVerdict(r) ==
    /\ status[r] = "flagged" /\ r \notin manual /\ latest[r].score # NoScore
    /\ status' = [status EXCEPT ![r] = "reviewed"]
    /\ UNCHANGED <<table, found, class, latest, basis, manual, tariff, edits>>

(* Mutant: the breaker only looks at what is still to be approved.         *)
NotYetSampled(off, noError) ==
    {r \in Row : /\ status[r] # "sampled"
                 /\ \/ ErrorsOf(r) \cap off # {}
                    \/ noError /\ ErrorsOf(r) = {}}

(* What a breaker that trips is about: rows with one of the rules off, or  *)
(* rows without errors.                                                    *)
Tripped(off, noError) ==
    {r \in Row : \/ ErrorsOf(r) \cap off # {}
                 \/ noError /\ ErrorsOf(r) = {}}

(* AuditReviewService.record: the teacher's blind findings on a sampled    *)
(* row.  They may trip breakers, of rules found by either side and, for a  *)
(* row without errors, of that class; every other row it is about is       *)
(* computed again.                                                         *)
RecordAudit(r, off, noError) ==
    LET t == [table EXCEPT !.blocked = @ \cup off, !.noErrorOff = @ \/ noError]
        again == {q \in Tripped(off, noError) \ {r} : Recomputable(q)} IN
    /\ status[r] = "sampled"
    /\ off \subseteq (table.active \cup ErrorsOf(r)) \ table.blocked
    /\ noError => ErrorsOf(r) = {} /\ ~table.noErrorOff
    /\ edits' = IF off = {} /\ ~noError THEN edits ELSE edits + 1
    /\ edits' <= MaxEdits /\ table' = t
    /\ Computed(t, again)
    /\ status' = [Moved(t, again) EXCEPT ![r] = "reviewed"]
    /\ UNCHANGED <<found, class, manual, tariff>>

(* AutoBreakerService.reset computes nothing again.                        *)
ResetBreaker ==
    /\ edits < MaxEdits /\ edits' = edits + 1
    /\ \/ \E e \in table.blocked : table' = [table EXCEPT !.blocked = @ \ {e}]
       \/ table.noErrorOff /\ table' = [table EXCEPT !.noErrorOff = FALSE]
    /\ UNCHANGED <<status, found, class, latest, basis, manual, tariff>>

-----------------------------------------------------------------------------
(* Publishing a session, and applying new prices to it afterwards.         *)

Finalize(s) ==
    LET rows == {r \in Row : SessionOf[r] = s /\ status[r] # "none"}
        ready == {r \in rows : status[r] \in {"auto", "reviewed"}} IN
    /\ ready # {} /\ \A r \in rows \ ready : status[r] = "published"
    /\ \A r \in ready : latest[r].score # NoScore \/ r \in manual
    /\ status' = [r \in Row |-> IF r \in ready THEN "published" ELSE status[r]]
    /\ tariff' = [r \in Row |-> IF r \in ready THEN PricesNow(table, r) ELSE tariff[r]]
    /\ UNCHANGED <<table, found, class, latest, basis, manual, edits>>

(* planReapply: the prices of the row's rubric, whatever became of a rule. *)
ReapplyPrices(r) ==
    [e \in ErrorsOf(r) |-> IF e \in table.listed[RubricOf[r]]
                           THEN table.price[RubricOf[r]][e] ELSE Unpriced]

(* Mutant: graded anew, by what is in force now.                           *)
GradedAnew(r) == Compute(CaseNow(table, r), PricesNow(table, r))

RepricedRow(r) == Reprice(basis[r], latest[r], ReapplyPrices(r))

(* Mutant: an error may lose its price.                                    *)
NeverRefused(rows) == FALSE

Refused(rows) == \E r \in rows : NewlyUnpriced(latest[r], ReapplyPrices(r)) # {}

(* reapplyFinalizedSession: all rows of the session or none.  A row whose  *)
(* score stays keeps its computation.                                      *)
Reapply(s) ==
    LET all == {r \in Row : SessionOf[r] = s /\ status[r] # "none"}
        rows == {r \in all : r \notin manual /\ latest[r].score # NoScore}
        changed == {r \in rows : RepricedRow(r).score # latest[r].score} IN
    /\ all # {} /\ \A r \in all : status[r] = "published"
    /\ ~Refused(rows)
    /\ latest' = [r \in Row |-> IF r \in changed THEN RepricedRow(r) ELSE latest[r]]
    /\ tariff' = [r \in Row |-> IF r \in rows THEN ReapplyPrices(r) ELSE tariff[r]]
    /\ UNCHANGED <<table, status, found, class, basis, manual, edits>>

-----------------------------------------------------------------------------
Next ==
    \/ RuleEdit
    \/ \E r \in Row :
          \/ Start(r) \/ \E inv \in Investigation : Finish(r, inv)
          \/ \E e \in Rule, d \in {"exclude", "include"} : SetErrorException(r, e, d)
          \/ SetManualScore(r) \/ ConfirmVerdict(r)
          \/ \E off \in SUBSET Rule, noError \in BOOLEAN : RecordAudit(r, off, noError)
    \/ ResetBreaker
    \/ \E r \in Row : Finalize(SessionOf[r]) \/ Reapply(SessionOf[r])

Spec == Init /\ [][Next]_vars

-----------------------------------------------------------------------------
TypeOK ==
    /\ TableOK(table)
    /\ status \in [Row -> Status] /\ manual \subseteq Row /\ edits \in 0..MaxEdits
    /\ class \in [Row -> {"none", "system", "submission"}]
    /\ {DOMAIN found, DOMAIN latest, DOMAIN basis, DOMAIN tariff} = {Row}

(* score.service.ts:316 and current-score.ts: what a screen or a           *)
(* publication takes for the score of an open submission is its latest     *)
(* computation, so no change of a price, a criterion, a rule, a waiver or  *)
(* an exception may leave one behind: computing it again on the same rules *)
(* gives the same row, those rules are all still in force, and the only    *)
(* ones in force that it leaves out are for a model to judge.              *)
OpenFollowsTable ==
    \A r \in Row \ manual : status[r] \in Open =>
        LET S == basis[r].rules IN
        /\ S \subseteq RulesNow(table, r)
        /\ \A e \in RulesNow(table, r) \ S : ~Machine(table, e)
        /\ latest[r] = Compute(CaseOf(table, found[r], r, S), PricesOf(table, r, S))

(* auto-breaker.service.ts:46: what is approved automatically, or sampled  *)
(* from it, would be so today, by today's prices, exceptions and breakers. *)
AutoStillEarned ==
    \A r \in Row : status[r] \in {"auto", "sampled"} =>
        LET S == basis[r].rules IN
        Decide(Guarded(table, CaseOf(table, found[r], r, S)), PricesOf(table, r, S)) = "auto"

(* score.service.ts:413: a published score is the one of the case that was *)
(* published, at the prices of that moment or of the last time new prices  *)
(* were applied to the session, whatever became of rules, criteria and     *)
(* waivers since.                                                          *)
PublishedAsPromised ==
    \A r \in Row \ manual : status[r] = "published" =>
        latest[r].score = ComputeScore(basis[r], tariff[r]).score

(* score.service.ts:409: no publication of new prices turns an error that  *)
(* was charged into a free one.                                            *)
NothingBecomesFree ==
    [][\A r \in Row \ manual : status[r] = "published" =>
          \A e \in ErrorsOf(r) : latest[r].counted[e] = "counted" =>
                latest'[r].counted[e] = "counted"]_vars

(* deduction-score.ts:57: whatever was priced, moved, copied, taken out or *)
(* brought back since, no criterion has lost more than the rubric of the   *)
(* row gives it, and the score is what the criteria have left: its clamp   *)
(* at zero hides nothing.                                                  *)
ScoreAddsUp ==
    \A r \in Row : latest[r].score # NoScore =>
        LET rubric == Criteria[RubricOf[r]]
            lost == latest[r].deducted IN
        /\ DOMAIN lost = DOMAIN rubric
        /\ \A c \in DOMAIN rubric : lost[c] \in 0 .. rubric[c]
        /\ latest[r].score = Total(DOMAIN rubric, rubric) - Total(DOMAIN rubric, lost)

(* What the triggers and a teacher see of a row.  Who was approved, sampled *)
(* or flagged has a score; a review takes a row with one or without.       *)
Phase(st) ==
    CASE st \in {"system", "submission"} -> "flagged"
      [] st = "auto" -> "proposed"
      [] OTHER       -> st

HasScore == {r \in Row :
    \/ status[r] \in {"auto", "sampled", "flagged"}
    \/ status[r] \in {"reviewed", "published"} /\ class[r] = "none"}

Lifecycle == INSTANCE GradingLifecycle
                 WITH Submission <- Row, scored <- HasScore,
                      phase <- [r \in Row |-> Phase(status[r])]

(* A transaction moves many rows, and a move the trigger on grading_result *)
(* refuses would undo it for all of them: no change of the rules makes one,*)
(* so none takes a review back, restarts a scored row or reopens a         *)
(* published one.                                                          *)
ImplementsLifecycle == Lifecycle!LifecycleSpec

(* score.service.ts:413: a published score falls only because an error it  *)
(* is charged for became dearer; no rule, criterion, waiver or exception   *)
(* that has changed since the publication reaches it.                      *)
PublishedFallsOnlyByPrice ==
    [][\A r \in Row \ manual :
          status[r] = "published" /\ latest'[r].score < latest[r].score =>
              \E e \in Charged(latest[r].counted) : tariff[r][e] < tariff'[r][e]]_vars

(* docs/superpowers/specs/2026-10-07-rules-by-rubric-design.md, T-RBE-     *)
(* SPLIT-2: splitting a rule off for one rubric keeps the submissions of   *)
(* that rubric it applies to, here those still open, when the predicate    *)
(* stays as it is.                                                         *)
SplitKeepsApplied ==
    [][\A b \in Rubric, e, n \in Rule : Split(b, e, n, table.group[e]) =>
          \A r \in RowsWith(b, e) \ manual : status[r] \in Open => n \in DOMAIN latest'[r].counted]_vars
=============================================================================
