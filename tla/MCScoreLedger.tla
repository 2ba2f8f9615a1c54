---------------------------- MODULE MCScoreLedger ----------------------------
(***************************************************************************)
(* Two submissions of one session and one rubric, and another rubric that  *)
(* lists one of its rules: m is decided by the test group, v, which both   *)
(* list, by the model, n is yet to be created.                             *)
(***************************************************************************)
EXTENDS ScoreLedger, TLC

CONSTANTS a, b, A, B, m, v, n

Swap == Permutations({a, b})

AllInA == [r \in Row |-> A]
OneSession == [r \in Row |-> 1]

(* The other rubric has no criterion d, which no rule is about at first.   *)
TheCriteria == [x \in {A, B} |-> [c \in IF x = A THEN {"c", "d"} ELSE {"c"} |->
                                    IF c = "c" THEN 30 ELSE 10]]

TheTable ==
    {[active |-> {m, v}, dropped |-> {},
      group |-> [e \in Rule |-> IF e = m THEN "g" ELSE "verbal"],
      listed |-> [x \in Rubric |-> IF x = A THEN {m, v} ELSE {v}],
      criterion |-> [x \in Rubric |-> [e \in Rule |-> "c"]],
      price |-> [x \in Rubric |-> [e \in Rule |-> IF e = n THEN Unpriced ELSE 10]],
      waived |-> [x \in Rubric |-> {"d"}],
      exception |-> [r \in Row |-> [e \in Rule |-> "none"]],
      blocked |-> {}, noErrorOff |-> FALSE]}

TestCase == [group |-> "g", name |-> 1]
RunOf(result) == [compiled |-> TRUE, scope |-> "all", result |-> [c \in {TestCase} |-> result]]

(* The one test passes or fails; the model names v, or does not.           *)
Case(result, claim) ==
    [verdict |-> TRUE, exhausted |-> FALSE, cases |-> {TestCase}, runs |-> {RunOf(result)},
     rubric |-> <<>>, rules |-> {}, criterion |-> <<>>, group |-> <<>>,
     own |-> {}, seen |-> <<>>,
     claim |-> [e \in Rule |-> IF e = v THEN claim ELSE "none"],
     challenge |-> [e \in Rule |-> {}], exception |-> <<>>, waived |-> {},
     readFile |-> TRUE, doubt |-> FALSE, blocked |-> {}, noErrorOff |-> FALSE,
     ceiling |-> 50, cap |-> 100, theta |-> 45]

(* The second stopped for want of budget: without its finding, nothing.    *)
Investigations == {Case("pass", "none"), [Case("pass", "word") EXCEPT !.exhausted = TRUE],
                   Case("fail", "word")}
=============================================================================
