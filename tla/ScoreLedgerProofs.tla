-------------------------- MODULE ScoreLedgerProofs --------------------------
(***************************************************************************)
(* Theorems about ScoreLedger, for any rows, rubrics, rules, prices and    *)
(* investigations.  A computation is read through what ScoringProofs says  *)
(* of it: its verdict is that of the same evidence, and only the prices of *)
(* its errors matter.                                                      *)
(***************************************************************************)
EXTENDS ScoreLedger, SumProofs

(* What a teacher's change of the table may not have done to a row that is *)
(* not computed again: its rules are in force as they were, whatever is    *)
(* new is for a model to judge, its errors cost what they did, and, if it  *)
(* stays approved automatically, no breaker newly open is about it.        *)
Kept(t, r) ==
    LET b == RubricOf[r]
        old == RulesNow(table, r) IN
    /\ old \subseteq RulesNow(t, r)
    /\ \A e \in RulesNow(t, r) \ old : ~Machine(t, e)
    /\ \A e \in old : t.group[e] = table.group[e] /\ t.criterion[b][e] = table.criterion[b][e]
    /\ t.waived[b] = table.waived[b] /\ t.exception[r] = table.exception[r]
    /\ \A e \in old \cap ErrorsOf(r) : t.price[b][e] = table.price[b][e]
    /\ status'[r] \in {"auto", "sampled"} =>
          /\ ErrorsOf(r) \cap t.blocked \subseteq table.blocked
          /\ ErrorsOf(r) = {} /\ t.noErrorOff => table.noErrorOff

(* The row's computation is the one of its case, at today's table.         *)
OpenRow(r) ==
    LET S == basis[r].rules IN
    /\ CaseFields \subseteq DOMAIN found[r]
    /\ S \subseteq RulesNow(table, r)
    /\ \A e \in RulesNow(table, r) \ S : ~Machine(table, e)
    /\ basis[r] = CaseOf(table, found[r], r, S)
    /\ latest[r] = Compute(basis[r], PricesOf(table, r, S))
    /\ status[r] \in {"auto", "sampled"} =>
            Decide(Guarded(table, basis[r]), PricesOf(table, r, S)) = "auto"

PublishedRow(r) ==
    /\ \E p : latest[r] = ComputeScore(basis[r], p)
    /\ latest[r].score = ComputeScore(basis[r], tariff[r]).score

(* The inductive invariant.                                                *)
IInv ==
    /\ TypeOK
    /\ \A r \in manual : status[r] \in {"reviewed", "published"}
    /\ \A r \in Row \ manual :
          /\ status[r] \in Open => OpenRow(r)
          /\ status[r] = "published" => PublishedRow(r)

-----------------------------------------------------------------------------
(* The case of a row: the stored investigation on the rules given.         *)

LEMMA CaseOfFields ==
    ASSUME NEW t, NEW x, NEW r, NEW S, CaseFields \subseteq DOMAIN x
    PROVE CaseOf(t, x, r, S).rules = S /\ DOMAIN CaseOf(t, x, r, S) = DOMAIN x
BY DEF CaseOf, CaseFields

LEMMA SameCase ==
    ASSUME NEW t, NEW u, NEW x, NEW r, NEW S,
           \A e \in S : /\ t.group[e] = u.group[e]
                        /\ t.criterion[RubricOf[r]][e] = u.criterion[RubricOf[r]][e],
           t.waived[RubricOf[r]] = u.waived[RubricOf[r]], t.exception[r] = u.exception[r]
    PROVE CaseOf(t, x, r, S) = CaseOf(u, x, r, S)
<1>1. [e \in S |-> t.group[e]] = [e \in S |-> u.group[e]]
    OBVIOUS
<1>2. [e \in S |-> t.criterion[RubricOf[r]][e]] = [e \in S |-> u.criterion[RubricOf[r]][e]]
    OBVIOUS
<1> QED BY <1>1, <1>2 DEF CaseOf

LEMMA GuardedFields ==
    ASSUME NEW t, NEW c, CaseFields \subseteq DOMAIN c
    PROVE /\ SameEvidence(c, Guarded(t, c))
          /\ Guarded(t, c).blocked = t.blocked \cup EnvBlocked
          /\ Guarded(t, c).noErrorOff = t.noErrorOff
BY DEF Guarded, SameEvidence, Evidence, CaseFields

(* Errors are rules the computation considered.                            *)
LEMMA ErrorsAreRules ==
    ASSUME NEW x PROVE Errors(x) \subseteq x.rules
BY DEF Errors, MachineErrors, ModelErrors, Used

LEMMA ErrorsOfCompute ==
    ASSUME NEW x, NEW p
    PROVE /\ Gradable(x) => DOMAIN Compute(x, p).counted = Errors(x)
          /\ ~Gradable(x) => Compute(x, p) = Floor
BY DEF Compute, ComputeScore, Counted

(* Whether a case is gradable, and what it comes to, does not depend on    *)
(* prices that are not those of its errors.                                *)
LEMMA ComputePrices ==
    ASSUME NEW x, NEW p, NEW q, Gradable(x) => \A e \in Errors(x) : p[e] = q[e]
    PROVE /\ Compute(x, p) = Compute(x, q)
          /\ Decide(x, p) = "auto" => Decide(x, q) = "auto"
BY PricesOfErrors DEF Compute, Decide

-----------------------------------------------------------------------------
(* A row that is not computed again, on a table that keeps it.             *)
OpenRowAt(t, r) ==
    LET S == basis[r].rules IN
    /\ CaseFields \subseteq DOMAIN found[r]
    /\ S \subseteq RulesNow(t, r)
    /\ \A e \in RulesNow(t, r) \ S : ~Machine(t, e)
    /\ basis[r] = CaseOf(t, found[r], r, S)
    /\ latest[r] = Compute(basis[r], PricesOf(t, r, S))
    /\ {status[r], status'[r]} \subseteq {"auto", "sampled"} =>
            Decide(Guarded(t, basis[r]), PricesOf(t, r, S)) = "auto"

LEMMA KeptRow ==
    ASSUME NEW t, NEW r, OpenRow(r), Kept(t, r)
    PROVE OpenRowAt(t, r)
<1> DEFINE S == basis[r].rules
           x == basis[r]
           p == PricesOf(table, r, S)
           q == PricesOf(t, r, S)
<1>1. /\ CaseFields \subseteq DOMAIN found[r]
      /\ S \subseteq RulesNow(table, r)
      /\ \A e \in RulesNow(table, r) \ S : ~Machine(table, e)
      /\ x = CaseOf(table, found[r], r, S)
      /\ latest[r] = Compute(x, p)
      /\ status[r] \in {"auto", "sampled"} => Decide(Guarded(table, x), p) = "auto"
    BY DEF OpenRow
<1>2. /\ RulesNow(table, r) \subseteq RulesNow(t, r)
      /\ \A e \in RulesNow(t, r) \ RulesNow(table, r) : ~Machine(t, e)
      /\ \A e \in RulesNow(table, r) :
            /\ t.group[e] = table.group[e]
            /\ t.criterion[RubricOf[r]][e] = table.criterion[RubricOf[r]][e]
      /\ t.waived[RubricOf[r]] = table.waived[RubricOf[r]] /\ t.exception[r] = table.exception[r]
      /\ \A e \in RulesNow(table, r) \cap ErrorsOf(r) :
            t.price[RubricOf[r]][e] = table.price[RubricOf[r]][e]
      /\ status'[r] \in {"auto", "sampled"} =>
            /\ ErrorsOf(r) \cap t.blocked \subseteq table.blocked
            /\ ErrorsOf(r) = {} /\ t.noErrorOff => table.noErrorOff
    BY DEF Kept
<1>3. x = CaseOf(t, found[r], r, S)
    BY <1>1, <1>2, SameCase
<1>4. Gradable(x) => Errors(x) = ErrorsOf(r) /\ Errors(x) \subseteq S
    BY <1>1, ErrorsOfCompute, ErrorsAreRules DEF ErrorsOf
<1>5. Gradable(x) => \A e \in Errors(x) : p[e] = q[e]
    BY <1>1, <1>2, <1>4 DEF PricesOf
<1>6. latest[r] = Compute(x, q)
    BY <1>1, <1>5, ComputePrices
<1>7. ASSUME {status[r], status'[r]} \subseteq {"auto", "sampled"}
      PROVE Decide(Guarded(t, x), q) = "auto"
  <2> DEFINE g == Guarded(table, x)
             h == Guarded(t, x)
  <2>1. CaseFields \subseteq DOMAIN x
      BY <1>1, CaseOfFields
  <2>2. /\ SameEvidence(x, g) /\ SameEvidence(x, h) /\ SameEvidence(g, h)
        /\ g.blocked = table.blocked \cup EnvBlocked /\ h.blocked = t.blocked \cup EnvBlocked
        /\ g.noErrorOff = table.noErrorOff /\ h.noErrorOff = t.noErrorOff
      BY <2>1, GuardedFields DEF SameEvidence
  <2>3. Decide(g, p) = "auto"
      BY <1>1, <1>7
  <2> HIDE DEF g, h, x, p, q
  <2>4. Gradable(x) /\ Errors(g) = Errors(x) /\ (Gradable(g) <=> Gradable(x))
      BY <2>2, <2>3, SameDiagnosis DEF Decide
  <2>5. Decide(g, q) = "auto"
      BY <1>5, <2>3, <2>4, ComputePrices
  <2>6. Errors(g) = ErrorsOf(r)
      BY <1>4, <2>4
  <2>7. Errors(g) \cap h.blocked \subseteq g.blocked /\ (Errors(g) = {} /\ h.noErrorOff => g.noErrorOff)
      BY <1>2, <1>7, <2>2, <2>6
  <2> QED BY <2>2, <2>5, <2>7, AutoUnlessBroken DEF h, x, q
<1>8. \A e \in RulesNow(t, r) \ S : ~Machine(t, e)
    BY <1>1, <1>2 DEF Machine
<1> QED BY <1>1, <1>2, <1>3, <1>6, <1>7, <1>8 DEF OpenRowAt

(* A row that is computed on a table is the case of that table.            *)
LEMMA ComputedRow ==
    ASSUME NEW t, NEW r, CaseFields \subseteq DOMAIN found[r]
    PROVE CaseNow(t, r).rules = RulesNow(t, r)
BY CaseOfFields DEF CaseNow

-----------------------------------------------------------------------------
(* A step that changes the table and computes the rows S on it keeps the   *)
(* invariant, if it keeps every other open row.                            *)
LEMMA TableStep ==
    ASSUME IInv, NEW S \in SUBSET Row, TableOK(table'),
           DOMAIN basis' = Row, DOMAIN latest' = Row,
           \A r \in S : /\ basis'[r] = CaseNow(table', r)
                        /\ latest'[r] = Compute(CaseNow(table', r), PricesNow(table', r)),
           \A r \in Row \ S : basis'[r] = basis[r] /\ latest'[r] = latest[r],
           UNCHANGED <<found, class, tariff>>, manual \subseteq manual', manual' \subseteq Row,
           status' \in [Row -> Status], edits' \in 0..MaxEdits,
           \A r \in manual' : status'[r] \in {"reviewed", "published"},
           \A r \in Row \ manual' :
              /\ status'[r] \in Open =>
                    status[r] \in Open /\ (r \in S \/ Kept(table', r))
              /\ status'[r] = "published" => status[r] = "published" /\ r \notin S
              /\ status'[r] \in {"auto", "sampled"} =>
                    IF r \in S THEN Outcome(table', r) = "auto"
                    ELSE status[r] \in {"auto", "sampled"}
    PROVE IInv'
<1>1. TypeOK'
  <2>1. /\ DOMAIN found' = Row /\ DOMAIN latest' = Row /\ DOMAIN basis' = Row /\ DOMAIN tariff' = Row
        /\ class' \in [Row -> {"none", "system", "submission"}]
      BY DEF IInv, TypeOK
  <2> QED BY <2>1 DEF TypeOK, TableOK
<1>2. ASSUME NEW r \in Row \ manual', status'[r] \in Open, r \in S
      PROVE OpenRow(r)'
  <2>1. CaseFields \subseteq DOMAIN found[r]
      BY <1>2 DEF IInv, OpenRow
  <2>2. /\ basis'[r] = CaseNow(table', r)
        /\ latest'[r] = Compute(CaseNow(table', r), PricesNow(table', r))
      BY <1>2
  <2>3. basis'[r].rules = RulesNow(table', r)
      BY <2>1, <2>2, ComputedRow
  <2>4. /\ basis'[r] = CaseOf(table', found'[r], r, basis'[r].rules)
        /\ latest'[r] = Compute(basis'[r], PricesOf(table', r, basis'[r].rules))
      BY <2>2, <2>3 DEF CaseNow, PricesNow
  <2>5. status'[r] \in {"auto", "sampled"} =>
            Decide(Guarded(table', basis'[r]), PricesOf(table', r, basis'[r].rules)) = "auto"
      BY <1>2, <2>2, <2>3 DEF Outcome, PricesNow
  <2> QED BY <2>1, <2>3, <2>4, <2>5 DEF OpenRow
<1>3. ASSUME NEW r \in Row \ manual', status'[r] \in Open, r \notin S
      PROVE OpenRow(r)'
  <2>1. OpenRow(r) /\ Kept(table', r)
      BY <1>3 DEF IInv
  <2>2. OpenRowAt(table', r)
      BY <2>1, KeptRow
  <2>3. basis'[r] = basis[r] /\ latest'[r] = latest[r] /\ found'[r] = found[r]
      BY <1>3
  <2>4. status'[r] \in {"auto", "sampled"} => status[r] \in {"auto", "sampled"}
      BY <1>3
  <2> QED BY <2>2, <2>3, <2>4 DEF OpenRow, OpenRowAt
<1>4. ASSUME NEW r \in Row \ manual', status'[r] = "published"
      PROVE PublishedRow(r)'
  <2>1. PublishedRow(r) /\ r \notin S
      BY <1>4 DEF IInv
  <2>2. basis'[r] = basis[r] /\ latest'[r] = latest[r] /\ tariff'[r] = tariff[r]
      BY <1>4, <2>1
  <2> QED BY <2>1, <2>2 DEF PublishedRow
<1> QED BY <1>1, <1>2, <1>3, <1>4 DEF IInv

LEMMA ComputedRows ==
    ASSUME NEW t, NEW S \in SUBSET Row, Computed(t, S)
    PROVE /\ DOMAIN basis' = Row /\ DOMAIN latest' = Row
          /\ \A r \in S : /\ basis'[r] = CaseNow(t, r)
                          /\ latest'[r] = Compute(CaseNow(t, r), PricesNow(t, r))
          /\ \A r \in Row \ S : basis'[r] = basis[r] /\ latest'[r] = latest[r]
BY DEF Computed

LEMMA EditStep ==
    ASSUME IInv, NEW t, NEW S \in SUBSET Row, TableOK(t), Edit(t, S),
           \A r \in Row \ (manual \cup S) : status[r] \in Open => Kept(t, r)
    PROVE IInv'
<1> DEFINE again == {r \in S : Recomputable(r)}
<1>1. /\ table' = t /\ Computed(table', again) /\ status' = Moved(t, again)
      /\ UNCHANGED <<found, class, manual, tariff>> /\ edits < MaxEdits /\ edits' = edits + 1
    BY DEF Edit
<1>2. status \in [Row -> Status] /\ manual \subseteq Row /\ edits \in 0..MaxEdits
    BY DEF IInv, TypeOK
<1>3. again \in SUBSET Row /\ \A r \in again : status[r] \in Open /\ r \notin manual
    BY DEF Recomputable
<1> HIDE DEF again
<1>4. ASSUME NEW r \in Row
      PROVE status'[r] = IF r \in again THEN Settled(t, r) ELSE status[r]
    BY <1>1 DEF Moved
<1>5. ASSUME NEW r \in again
      PROVE /\ Settled(t, r) \in Open
            /\ Settled(t, r) \in {"auto", "sampled"} => Outcome(t, r) = "auto"
    BY <1>3 DEF Settled, Open
<1>6. status' \in [Row -> Status]
  <2>1. \A r \in Row : status'[r] \in Status
      BY <1>2, <1>4, <1>5 DEF Open, Status
  <2> QED BY <1>1, <2>1 DEF Moved
<1>7. edits' \in 0..MaxEdits
    BY <1>1, <1>2, LedgerAssumption
<1>8. \A r \in manual' : status'[r] \in {"reviewed", "published"}
    BY <1>1, <1>2, <1>3, <1>4 DEF IInv
<1>9. ASSUME NEW r \in Row \ manual'
      PROVE /\ status'[r] \in Open =>
                    status[r] \in Open /\ (r \in again \/ Kept(table', r))
            /\ status'[r] = "published" => status[r] = "published" /\ r \notin again
            /\ status'[r] \in {"auto", "sampled"} =>
                    IF r \in again THEN Outcome(table', r) = "auto"
                    ELSE status[r] \in {"auto", "sampled"}
  <2>1. CASE r \in again
      BY <1>1, <1>3, <1>4, <1>5, <2>1 DEF Open
  <2>2. CASE r \notin again
    <3>1. status[r] \in Open => r \notin S
        BY <1>1, <2>2 DEF again, Recomputable
    <3> QED BY <1>1, <1>4, <2>2, <3>1 DEF Open
  <2> QED BY <2>1, <2>2
<1>10. /\ DOMAIN basis' = Row /\ DOMAIN latest' = Row
       /\ \A r \in again : /\ basis'[r] = CaseNow(table', r)
                           /\ latest'[r] = Compute(CaseNow(table', r), PricesNow(table', r))
       /\ \A r \in Row \ again : basis'[r] = basis[r] /\ latest'[r] = latest[r]
    BY <1>1, <1>3, ComputedRows
<1> QED BY <1>1, <1>2, <1>3, <1>6, <1>7, <1>8, <1>9, <1>10, TableStep

-----------------------------------------------------------------------------
(* The teacher's edits, one by one: what becomes of the table.             *)

(* A table that differs in nothing a row of another rubric reads.          *)
LEMMA KeptByEquality ==
    ASSUME NEW t, NEW r, RulesNow(t, r) = RulesNow(table, r),
           \A e \in RulesNow(table, r) :
              /\ t.group[e] = table.group[e]
              /\ t.criterion[RubricOf[r]][e] = table.criterion[RubricOf[r]][e]
              /\ e \in ErrorsOf(r) => t.price[RubricOf[r]][e] = table.price[RubricOf[r]][e],
           t.waived[RubricOf[r]] = table.waived[RubricOf[r]], t.exception[r] = table.exception[r],
           t.blocked = table.blocked, t.noErrorOff = table.noErrorOff
    PROVE Kept(t, r)
BY DEF Kept

LEMMA SetPriceStep ==
    ASSUME IInv, NEW b \in Rubric, NEW e \in Rule, NEW d \in Price \cup {Unpriced},
           SetPrice(b, e, d)
    PROVE IInv'
<1> DEFINE t == Priced(table, b, [s \in {e} |-> d])
<1>1. TableOK(table)
    BY DEF IInv, TypeOK
<1>2. d \in Nat \cup {Unpriced}
    BY LedgerAssumption
<1>3. /\ DOMAIN t = DOMAIN table
      /\ t.active = table.active /\ t.dropped = table.dropped /\ t.group = table.group
      /\ t.listed = table.listed /\ t.criterion = table.criterion /\ t.waived = table.waived
      /\ t.exception = table.exception /\ t.blocked = table.blocked /\ t.noErrorOff = table.noErrorOff
      /\ t.price = [table.price EXCEPT ![b] = [s \in Rule |-> IF s = e THEN d ELSE @[s]]]
    BY <1>1 DEF TableOK, Priced
<1> HIDE DEF t
<1>4. TableOK(t)
    BY <1>1, <1>2, <1>3 DEF TableOK
<1>5. ASSUME NEW r \in Row, r \notin RowsWith(b, e)
      PROVE Kept(t, r)
  <2>1. RubricOf[r] \in Rubric
      BY LedgerAssumption
  <2>2. RubricOf[r] # b \/ e \notin ErrorsOf(r)
      BY <1>5 DEF RowsWith, RowsOf
  <2>3. \A s \in RulesNow(table, r) : s \in ErrorsOf(r) =>
            t.price[RubricOf[r]][s] = table.price[RubricOf[r]][s]
      BY <1>1, <1>3, <2>1, <2>2 DEF TableOK, RulesNow, Active
  <2>4. RulesNow(t, r) = RulesNow(table, r)
      BY <1>3 DEF RulesNow, Active
  <2> QED BY <1>3, <2>3, <2>4 DEF Kept
<1>6. Edit(t, RowsWith(b, e)) /\ RowsWith(b, e) \in SUBSET Row
    BY DEF SetPrice, t, RowsWith, RowsOf
<1> QED BY <1>4, <1>5, <1>6, EditStep

LEMMA MoveStep ==
    ASSUME IInv, NEW b \in Rubric, NEW e \in Rule, NEW c, Move(b, e, c)
    PROVE IInv'
<1> DEFINE t == [table EXCEPT !.criterion[b][e] = c]
<1>1. TableOK(table)
    BY DEF IInv, TypeOK
<1>2. c \in DOMAIN Criteria[b] /\ c \in Criterion /\ Edit(t, RowsOf(b))
    BY DEF Move, Criterion
<1>3. /\ DOMAIN t = DOMAIN table
      /\ t.active = table.active /\ t.dropped = table.dropped /\ t.group = table.group
      /\ t.listed = table.listed /\ t.price = table.price /\ t.waived = table.waived
      /\ t.exception = table.exception /\ t.blocked = table.blocked /\ t.noErrorOff = table.noErrorOff
      /\ t.criterion = [table.criterion EXCEPT ![b] = [@ EXCEPT ![e] = c]]
    BY <1>1 DEF TableOK
<1> HIDE DEF t
<1>4. TableOK(t)
    BY <1>1, <1>2, <1>3 DEF TableOK
<1>5. ASSUME NEW r \in Row, r \notin RowsOf(b)
      PROVE Kept(t, r)
  <2>1. RubricOf[r] \in Rubric /\ RubricOf[r] # b
      BY <1>5, LedgerAssumption DEF RowsOf
  <2> QED BY <1>1, <1>3, <2>1, KeptByEquality DEF TableOK, RulesNow, Active
<1>6. RowsOf(b) \in SUBSET Row
    BY DEF RowsOf
<1> QED BY <1>2, <1>4, <1>5, <1>6, EditStep

LEMMA RemoveStep ==
    ASSUME IInv, NEW b \in Rubric, NEW e \in Rule, Remove(b, e)
    PROVE IInv'
<1> DEFINE t == [table EXCEPT !.listed[b] = @ \ {e}]
<1>1. TableOK(table)
    BY DEF IInv, TypeOK
<1>2. Edit(t, RowsOf(b))
    BY DEF Remove
<1>3. /\ DOMAIN t = DOMAIN table
      /\ t.active = table.active /\ t.dropped = table.dropped /\ t.group = table.group
      /\ t.criterion = table.criterion /\ t.price = table.price /\ t.waived = table.waived
      /\ t.exception = table.exception /\ t.blocked = table.blocked /\ t.noErrorOff = table.noErrorOff
      /\ t.listed = [table.listed EXCEPT ![b] = @ \ {e}]
    BY <1>1 DEF TableOK
<1> HIDE DEF t
<1>4. TableOK(t)
    BY <1>1, <1>3 DEF TableOK
<1>5. ASSUME NEW r \in Row, r \notin RowsOf(b)
      PROVE Kept(t, r)
  <2>1. RubricOf[r] \in Rubric /\ RubricOf[r] # b
      BY <1>5, LedgerAssumption DEF RowsOf
  <2> QED BY <1>1, <1>3, <2>1, KeptByEquality DEF TableOK, RulesNow, Active
<1>6. RowsOf(b) \in SUBSET Row
    BY DEF RowsOf
<1> QED BY <1>2, <1>4, <1>5, <1>6, EditStep

LEMMA WaiveStep ==
    ASSUME IInv, NEW b \in Rubric, NEW c, Waive(b, c)
    PROVE IInv'
<1> DEFINE t == [table EXCEPT !.waived[b] = (@ \cup {c}) \ (@ \cap {c})]
<1>1. TableOK(table)
    BY DEF IInv, TypeOK
<1>2. Edit(t, RowsOf(b)) /\ c \in Criterion
    BY DEF Waive, Criterion
<1>3. /\ DOMAIN t = DOMAIN table
      /\ t.active = table.active /\ t.dropped = table.dropped /\ t.group = table.group
      /\ t.listed = table.listed /\ t.criterion = table.criterion /\ t.price = table.price
      /\ t.exception = table.exception /\ t.blocked = table.blocked /\ t.noErrorOff = table.noErrorOff
      /\ t.waived = [table.waived EXCEPT ![b] = (@ \cup {c}) \ (@ \cap {c})]
    BY <1>1 DEF TableOK
<1> HIDE DEF t
<1>4. TableOK(t)
    BY <1>1, <1>2, <1>3 DEF TableOK
<1>5. ASSUME NEW r \in Row, r \notin RowsOf(b)
      PROVE Kept(t, r)
  <2>1. RubricOf[r] \in Rubric /\ RubricOf[r] # b
      BY <1>5, LedgerAssumption DEF RowsOf
  <2> QED BY <1>1, <1>3, <2>1, KeptByEquality DEF TableOK, RulesNow, Active
<1>6. RowsOf(b) \in SUBSET Row
    BY DEF RowsOf
<1> QED BY <1>2, <1>4, <1>5, <1>6, EditStep

(* Revise and Drop compute every row again.                                *)
LEMMA ReviseStep ==
    ASSUME IInv, NEW e \in Rule, NEW g \in Groups, Revise(e, g)
    PROVE IInv'
<1> DEFINE t == [table EXCEPT !.group[e] = g]
<1>1. TableOK(table) /\ Edit(t, Row)
    BY DEF IInv, TypeOK, Revise
<1>2. TableOK(t)
    BY <1>1 DEF TableOK
<1> QED BY <1>1, <1>2, EditStep

LEMMA DropStep ==
    ASSUME IInv, NEW e \in Rule, Drop(e)
    PROVE IInv'
<1> DEFINE t == [table EXCEPT !.active = @ \ {e}, !.dropped = @ \cup {e}]
<1>1. TableOK(table) /\ Edit(t, Row)
    BY DEF IInv, TypeOK, Drop
<1>2. TableOK(t)
    BY <1>1 DEF TableOK
<1> QED BY <1>1, <1>2, EditStep

(* A rule that no rubric lists yet cannot be among the rules of a row, so  *)
(* creating it changes nothing for the rows of other rubrics; those of its *)
(* own are computed again if a machine can measure it.                     *)
LEMMA AssignStep ==
    ASSUME IInv, NEW b \in Rubric, NEW e \in Rule, NEW c, NEW g \in Groups,
           NEW prices \in {<<>>} \cup [{e} -> Price \cup {Unpriced}],
           Assign(b, e, c, g, prices)
    PROVE IInv'
<1> DEFINE u == Listed([table EXCEPT !.active = @ \cup {e}, !.group[e] = g], b, e, c)
           t == Priced(u, b, prices)
           S == Measurable(t, b, e)
<1>1. TableOK(table)
    BY DEF IInv, TypeOK
<1>2. /\ e \notin table.listed[b] /\ e \notin table.dropped
      /\ c \in DOMAIN Criteria[b] /\ c \in Criterion /\ DOMAIN prices \subseteq {e}
      /\ e \notin table.active \/ g = table.group[e]
      /\ Edit(t, S)
    BY DEF Assign, Criterion
<1>3. e \in DOMAIN prices => prices[e] \in Nat \cup {Unpriced}
  <2>1. CASE prices = <<>>
      BY <2>1
  <2>2. CASE prices \in [{e} -> Price \cup {Unpriced}]
      BY <2>2, LedgerAssumption
  <2> QED BY <2>1, <2>2
<1>4. /\ DOMAIN t = DOMAIN table
      /\ t.dropped = table.dropped /\ t.waived = table.waived
      /\ t.exception = table.exception /\ t.blocked = table.blocked /\ t.noErrorOff = table.noErrorOff
      /\ t.active = table.active \cup {e}
      /\ t.group = [table.group EXCEPT ![e] = g]
      /\ t.listed = [table.listed EXCEPT ![b] = @ \cup {e}]
      /\ t.criterion = [table.criterion EXCEPT ![b] = [@ EXCEPT ![e] = c]]
      /\ t.price = [table.price EXCEPT ![b] =
                        [s \in Rule |-> IF s \in DOMAIN prices THEN prices[s] ELSE @[s]]]
    BY <1>1 DEF TableOK, Priced, Listed
<1> HIDE DEF t
<1>5. TableOK(t)
    BY <1>1, <1>2, <1>3, <1>4 DEF TableOK
<1>6. ASSUME NEW r \in Row, r \notin S
      PROVE Kept(t, r)
  <2>1. RubricOf[r] \in Rubric
      BY LedgerAssumption
  <2>2. CASE RubricOf[r] # b
    <3>1. RulesNow(t, r) = RulesNow(table, r)
        BY <1>1, <1>2, <1>4, <2>1, <2>2 DEF TableOK, RulesNow, Active
    <3>2. \A s \in RulesNow(table, r) : t.group[s] = table.group[s]
        BY <1>1, <1>2, <1>4, <2>1 DEF TableOK, RulesNow, Active
    <3> QED BY <1>1, <1>4, <2>1, <2>2, <3>1, <3>2 DEF TableOK, Kept
  <2>3. CASE RubricOf[r] = b
    <3>1. ~Machine(t, e)
        BY <1>6, <2>3 DEF Measurable, RowsOf
    <3>2. e \notin RulesNow(table, r) /\ RulesNow(t, r) = RulesNow(table, r) \cup {e}
        BY <1>1, <1>2, <1>4, <2>1, <2>3 DEF TableOK, RulesNow, Active
    <3>3. RulesNow(table, r) \subseteq Rule
        BY <1>1, <2>1 DEF TableOK, RulesNow, Active
    <3>4. \A s \in RulesNow(table, r) :
             /\ t.group[s] = table.group[s] /\ t.criterion[b][s] = table.criterion[b][s]
             /\ t.price[b][s] = table.price[b][s]
        BY <1>1, <1>2, <1>4, <3>2, <3>3 DEF TableOK
    <3> QED BY <1>4, <2>3, <3>1, <3>2, <3>4 DEF Kept
  <2> QED BY <2>2, <2>3
<1>7. S \in SUBSET Row
    BY DEF Measurable, RowsOf
<1> QED BY <1>2, <1>5, <1>6, <1>7, EditStep

LEMMA CopyStep ==
    ASSUME IInv, NEW a \in Rubric, NEW b \in Rubric, Copy(a, b)
    PROVE IInv'
<1> DEFINE new == Copied(a, b)
           u == [table EXCEPT !.listed[b] = @ \cup new,
                              !.criterion[b] = [e \in Rule |-> IF e \in new
                                   THEN table.criterion[a][e] ELSE @[e]]]
           t == Priced(u, b, [e \in new |-> table.price[a][e]])
<1>1. TableOK(table)
    BY DEF IInv, TypeOK
<1>2. Edit(t, RowsOf(b))
    BY DEF Copy
<1>3. \A e \in new : /\ e \in Rule /\ e \in table.active
                     /\ table.criterion[a][e] \in DOMAIN Criteria[b]
    BY <1>1 DEF Copied, Active, TableOK
<1> HIDE DEF new
<1>4. /\ DOMAIN t = DOMAIN table
      /\ t.active = table.active /\ t.dropped = table.dropped
      /\ t.group = table.group /\ t.waived = table.waived
      /\ t.exception = table.exception /\ t.blocked = table.blocked /\ t.noErrorOff = table.noErrorOff
      /\ t.listed = [table.listed EXCEPT ![b] = @ \cup new]
      /\ t.criterion = [table.criterion EXCEPT ![b] =
                [e \in Rule |-> IF e \in new THEN table.criterion[a][e] ELSE @[e]]]
      /\ t.price = [table.price EXCEPT ![b] =
                [e \in Rule |-> IF e \in new THEN table.price[a][e] ELSE @[e]]]
    BY <1>1 DEF TableOK, Priced
<1> HIDE DEF t
<1>5. TableOK(t)
  <2>1. t.criterion \in [Rubric -> [Rule -> Criterion]]
      BY <1>1, <1>3, <1>4 DEF TableOK
  <2>2. t.price \in [Rubric -> [Rule -> Nat \cup {Unpriced}]]
      BY <1>1, <1>3, <1>4 DEF TableOK
  <2>3. t.listed \in [Rubric -> SUBSET Rule]
      BY <1>1, <1>3, <1>4 DEF TableOK
  <2>4. \A x \in Rubric :
          /\ t.listed[x] \subseteq t.active \cup t.dropped
          /\ \A e \in t.listed[x] : t.criterion[x][e] \in DOMAIN Criteria[x]
      BY <1>1, <1>3, <1>4, <2>3 DEF TableOK
  <2>5. /\ DOMAIN t = DOMAIN table /\ t.active = table.active /\ t.dropped = table.dropped
        /\ t.group = table.group /\ t.waived = table.waived /\ t.exception = table.exception
        /\ t.blocked = table.blocked /\ t.noErrorOff = table.noErrorOff
      BY <1>4
  <2> QED BY <1>1, <2>1, <2>2, <2>3, <2>4, <2>5 DEF TableOK
<1>6. ASSUME NEW r \in Row, r \notin RowsOf(b)
      PROVE Kept(t, r)
  <2>1. RubricOf[r] \in Rubric /\ RubricOf[r] # b
      BY <1>6, LedgerAssumption DEF RowsOf
  <2>2. RulesNow(t, r) = RulesNow(table, r)
      BY <1>1, <1>4, <2>1 DEF TableOK, RulesNow, Active
  <2> QED BY <1>1, <1>4, <2>1, <2>2 DEF TableOK, Kept
<1>7. RowsOf(b) \in SUBSET Row
    BY DEF RowsOf
<1> QED BY <1>2, <1>5, <1>6, <1>7, EditStep

LEMMA SplitStep ==
    ASSUME IInv, NEW b \in Rubric, NEW e \in Rule, NEW n \in Rule, NEW g \in Groups,
           Split(b, e, n, g)
    PROVE IInv'
<1> DEFINE t == SplitTable(b, e, n, g)
<1>1. TableOK(table)
    BY DEF IInv, TypeOK
<1>2. /\ e \in table.listed[b] /\ n \notin table.active /\ n \notin table.dropped
      /\ Edit(t, RowsOf(b))
    BY DEF Split
<1>3. /\ DOMAIN t = DOMAIN table
      /\ t.dropped = table.dropped /\ t.waived = table.waived
      /\ t.blocked = table.blocked /\ t.noErrorOff = table.noErrorOff
      /\ t.active = table.active \cup {n}
      /\ t.group = [table.group EXCEPT ![n] = g]
      /\ t.listed = [table.listed EXCEPT ![b] = (@ \ {e}) \cup {n}]
      /\ t.criterion = [table.criterion EXCEPT ![b] = [@ EXCEPT ![n] = table.criterion[b][e]]]
      /\ t.price = [table.price EXCEPT ![b] =
                [@ EXCEPT ![n] = table.price[b][e], ![e] = Unpriced]]
      /\ t.exception = [r \in Row |-> IF RubricOf[r] = b
                THEN [table.exception[r] EXCEPT ![n] = table.exception[r][e]]
                ELSE table.exception[r]]
    BY <1>1 DEF TableOK, SplitTable
<1> HIDE DEF t
<1>4. TableOK(t)
  <2>1. t.criterion \in [Rubric -> [Rule -> Criterion]]
      BY <1>1, <1>2, <1>3 DEF TableOK
  <2>2. t.price \in [Rubric -> [Rule -> Nat \cup {Unpriced}]]
    <3>1. table.price \in [Rubric -> [Rule -> Nat \cup {Unpriced}]]
        BY <1>1 DEF TableOK
    <3>2. table.price[b] \in [Rule -> Nat \cup {Unpriced}]
        BY <3>1
    <3>3. table.price[b][e] \in Nat \cup {Unpriced}
        BY <3>2
    <3>4. [table.price[b] EXCEPT ![n] = table.price[b][e], ![e] = Unpriced]
             \in [Rule -> Nat \cup {Unpriced}]
        BY <3>2, <3>3
    <3>5. t.price = [table.price EXCEPT ![b] =
                        [table.price[b] EXCEPT ![n] = table.price[b][e], ![e] = Unpriced]]
        BY <1>3, <3>1
    <3> QED BY <3>1, <3>4, <3>5
  <2>3. t.listed \in [Rubric -> SUBSET Rule]
      BY <1>1, <1>2, <1>3 DEF TableOK
  <2>4. t.exception \in [Row -> [Rule -> {"none", "exclude", "include"}]]
      BY <1>1, <1>2, <1>3 DEF TableOK
  <2>5. \A x \in Rubric :
          /\ t.listed[x] \subseteq t.active \cup t.dropped
          /\ \A s \in t.listed[x] : t.criterion[x][s] \in DOMAIN Criteria[x]
      BY <1>1, <1>2, <1>3, <2>3 DEF TableOK
  <2> QED BY <1>1, <1>3, <2>1, <2>2, <2>3, <2>4, <2>5 DEF TableOK
<1>5. ASSUME NEW r \in Row, r \notin RowsOf(b)
      PROVE Kept(t, r)
  <2>1. RubricOf[r] \in Rubric /\ RubricOf[r] # b
      BY <1>5, LedgerAssumption DEF RowsOf
  <2>2. RulesNow(t, r) = RulesNow(table, r)
      BY <1>1, <1>2, <1>3, <2>1 DEF TableOK, RulesNow, Active
  <2>3. \A s \in RulesNow(table, r) : t.group[s] = table.group[s]
      BY <1>1, <1>2, <1>3, <2>1 DEF TableOK, RulesNow, Active
  <2> QED BY <1>1, <1>3, <2>1, <2>2, <2>3 DEF TableOK, Kept
<1>6. RowsOf(b) \in SUBSET Row
    BY DEF RowsOf
<1> QED BY <1>2, <1>4, <1>5, <1>6, EditStep

-----------------------------------------------------------------------------
(* The teacher and single submissions.                                     *)

LEMMA SetErrorExceptionStep ==
    ASSUME IInv, NEW r \in Row, NEW e \in Rule, NEW d \in {"exclude", "include"},
           SetErrorException(r, e, d)
    PROVE IInv'
<1> DEFINE t == [table EXCEPT !.exception[r][e] = d]
<1>1. /\ TableOK(table) /\ status \in [Row -> Status] /\ edits \in 0..MaxEdits
      /\ manual \subseteq Row /\ \A q \in manual : status[q] \in {"reviewed", "published"}
    BY DEF IInv, TypeOK
<1>2. /\ status[r] \in Open /\ table' = t /\ Computed(table', {r})
      /\ edits < MaxEdits /\ edits' = edits + 1
      /\ status' = [status EXCEPT ![r] = "reviewed"] /\ UNCHANGED <<found, class, manual, tariff>>
    BY DEF SetErrorException
<1>3. /\ DOMAIN t = DOMAIN table
      /\ t.active = table.active /\ t.dropped = table.dropped /\ t.group = table.group
      /\ t.listed = table.listed /\ t.criterion = table.criterion /\ t.price = table.price
      /\ t.waived = table.waived /\ t.blocked = table.blocked /\ t.noErrorOff = table.noErrorOff
      /\ t.exception = [table.exception EXCEPT ![r] = [@ EXCEPT ![e] = d]]
    BY <1>1 DEF TableOK
<1> HIDE DEF t
<1>4. TableOK(t)
    BY <1>1, <1>3 DEF TableOK
<1>5. ASSUME NEW q \in Row, q # r
      PROVE Kept(t, q)
    BY <1>1, <1>3, <1>5 DEF Kept, TableOK, RulesNow, Active
<1>6. status' \in [Row -> Status] /\ edits' \in 0..MaxEdits
    BY <1>1, <1>2, LedgerAssumption DEF Status
<1>7. \A q \in Row : status'[q] = IF q = r THEN "reviewed" ELSE status[q]
    BY <1>1, <1>2
<1>8. \A q \in manual' : status'[q] \in {"reviewed", "published"}
    BY <1>1, <1>2, <1>7
<1>9. \A q \in Row \ manual' :
         /\ status'[q] \in Open => status[q] \in Open /\ (q \in {r} \/ Kept(table', q))
         /\ status'[q] = "published" => status[q] = "published" /\ q \notin {r}
         /\ status'[q] \in {"auto", "sampled"} =>
                IF q \in {r} THEN Outcome(table', q) = "auto" ELSE status[q] \in {"auto", "sampled"}
    BY <1>2, <1>5, <1>7 DEF Open
<1>10. /\ DOMAIN basis' = Row /\ DOMAIN latest' = Row
       /\ \A q \in {r} : /\ basis'[q] = CaseNow(table', q)
                          /\ latest'[q] = Compute(CaseNow(table', q), PricesNow(table', q))
       /\ \A q \in Row \ {r} : basis'[q] = basis[q] /\ latest'[q] = latest[q]
    BY <1>2, ComputedRows
<1>11. /\ {r} \in SUBSET Row /\ TableOK(table') /\ UNCHANGED <<found, class, tariff>>
       /\ manual \subseteq manual' /\ manual' \subseteq Row
    BY <1>1, <1>2, <1>4
<1> QED BY <1>6, <1>8, <1>9, <1>10, <1>11, TableStep

(* A row of which nothing but its status changes, and that not to more     *)
(* than a look at it.                                                      *)
LEMMA QuietRow ==
    ASSUME IInv, NEW r \in Row \ manual, table' = table, found'[r] = found[r],
           latest'[r] = latest[r], basis'[r] = basis[r], tariff'[r] = tariff[r],
           \/ status'[r] = status[r]
           \/ status[r] \in Open /\ status'[r] = "reviewed"
           \/ status[r] = "auto" /\ status'[r] = "sampled"
    PROVE /\ status'[r] \in Open => OpenRow(r)'
          /\ status'[r] = "published" => PublishedRow(r)'
<1>1. ASSUME status'[r] \in Open PROVE OpenRow(r)'
  <2>1. status[r] \in Open
      BY <1>1 DEF Open
  <2>2. OpenRow(r)
      BY <2>1 DEF IInv
  <2>3. status'[r] \in {"auto", "sampled"} => status[r] \in {"auto", "sampled"}
      BY DEF Open
  <2> QED BY <2>2, <2>3 DEF OpenRow
<1>2. ASSUME status'[r] = "published" PROVE PublishedRow(r)'
  <2>1. PublishedRow(r)
      BY <1>2 DEF IInv
  <2> QED BY <2>1 DEF PublishedRow
<1> QED BY <1>1, <1>2

LEMMA SetManualScoreStep ==
    ASSUME IInv, NEW r \in Row, SetManualScore(r)
    PROVE IInv'
<1>1. TypeOK /\ \A q \in manual : status[q] \in {"reviewed", "published"}
    BY DEF IInv
<1>2. /\ manual' = manual \cup {r} /\ UNCHANGED <<table, found, class, latest, basis, tariff>>
      /\ edits' \in 0..MaxEdits
      /\ status' = [status EXCEPT ![r] = IF @ = "published" THEN @ ELSE "reviewed"]
    BY <1>1, LedgerAssumption DEF SetManualScore, TypeOK
<1>3. \A q \in Row : status'[q] = IF q = r /\ status[r] # "published" THEN "reviewed"
                                  ELSE status[q]
    BY <1>1, <1>2 DEF TypeOK
<1>4. TypeOK'
    BY <1>1, <1>2 DEF TypeOK, TableOK, Status
<1>5. \A q \in manual' : status'[q] \in {"reviewed", "published"}
    BY <1>1, <1>2, <1>3 DEF TypeOK
<1>6. ASSUME NEW q \in Row \ manual'
      PROVE /\ status'[q] \in Open => OpenRow(q)'
            /\ status'[q] = "published" => PublishedRow(q)'
    BY <1>2, <1>3, QuietRow
<1> QED BY <1>4, <1>5, <1>6 DEF IInv

LEMMA ConfirmVerdictStep ==
    ASSUME IInv, NEW r \in Row, ConfirmVerdict(r)
    PROVE IInv'
<1>1. TypeOK /\ \A q \in manual : status[q] \in {"reviewed", "published"}
    BY DEF IInv
<1>2. /\ UNCHANGED <<table, found, class, latest, basis, tariff, manual, edits>>
      /\ status[r] = "flagged" /\ status' = [status EXCEPT ![r] = "reviewed"]
    BY DEF ConfirmVerdict
<1>3. \A q \in Row : status'[q] = IF q = r THEN "reviewed" ELSE status[q]
    BY <1>1, <1>2 DEF TypeOK
<1>4. TypeOK'
    BY <1>1, <1>2 DEF TypeOK, TableOK, Status
<1>5. \A q \in manual' : status'[q] \in {"reviewed", "published"}
    BY <1>1, <1>2, <1>3 DEF TypeOK
<1>6. ASSUME NEW q \in Row \ manual'
      PROVE /\ status'[q] \in Open => OpenRow(q)'
            /\ status'[q] = "published" => PublishedRow(q)'
    BY <1>2, <1>3, QuietRow DEF Open
<1> QED BY <1>4, <1>5, <1>6 DEF IInv

(* The breakers that trip compute again every row they are about but the   *)
(* one just looked at, which is not approved automatically any more.       *)
LEMMA RecordAuditStep ==
    ASSUME IInv, NEW r \in Row, NEW off \in SUBSET Rule, NEW noError \in BOOLEAN,
           RecordAudit(r, off, noError)
    PROVE IInv'
<1> DEFINE t == [table EXCEPT !.blocked = @ \cup off, !.noErrorOff = @ \/ noError]
           again == {q \in Tripped(off, noError) \ {r} : Recomputable(q)}
<1>1. /\ TableOK(table) /\ status \in [Row -> Status] /\ edits \in 0..MaxEdits
      /\ manual \subseteq Row /\ \A q \in manual : status[q] \in {"reviewed", "published"}
    BY DEF IInv, TypeOK
<1>2. /\ status[r] = "sampled" /\ table' = t /\ Computed(table', again)
      /\ edits' = (IF off = {} /\ ~noError THEN edits ELSE edits + 1) /\ edits' <= MaxEdits
      /\ status' = [Moved(t, again) EXCEPT ![r] = "reviewed"]
      /\ UNCHANGED <<found, class, manual, tariff>>
    BY DEF RecordAudit
<1>3. /\ DOMAIN t = DOMAIN table
      /\ t.active = table.active /\ t.dropped = table.dropped /\ t.group = table.group
      /\ t.listed = table.listed /\ t.criterion = table.criterion /\ t.price = table.price
      /\ t.waived = table.waived /\ t.exception = table.exception
      /\ t.blocked = table.blocked \cup off /\ t.noErrorOff = (table.noErrorOff \/ noError)
    BY <1>1 DEF TableOK
<1>4. TableOK(t)
  <2>1. t.noErrorOff \in BOOLEAN
      BY <1>1, <1>3 DEF TableOK
  <2>2. t.blocked \in SUBSET Rule
      BY <1>1, <1>3 DEF TableOK
  <2> HIDE DEF t
  <2> QED BY <1>1, <1>3, <2>1, <2>2 DEF TableOK
<1>5. again \in SUBSET Row
    BY DEF Tripped
<1>6. \A q \in again : status[q] \in Open /\ q \notin manual /\ q # r
    BY DEF Recomputable
<1>7. \A q \in Row \ again : status[q] \in Open /\ q \notin manual /\ q # r =>
          ErrorsOf(q) \cap off = {} /\ ~(noError /\ ErrorsOf(q) = {})
    BY DEF Recomputable, Tripped
<1> HIDE DEF t, again
<1>8. \A q \in Row : status'[q] = IF q = r THEN "reviewed"
                                  ELSE IF q \in again THEN Settled(t, q) ELSE status[q]
    BY <1>2 DEF Moved
<1>9. ASSUME NEW q \in again
      PROVE /\ Settled(t, q) \in Open
            /\ Settled(t, q) \in {"auto", "sampled"} => Outcome(t, q) = "auto"
    BY <1>6 DEF Settled, Open
<1>10. status' \in [Row -> Status]
  <2>1. \A q \in Row : status'[q] \in Status
      BY <1>1, <1>8, <1>9 DEF Open, Status
  <2> QED BY <1>2, <2>1 DEF Moved
<1>11. \A q \in manual' : status'[q] \in {"reviewed", "published"}
    BY <1>1, <1>2, <1>6, <1>8
<1>12. ASSUME NEW q \in Row \ manual', q \notin again, status[q] \in Open
       PROVE Kept(t, q)
  <2>1. status'[q] \in {"auto", "sampled"} =>
          /\ ErrorsOf(q) \cap t.blocked \subseteq table.blocked
          /\ ErrorsOf(q) = {} /\ t.noErrorOff => table.noErrorOff
      BY <1>2, <1>3, <1>7, <1>8, <1>12
  <2>2. RulesNow(t, q) = RulesNow(table, q)
      BY <1>3 DEF RulesNow, Active
  <2> QED BY <1>3, <2>1, <2>2 DEF Kept
<1>13. \A q \in Row \ manual' :
         /\ status'[q] \in Open => status[q] \in Open /\ (q \in again \/ Kept(table', q))
         /\ status'[q] = "published" => status[q] = "published" /\ q \notin again
         /\ status'[q] \in {"auto", "sampled"} =>
                IF q \in again THEN Outcome(table', q) = "auto"
                ELSE status[q] \in {"auto", "sampled"}
    BY <1>2, <1>6, <1>8, <1>9, <1>12 DEF Open
<1>14. /\ DOMAIN basis' = Row /\ DOMAIN latest' = Row
       /\ \A q \in again : /\ basis'[q] = CaseNow(table', q)
                           /\ latest'[q] = Compute(CaseNow(table', q), PricesNow(table', q))
       /\ \A q \in Row \ again : basis'[q] = basis[q] /\ latest'[q] = latest[q]
    BY <1>2, <1>5, ComputedRows
<1>15. /\ TableOK(table') /\ UNCHANGED <<found, class, tariff>> /\ edits' \in 0..MaxEdits
       /\ manual \subseteq manual' /\ manual' \subseteq Row
    BY <1>1, <1>2, <1>4, LedgerAssumption
<1> QED BY <1>5, <1>10, <1>11, <1>13, <1>14, <1>15, TableStep

LEMMA ResetBreakerStep ==
    ASSUME IInv, ResetBreaker
    PROVE IInv'
<1>1. /\ TypeOK /\ TableOK(table) /\ edits \in 0..MaxEdits
      /\ \A q \in manual : status[q] \in {"reviewed", "published"}
    BY DEF IInv, TypeOK
<1>2. /\ UNCHANGED <<status, found, class, latest, basis, manual, tariff>>
      /\ edits' \in 0..MaxEdits
    BY <1>1, LedgerAssumption DEF ResetBreaker
<1>3. /\ DOMAIN table' = DOMAIN table
      /\ table'.active = table.active /\ table'.dropped = table.dropped
      /\ table'.group = table.group /\ table'.listed = table.listed
      /\ table'.criterion = table.criterion /\ table'.price = table.price
      /\ table'.waived = table.waived /\ table'.exception = table.exception
      /\ table'.blocked \subseteq table.blocked
      /\ table'.noErrorOff \in BOOLEAN
      /\ table'.noErrorOff => table.noErrorOff
  <2>1. CASE \E e \in table.blocked : table' = [table EXCEPT !.blocked = @ \ {e}]
      BY <1>1, <2>1 DEF TableOK
  <2>2. CASE table.noErrorOff /\ table' = [table EXCEPT !.noErrorOff = FALSE]
      BY <1>1, <2>2 DEF TableOK
  <2> QED BY <2>1, <2>2 DEF ResetBreaker
<1>4. TableOK(table')
    BY <1>1, <1>3 DEF TableOK
<1>5. ASSUME NEW q \in Row
      PROVE Kept(table', q)
  <2>1. RulesNow(table', q) = RulesNow(table, q)
      BY <1>3 DEF RulesNow, Active
  <2> QED BY <1>3, <2>1 DEF Kept
<1>6. status' \in [Row -> Status] /\ DOMAIN basis' = Row /\ DOMAIN latest' = Row
    BY <1>1, <1>2 DEF TypeOK
<1> DEFINE S == {r \in Row : FALSE}
<1>7. S \in SUBSET Row /\ S = {}
    OBVIOUS
<1>8. \A q \in Row \ manual' :
         /\ status'[q] \in Open => status[q] \in Open /\ (q \in S \/ Kept(table', q))
         /\ status'[q] = "published" => status[q] = "published" /\ q \notin S
         /\ status'[q] \in {"auto", "sampled"} =>
                IF q \in S THEN Outcome(table', q) = "auto" ELSE status[q] \in {"auto", "sampled"}
    BY <1>2, <1>5
<1>9. /\ UNCHANGED <<found, class, tariff>> /\ manual \subseteq manual' /\ manual' \subseteq Row
      /\ \A q \in manual' : status'[q] \in {"reviewed", "published"}
      /\ \A r \in S : /\ basis'[r] = CaseNow(table', r)
                      /\ latest'[r] = Compute(CaseNow(table', r), PricesNow(table', r))
      /\ \A r \in Row \ S : basis'[r] = basis[r] /\ latest'[r] = latest[r]
    BY <1>1, <1>2, <1>7 DEF TypeOK
<1> HIDE DEF S
<1> QED BY <1>2, <1>4, <1>6, <1>7, <1>8, <1>9, TableStep

-----------------------------------------------------------------------------
(* Grading and publishing.                                                 *)

LEMMA StartStep ==
    ASSUME IInv, NEW r \in Row, Start(r)
    PROVE IInv'
<1>1. TypeOK /\ \A q \in manual : status[q] \in {"reviewed", "published"}
    BY DEF IInv
<1>2. /\ UNCHANGED <<table, latest, basis, manual, tariff, edits>>
      /\ status[r] \in {"none", "system", "grading"}
      /\ status' = [status EXCEPT ![r] = "grading"]
      /\ class' = [class EXCEPT ![r] = "none"]
      /\ DOMAIN found' = DOMAIN found /\ \A q \in Row \ {r} : found'[q] = found[q]
    BY <1>1 DEF Start, TypeOK
<1>3. \A q \in Row : status'[q] = IF q = r THEN "grading" ELSE status[q]
    BY <1>1, <1>2 DEF TypeOK
<1>4. TypeOK'
    BY <1>1, <1>2 DEF TypeOK, TableOK, Status
<1>5. \A q \in manual' : status'[q] \in {"reviewed", "published"}
    BY <1>1, <1>2, <1>3 DEF TypeOK
<1>6. ASSUME NEW q \in Row \ manual'
      PROVE /\ status'[q] \in Open => OpenRow(q)'
            /\ status'[q] = "published" => PublishedRow(q)'
  <2>1. CASE q = r
      BY <1>3, <2>1 DEF Open
  <2>2. CASE q # r
      BY <1>2, <1>3, <2>2, QuietRow
  <2> QED BY <2>1, <2>2
<1> QED BY <1>4, <1>5, <1>6 DEF IInv

LEMMA FinishStep ==
    ASSUME IInv, NEW r \in Row, NEW inv \in Investigation, Finish(r, inv)
    PROVE IInv'
<1> DEFINE y == Stored(r, inv)
           R == RulesNow(table, r)
           x == CaseOf(table, y, r, R)
           p == PricesNow(table, r)
           verdict == Decide(Guarded(table, x), p)
<1>1. TypeOK /\ \A q \in manual : status[q] \in {"reviewed", "published"}
    BY DEF IInv
<1>2. /\ UNCHANGED <<table, manual, tariff, edits>> /\ status[r] = "grading"
      /\ DOMAIN found' = DOMAIN found /\ found'[r] = y
      /\ \A q \in Row \ {r} : found'[q] = found[q]
    BY <1>1 DEF Finish, TypeOK
<1>3. CaseFields \subseteq DOMAIN y
    BY LedgerAssumption DEF Stored
<1>4. x.rules = R
    BY <1>3, CaseOfFields
<1>5. r \notin manual
    BY <1>1, <1>2
<1>6. CASE ~Gradable(x)
  <2>1. /\ UNCHANGED <<basis, latest>>
        /\ \E why \in {"system", "submission"} :
              status' = [status EXCEPT ![r] = why] /\ class' = [class EXCEPT ![r] = why]
      BY <1>6 DEF Finish
  <2>2. /\ status' \in [Row -> Status] /\ status'[r] \in {"system", "submission"}
        /\ \A q \in Row \ {r} : status'[q] = status[q]
        /\ class' \in [Row -> {"none", "system", "submission"}]
      BY <1>1, <2>1 DEF TypeOK, Status
  <2>3. TypeOK'
      BY <1>1, <1>2, <2>1, <2>2 DEF TypeOK, TableOK
  <2>4. \A q \in manual' : status'[q] \in {"reviewed", "published"}
      BY <1>1, <1>2, <1>5, <2>2 DEF TypeOK
  <2>5. ASSUME NEW q \in Row \ manual'
        PROVE /\ status'[q] \in Open => OpenRow(q)'
              /\ status'[q] = "published" => PublishedRow(q)'
    <3>1. CASE q = r
        BY <2>2, <3>1 DEF Open
    <3>2. CASE q # r
        BY <1>2, <2>1, <2>2, <3>2, QuietRow
    <3> QED BY <3>1, <3>2
  <2> QED BY <2>3, <2>4, <2>5 DEF IInv
<1>7. CASE Gradable(x)
  <2> DEFINE st == [status EXCEPT ![r] = IF verdict = "auto" THEN "auto" ELSE "flagged"]
  <2>1. /\ basis' = [basis EXCEPT ![r] = x]
        /\ latest' = [latest EXCEPT ![r] = ComputeScore(x, p)]
        /\ \E D \in Sample(r, st) : status' = [q \in Row |-> IF q \in D THEN "sampled" ELSE st[q]]
        /\ UNCHANGED class
      BY <1>7 DEF Finish
  <2>2. PICK D \in Sample(r, st) : status' = [q \in Row |-> IF q \in D THEN "sampled" ELSE st[q]]
      BY <2>1
  <2>3. \A q \in D : q \in Row /\ st[q] = "auto"
      BY DEF Sample
  <2>4. /\ \A q \in Row \ {r} : status'[q] = status[q] \/ (status[q] = "auto" /\ status'[q] = "sampled")
        /\ status'[r] \in {"auto", "sampled", "flagged"}
        /\ status'[r] \in {"auto", "sampled"} => verdict = "auto"
      BY <1>1, <2>2, <2>3 DEF TypeOK
  <2>5. status' \in [Row -> Status]
    <3>1. \A q \in Row : status'[q] \in Status
        BY <1>1, <2>4 DEF TypeOK, Status
    <3> QED BY <2>2, <3>1
  <2>6. /\ DOMAIN basis' = Row /\ DOMAIN latest' = Row
        /\ basis'[r] = x /\ latest'[r] = ComputeScore(x, p)
        /\ \A q \in Row \ {r} : basis'[q] = basis[q] /\ latest'[q] = latest[q]
      BY <1>1, <2>1 DEF TypeOK
  <2>7. TypeOK'
      BY <1>1, <1>2, <2>1, <2>5, <2>6 DEF TypeOK, TableOK
  <2>8. \A q \in manual' : status'[q] \in {"reviewed", "published"}
      BY <1>1, <1>2, <1>5, <2>4 DEF TypeOK
  <2>9. OpenRow(r)'
    <3> HIDE DEF x, y, R, p
    <3>1. basis'[r].rules = R /\ R = RulesNow(table', r) /\ p = PricesOf(table', r, R)
        BY <1>2, <1>4, <2>6 DEF PricesNow, R, p
    <3>2. basis'[r] = CaseOf(table', found'[r], r, R)
        BY <1>2, <2>6 DEF x
    <3>3. latest'[r] = Compute(basis'[r], PricesOf(table', r, R))
        BY <1>7, <2>6, <3>1 DEF Compute
    <3>4. status'[r] \in {"auto", "sampled"} =>
              Decide(Guarded(table', basis'[r]), PricesOf(table', r, R)) = "auto"
        BY <1>2, <2>4, <2>6, <3>1
    <3> QED BY <1>2, <1>3, <3>1, <3>2, <3>3, <3>4 DEF OpenRow
  <2>10. ASSUME NEW q \in Row \ manual'
         PROVE /\ status'[q] \in Open => OpenRow(q)'
               /\ status'[q] = "published" => PublishedRow(q)'
    <3>1. CASE q = r
        BY <2>4, <2>9, <3>1
    <3>2. CASE q # r
        BY <1>2, <2>4, <2>6, <3>2, QuietRow
    <3> QED BY <3>1, <3>2
  <2> QED BY <2>7, <2>8, <2>10 DEF IInv
<1> QED BY <1>6, <1>7

(* The prices of the moment cover every rule of the computation.           *)
LEMMA FinalizeStep ==
    ASSUME IInv, NEW s, Finalize(s)
    PROVE IInv'
<1> DEFINE ready == {r \in Row : SessionOf[r] = s /\ status[r] # "none"
                                 /\ status[r] \in {"auto", "reviewed"}}
<1>1. TypeOK /\ \A q \in manual : status[q] \in {"reviewed", "published"}
    BY DEF IInv
<1>2. /\ UNCHANGED <<table, found, class, latest, basis, manual, edits>>
      /\ \A r \in ready : latest[r].score # NoScore \/ r \in manual
      /\ status' = [r \in Row |-> IF r \in ready THEN "published" ELSE status[r]]
      /\ tariff' = [r \in Row |-> IF r \in ready THEN PricesNow(table, r) ELSE tariff[r]]
    BY DEF Finalize
<1>3. \A r \in ready : r \in Row /\ status[r] \in {"auto", "reviewed"}
    OBVIOUS
<1> HIDE DEF ready
<1>4. TypeOK'
  <2>1. status' \in [Row -> Status]
      BY <1>1, <1>2 DEF TypeOK, Status
  <2>2. DOMAIN tariff' = Row
      BY <1>2
  <2> QED BY <1>1, <1>2, <2>1, <2>2 DEF TypeOK, TableOK
<1>5. \A q \in manual' : status'[q] \in {"reviewed", "published"}
    BY <1>1, <1>2 DEF TypeOK
<1>6. ASSUME NEW r \in Row \ manual', r \in ready
      PROVE PublishedRow(r)'
  <2> DEFINE x == basis[r]
             S == basis[r].rules
             p == PricesOf(table, r, S)
             q == PricesNow(table, r)
  <2>1. OpenRow(r)
      BY <1>2, <1>3, <1>6 DEF IInv, Open
  <2>2. latest[r] = Compute(x, p) /\ S \subseteq RulesNow(table, r)
      BY <2>1 DEF OpenRow
  <2>3. latest[r].score # NoScore
      BY <1>2, <1>6
  <2>4. latest[r] = ComputeScore(x, p)
      BY <2>2, <2>3 DEF Compute, Floor
  <2>5. \A e \in Errors(x) : p[e] = q[e]
      BY <2>2, ErrorsAreRules DEF PricesOf, PricesNow
  <2>6. ComputeScore(x, p) = ComputeScore(x, q)
      BY <2>5, PricesOfErrors
  <2>7. basis'[r] = x /\ latest'[r] = latest[r] /\ tariff'[r] = q
      BY <1>2, <1>6
  <2> HIDE DEF x, p, q
  <2> QED BY <2>4, <2>6, <2>7 DEF PublishedRow
<1>7. ASSUME NEW r \in Row \ manual'
      PROVE /\ status'[r] \in Open => OpenRow(r)'
            /\ status'[r] = "published" => PublishedRow(r)'
  <2>1. CASE r \in ready
      BY <1>2, <1>6, <2>1 DEF Open
  <2>2. CASE r \notin ready
      BY <1>2, <2>2, QuietRow
  <2> QED BY <2>1, <2>2
<1> QED BY <1>4, <1>5, <1>7 DEF IInv

(* New prices for a published session: repricing is computing anew.        *)
LEMMA ReapplyStep ==
    ASSUME IInv, NEW s, Reapply(s)
    PROVE IInv'
<1> DEFINE all == {r \in Row : SessionOf[r] = s /\ status[r] # "none"}
           rows == {r \in all : r \notin manual /\ latest[r].score # NoScore}
           changed == {r \in rows : RepricedRow(r).score # latest[r].score}
<1>1. TypeOK /\ \A q \in manual : status[q] \in {"reviewed", "published"}
    BY DEF IInv
<1>2. /\ \A r \in all : status[r] = "published"
      /\ latest' = [r \in Row |-> IF r \in changed THEN RepricedRow(r) ELSE latest[r]]
      /\ tariff' = [r \in Row |-> IF r \in rows THEN ReapplyPrices(r) ELSE tariff[r]]
      /\ UNCHANGED <<table, status, found, class, basis, manual, edits>>
    BY DEF Reapply
<1>3. /\ \A r \in rows : r \in Row /\ status[r] = "published"
      /\ \A r \in rows \ changed : RepricedRow(r).score = latest[r].score
      /\ changed \subseteq rows
    BY <1>2
<1> HIDE DEF all, rows, changed
<1>4. TypeOK'
  <2>1. DOMAIN latest' = Row /\ DOMAIN tariff' = Row
      BY <1>2
  <2> QED BY <1>1, <1>2, <2>1 DEF TypeOK, TableOK
<1>5. ASSUME NEW r \in Row \ manual', r \in rows
      PROVE PublishedRow(r)'
  <2> DEFINE q == ReapplyPrices(r)
  <2>1. PICK p : latest[r] = ComputeScore(basis[r], p)
      BY <1>2, <1>3, <1>5 DEF IInv, PublishedRow
  <2>2. Reprice(basis[r], latest[r], q) = ComputeScore(basis[r], q)
      BY <2>1, RepriceAsComputed
  <2>3. RepricedRow(r) = ComputeScore(basis[r], q)
      BY <2>2 DEF RepricedRow
  <2>4. basis'[r] = basis[r] /\ tariff'[r] = q
      BY <1>2, <1>5
  <2> HIDE DEF q
  <2>5. CASE r \in changed
    <3>1. latest'[r] = ComputeScore(basis[r], q)
        BY <1>2, <2>3, <2>5
    <3> QED BY <2>4, <3>1 DEF PublishedRow
  <2>6. CASE r \notin changed
    <3>1. latest'[r] = latest[r] /\ latest[r].score = ComputeScore(basis[r], q).score
        BY <1>2, <1>3, <1>5, <2>3, <2>6
    <3> QED BY <2>1, <2>4, <3>1 DEF PublishedRow
  <2> QED BY <2>5, <2>6
<1>6. ASSUME NEW r \in Row \ manual'
      PROVE /\ status'[r] \in Open => OpenRow(r)'
            /\ status'[r] = "published" => PublishedRow(r)'
  <2>1. CASE r \in rows
      BY <1>2, <1>3, <1>5, <2>1 DEF Open
  <2>2. CASE r \notin rows
      BY <1>2, <1>3, <2>2, QuietRow
  <2> QED BY <2>1, <2>2
<1> QED BY <1>1, <1>2, <1>4, <1>6 DEF IInv

-----------------------------------------------------------------------------
(* The theorems.                                                           *)

LEMMA InvInit ==
    ASSUME Init PROVE IInv
<1>1. \A r \in Row : status[r] = "none"
    BY DEF Init
<1>2. TypeOK
    BY LedgerAssumption DEF Init, TypeOK, Blank, Status
<1> QED BY <1>1, <1>2 DEF IInv, Init, Open

LEMMA InvNext ==
    ASSUME IInv, Next PROVE IInv'
<1>1. CASE RuleEdit
    BY <1>1, SetPriceStep, MoveStep, RemoveStep, AssignStep, SplitStep, CopyStep,
       WaiveStep, DropStep, ReviseStep DEF RuleEdit
<1>2. CASE \E r \in Row :
             \/ Start(r) \/ \E inv \in Investigation : Finish(r, inv)
             \/ \E e \in Rule, d \in {"exclude", "include"} : SetErrorException(r, e, d)
             \/ SetManualScore(r) \/ ConfirmVerdict(r)
             \/ \E off \in SUBSET Rule, noError \in BOOLEAN : RecordAudit(r, off, noError)
    BY <1>2, StartStep, FinishStep, SetErrorExceptionStep, SetManualScoreStep,
       ConfirmVerdictStep, RecordAuditStep
<1>3. CASE ResetBreaker
    BY <1>3, ResetBreakerStep
<1>4. CASE \E r \in Row : Finalize(SessionOf[r]) \/ Reapply(SessionOf[r])
    BY <1>4, FinalizeStep, ReapplyStep
<1> QED BY <1>1, <1>2, <1>3, <1>4 DEF Next

LEMMA InvStutter ==
    ASSUME IInv, UNCHANGED vars PROVE IInv'
<1>1. /\ TypeOK' /\ \A r \in manual' : status'[r] \in {"reviewed", "published"}
    BY DEF IInv, vars, TypeOK, TableOK
<1>2. ASSUME NEW r \in Row \ manual'
      PROVE /\ status'[r] \in Open => OpenRow(r)'
            /\ status'[r] = "published" => PublishedRow(r)'
    BY <1>2, QuietRow DEF vars
<1> QED BY <1>1, <1>2 DEF IInv

(* Every behaviour keeps the inductive invariant.                          *)
THEOREM Inductive == Spec => []IInv
<1>1. Init => IInv
    BY InvInit
<1>2. IInv /\ [Next]_vars => IInv'
    BY InvNext, InvStutter
<1> QED BY <1>1, <1>2, PTL DEF Spec

(* The types of the teacher's table and of the rows: no rubric lists a     *)
(* rule under a criterion it does not have, nor one that never existed.    *)
THEOREM TypeCorrect == Spec => []TypeOK
<1>1. IInv => TypeOK
    BY DEF IInv
<1> QED BY <1>1, Inductive, PTL

(* recomputeForTeacher, with the scope each caller gives it: the latest    *)
(* computation of an open row is what its case comes to on today's table.  *)
THEOREM OpenRowsFollow == Spec => []OpenFollowsTable
<1>1. ASSUME IInv PROVE OpenFollowsTable
  <2> SUFFICES ASSUME NEW r \in Row \ manual, status[r] \in Open
               PROVE LET S == basis[r].rules IN
                     /\ S \subseteq RulesNow(table, r)
                     /\ \A e \in RulesNow(table, r) \ S : ~Machine(table, e)
                     /\ latest[r] = Compute(CaseOf(table, found[r], r, S), PricesOf(table, r, S))
      BY DEF OpenFollowsTable
  <2>1. OpenRow(r)
      BY <1>1 DEF IInv
  <2> QED BY <2>1 DEF OpenRow
<1> QED BY <1>1, Inductive, PTL

(* AutoBreakerService and every edit: what is approved automatically would *)
(* be approved today.                                                      *)
THEOREM AutoIsEarned == Spec => []AutoStillEarned
<1>1. ASSUME IInv PROVE AutoStillEarned
  <2> SUFFICES ASSUME NEW r \in Row, status[r] \in {"auto", "sampled"}
               PROVE LET S == basis[r].rules IN
                     Decide(Guarded(table, CaseOf(table, found[r], r, S)),
                            PricesOf(table, r, S)) = "auto"
      BY DEF AutoStillEarned
  <2>1. r \notin manual /\ OpenRow(r)
      BY <1>1 DEF IInv, Open
  <2> QED BY <2>1 DEF OpenRow
<1> QED BY <1>1, Inductive, PTL

(* finalizeGrades and reapplyFinalizedSession: a published score is that   *)
(* of the case that was published, at the prices it was promised.          *)
THEOREM PublishedKept == Spec => []PublishedAsPromised
<1>1. IInv => PublishedAsPromised
    BY DEF IInv, PublishedRow, PublishedAsPromised
<1> QED BY <1>1, Inductive, PTL

-----------------------------------------------------------------------------
(* No edit touches the computation of a published row.                     *)
LEMMA EditLeavesPublished ==
    ASSUME NEW t, NEW S, Edit(t, S), NEW r \in Row, status[r] = "published"
    PROVE latest'[r] = latest[r]
BY DEF Edit, Computed, Recomputable, Open

LEMMA PublishedStep ==
    ASSUME TypeOK, Next, NEW r \in Row, status[r] = "published"
    PROVE latest'[r] = latest[r] \/ \E q \in Row : Reapply(SessionOf[q])
<1>1. ASSUME RuleEdit PROVE latest'[r] = latest[r]
  <2>1. ASSUME NEW b, NEW e, NEW d, SetPrice(b, e, d) PROVE latest'[r] = latest[r]
      BY <2>1, EditLeavesPublished DEF SetPrice
  <2>2. ASSUME NEW b, NEW e, NEW c, Move(b, e, c) PROVE latest'[r] = latest[r]
      BY <2>2, EditLeavesPublished DEF Move
  <2>3. ASSUME NEW b, NEW e, Remove(b, e) PROVE latest'[r] = latest[r]
      BY <2>3, EditLeavesPublished DEF Remove
  <2>4. ASSUME NEW b, NEW e, NEW c, NEW g, NEW prices, Assign(b, e, c, g, prices) PROVE latest'[r] = latest[r]
      BY <2>4, EditLeavesPublished DEF Assign
  <2>5. ASSUME NEW b, NEW e, NEW n, NEW g, Split(b, e, n, g) PROVE latest'[r] = latest[r]
      BY <2>5, EditLeavesPublished DEF Split
  <2>6. ASSUME NEW a, NEW b, Copy(a, b) PROVE latest'[r] = latest[r]
      BY <2>6, EditLeavesPublished DEF Copy
  <2>7. ASSUME NEW b, NEW c, Waive(b, c) PROVE latest'[r] = latest[r]
      BY <2>7, EditLeavesPublished DEF Waive
  <2>8. ASSUME NEW e, Drop(e) PROVE latest'[r] = latest[r]
      BY <2>8, EditLeavesPublished DEF Drop
  <2>9. ASSUME NEW e, NEW g, Revise(e, g) PROVE latest'[r] = latest[r]
      BY <2>9, EditLeavesPublished DEF Revise
  <2> QED BY <1>1, <2>1, <2>2, <2>3, <2>4, <2>5, <2>6, <2>7, <2>8, <2>9 DEF RuleEdit
<1>2. ASSUME NEW q \in Row, NEW e \in Rule, NEW d, SetErrorException(q, e, d)
      PROVE latest'[r] = latest[r]
    BY <1>2 DEF SetErrorException, Computed, Open
<1>3. ASSUME NEW q \in Row, NEW off, NEW noError, RecordAudit(q, off, noError)
      PROVE latest'[r] = latest[r]
    BY <1>3 DEF RecordAudit, Computed, Recomputable, Open
<1>4. ASSUME NEW q \in Row, NEW inv, Finish(q, inv)
      PROVE latest'[r] = latest[r]
  <2>1. q # r /\ DOMAIN latest = Row
      BY <1>4 DEF Finish, TypeOK
  <2>2. \/ latest' = latest
        \/ \E v : latest' = [latest EXCEPT ![q] = v]
      BY <1>4 DEF Finish
  <2> QED BY <2>1, <2>2
<1>5. ASSUME NEW q \in Row,
             \/ Start(q) \/ SetManualScore(q) \/ ConfirmVerdict(q)
             \/ ResetBreaker \/ Finalize(SessionOf[q])
      PROVE latest'[r] = latest[r]
    BY <1>5 DEF Start, SetManualScore, ConfirmVerdict, ResetBreaker, Finalize
<1> QED BY <1>1, <1>2, <1>3, <1>4, <1>5 DEF Next

LEMMA ReapplyCharges ==
    ASSUME NEW s, Reapply(s), NEW r \in Row \ manual, status[r] = "published",
           NEW e \in ErrorsOf(r), latest[r].counted[e] = "counted"
    PROVE latest'[r].counted[e] = "counted"
<1> DEFINE rows == {q \in Row : /\ SessionOf[q] = s /\ status[q] # "none"
                               /\ q \notin manual /\ latest[q].score # NoScore}
           q == ReapplyPrices(r)
<1>1. CASE latest'[r] = latest[r]
    BY <1>1
<1>2. CASE latest'[r] # latest[r]
  <2>1. r \in rows /\ latest'[r] = RepricedRow(r) /\ NewlyUnpriced(latest[r], q) = {}
      BY <1>2 DEF Reapply, Refused
  <2>2. latest'[r].counted = Repriced(latest[r].counted, q)
      BY <2>1 DEF RepricedRow, Reprice
  <2>3. e \in DOMAIN latest[r].counted
      BY DEF ErrorsOf
  <2>4. Repriced(latest[r].counted, q)[e] \in {"counted", "unpriced"}
      BY <2>3 DEF Repriced
  <2>5. Repriced(latest[r].counted, q)[e] # "unpriced"
      BY <2>1, <2>3 DEF NewlyUnpriced
  <2> QED BY <2>2, <2>4, <2>5
<1> QED BY <1>1, <1>2

(* reapplyFinalizedSession: an error charged in a published grade stays    *)
(* charged.                                                                *)
THEOREM NothingFreed == Spec => NothingBecomesFree
<1> DEFINE Stays == \A r \in Row \ manual : status[r] = "published" =>
                \A e \in ErrorsOf(r) : latest[r].counted[e] = "counted" =>
                    latest'[r].counted[e] = "counted"
<1>1. TypeOK /\ Next => Stays
    BY PublishedStep, ReapplyCharges
<1>2. TypeOK /\ [Next]_vars => [Stays]_vars
    BY <1>1
<1>3. Spec => [][Stays]_vars
    BY <1>2, TypeCorrect, PTL DEF Spec
<1> QED BY <1>3 DEF NothingBecomesFree

-----------------------------------------------------------------------------
(* Sums.  What a computation is worth follows from ScoringProofs and       *)
(* SumProofs, given that it was made from a rubric, rules and prices that  *)
(* can be added up.                                                        *)

(* A row that has a score has it from its case, at some prices.            *)
Scored(r) ==
    latest[r].score # NoScore =>
        /\ basis[r].rubric = Criteria[RubricOf[r]] /\ basis[r].rules \subseteq Rule
        /\ \E p : Priceable(basis[r], p) /\ latest[r] = ComputeScore(basis[r], p)

SumInv ==
    /\ \A r \in Row : status[r] \notin {"none", "grading"} => CaseFields \subseteq DOMAIN found[r]
    /\ \A r \in Row : Scored(r)
    /\ \A r \in Row \ manual : status[r] = "published" => Priceable(basis[r], tariff[r])

(* Prices from the teacher's table, or none, for the errors of a case on   *)
(* the rubric of a row.                                                    *)
LEMMA PriceableByTable ==
    ASSUME NEW x, NEW p, NEW r \in Row,
           x.rubric = Criteria[RubricOf[r]], x.rules \subseteq Rule,
           \A e \in Errors(x) : p[e] \in Nat \cup {Unpriced}
    PROVE Priceable(x, p)
<1>1. RubricOf[r] \in Rubric
    BY LedgerAssumption
<1>2. IsFiniteSet(DOMAIN x.rubric) /\ \A c \in DOMAIN x.rubric : x.rubric[c] \in Nat
    BY <1>1, LedgerAssumption
<1>3. IsFiniteSet(x.rules)
    BY LedgerAssumption, FS_Subset
<1> QED BY <1>2, <1>3 DEF Priceable

(* A computation on the table of the moment.                               *)
LEMMA ComputedIsScored ==
    ASSUME NEW t, TableOK(t), NEW r \in Row, NEW x, CaseFields \subseteq DOMAIN x
    PROVE LET c == CaseOf(t, x, r, RulesNow(t, r)) IN
          /\ c.rubric = Criteria[RubricOf[r]] /\ c.rules \subseteq Rule
          /\ Priceable(c, PricesNow(t, r))
          /\ Compute(c, PricesNow(t, r)).score # NoScore =>
                Compute(c, PricesNow(t, r)) = ComputeScore(c, PricesNow(t, r))
<1> DEFINE R == RulesNow(t, r)
           c == CaseOf(t, x, r, R)
           p == PricesNow(t, r)
<1>1. c.rubric = Criteria[RubricOf[r]] /\ c.rules = R
    BY DEF CaseOf, CaseFields
<1>2. RubricOf[r] \in Rubric
    BY LedgerAssumption
<1>3. R \subseteq Rule
    BY <1>2 DEF TableOK, RulesNow, Active
<1>4. \A e \in R : p[e] \in Nat \cup {Unpriced}
    BY <1>2, <1>3 DEF TableOK, PricesNow, PricesOf
<1>5. \A e \in Errors(c) : p[e] \in Nat \cup {Unpriced}
    BY <1>1, <1>4, ErrorsAreRules
<1> HIDE DEF c, p, R
<1>6. Priceable(c, p)
    BY <1>1, <1>3, <1>5, PriceableByTable
<1>7. Compute(c, p).score # NoScore => Compute(c, p) = ComputeScore(c, p)
    BY DEF Compute, Floor
<1> QED BY <1>1, <1>3, <1>6, <1>7 DEF c, p, R

(* The prices a published session gets: those of the table, or none.       *)
LEMMA ReapplyIsScored ==
    ASSUME TableOK(table), NEW r \in Row, Scored(r), latest[r].score # NoScore
    PROVE /\ Priceable(basis[r], ReapplyPrices(r))
          /\ RepricedRow(r) = ComputeScore(basis[r], ReapplyPrices(r))
          /\ Charged(Counted(basis[r], ReapplyPrices(r))) = Charged(latest[r].counted)
<1> DEFINE x == basis[r]
           q == ReapplyPrices(r)
<1>1. PICK p : Priceable(x, p) /\ latest[r] = ComputeScore(x, p)
    BY DEF Scored
<1>2. x.rubric = Criteria[RubricOf[r]] /\ x.rules \subseteq Rule
    BY DEF Scored
<1>3. latest[r].counted = Counted(x, p) /\ ErrorsOf(r) = Errors(x)
    BY <1>1 DEF ComputeScore, Counted, ErrorsOf
<1>4. RubricOf[r] \in Rubric /\ Errors(x) \subseteq Rule
    BY <1>2, LedgerAssumption, ErrorsAreRules
<1>5. \A e \in Errors(x) : q[e] \in Nat \cup {Unpriced}
    BY <1>3, <1>4 DEF ReapplyPrices, TableOK
<1>6. Priceable(x, q)
    BY <1>2, <1>5, PriceableByTable
<1>7. RepricedRow(r) = ComputeScore(x, q)
    BY <1>1, RepriceAsComputed DEF RepricedRow
<1>8. Charged(Counted(x, q)) = Charged(Counted(x, p))
    BY DEF Charged, Counted
<1> QED BY <1>3, <1>6, <1>7, <1>8

(* What a step may do to the computation of a row: nothing, make it anew   *)
(* on the table it leaves behind, or apply new prices to it.               *)
Recomputes(r) ==
    /\ status'[r] \notin {"none", "grading"} /\ CaseFields \subseteq DOMAIN found'[r]
    /\ basis'[r] = CaseOf(table', found'[r], r, RulesNow(table', r))
    /\ latest'[r] = Compute(basis'[r], PricesNow(table', r))

Reapplied(r) ==
    /\ status[r] = "published" /\ r \notin manual /\ latest[r].score # NoScore
    /\ UNCHANGED table /\ basis'[r] = basis[r] /\ tariff'[r] = ReapplyPrices(r)
    /\ \/ latest'[r] = RepricedRow(r)
       \/ latest'[r] = latest[r] /\ RepricedRow(r).score = latest[r].score

Untouched(r) == latest'[r] = latest[r] /\ basis'[r] = basis[r] /\ tariff'[r] = tariff[r]

(* A row that is published in this step, with the prices of the table.     *)
Publishes(r) ==
    /\ status[r] \in {"auto", "reviewed"} /\ status'[r] = "published"
    /\ latest[r].score # NoScore \/ r \in manual
    /\ UNCHANGED table /\ latest'[r] = latest[r] /\ basis'[r] = basis[r]
    /\ tariff'[r] = PricesNow(table, r)

(* The ways of a row: its investigation stays but for grading, a published *)
(* row stays published, and nothing else becomes one.                      *)
RowStep(r) ==
    /\ status'[r] \notin {"none", "grading"} =>
          \/ status[r] \notin {"none", "grading"} /\ found'[r] = found[r]
          \/ CaseFields \subseteq DOMAIN found'[r]
    /\ \/ Recomputes(r) /\ status'[r] # "published"
       \/ Untouched(r) /\ (status'[r] = "published" => status[r] = "published")
       \/ Reapplied(r) /\ status'[r] = "published"
       \/ Publishes(r)

LEMMA EditRowStep ==
    ASSUME IInv, SumInv, NEW t, NEW S \in SUBSET Row, Edit(t, S)
    PROVE \A r \in Row : RowStep(r)
<1> DEFINE again == {q \in S : Recomputable(q)}
<1>1. /\ table' = t /\ Computed(t, again) /\ status' = Moved(t, again)
      /\ UNCHANGED <<found, manual, tariff>>
    BY DEF Edit
<1>2. again \in SUBSET Row /\ \A r \in again : status[r] \in Open
    BY DEF Recomputable
<1> HIDE DEF again
<1>3. ASSUME NEW r \in again PROVE RowStep(r)
  <2>1. status'[r] \in Open
      BY <1>1, <1>2, <1>3 DEF Moved, Settled, Open
  <2>2. CaseFields \subseteq DOMAIN found[r]
      BY <1>2, <1>3 DEF SumInv, Open
  <2>3. /\ basis'[r] = CaseNow(table', r)
        /\ latest'[r] = Compute(CaseNow(table', r), PricesNow(table', r))
      BY <1>1, <1>2, <1>3, ComputedRows
  <2>4. Recomputes(r)
      BY <1>1, <2>1, <2>2, <2>3 DEF Recomputes, CaseNow, Open
  <2> QED BY <1>1, <2>1, <2>2, <2>4 DEF RowStep, Open
<1>4. ASSUME NEW r \in Row \ again PROVE RowStep(r)
  <2>1. status'[r] = status[r] /\ found'[r] = found[r] /\ Untouched(r)
      BY <1>1, <1>2, <1>4, ComputedRows DEF Moved, Untouched
  <2> QED BY <2>1 DEF RowStep
<1> QED BY <1>3, <1>4

LEMMA RuleEditRowStep ==
    ASSUME IInv, SumInv, RuleEdit
    PROVE \A r \in Row : RowStep(r)
<1>1. \A b : RowsOf(b) \in SUBSET Row /\ \A e : RowsWith(b, e) \in SUBSET Row
    BY DEF RowsOf, RowsWith
<1>2. \A t, b, e : Measurable(t, b, e) \in SUBSET Row
    BY <1>1 DEF Measurable
<1>3. \E t, S : S \in SUBSET Row /\ Edit(t, S)
  <2>1. ASSUME NEW b, NEW e, NEW d, SetPrice(b, e, d) PROVE \E t, S : S \in SUBSET Row /\ Edit(t, S)
      BY <1>1, <2>1 DEF SetPrice
  <2>2. ASSUME NEW b, NEW e, NEW c, Move(b, e, c) PROVE \E t, S : S \in SUBSET Row /\ Edit(t, S)
      BY <1>1, <2>2 DEF Move
  <2>3. ASSUME NEW b, NEW e, Remove(b, e) PROVE \E t, S : S \in SUBSET Row /\ Edit(t, S)
      BY <1>1, <2>3 DEF Remove
  <2>4. ASSUME NEW b, NEW e, NEW c, NEW g, NEW prices, Assign(b, e, c, g, prices)
        PROVE \E t, S : S \in SUBSET Row /\ Edit(t, S)
      BY <1>2, <2>4 DEF Assign
  <2>5. ASSUME NEW b, NEW e, NEW n, NEW g, Split(b, e, n, g) PROVE \E t, S : S \in SUBSET Row /\ Edit(t, S)
      BY <1>1, <2>5 DEF Split
  <2>6. ASSUME NEW a, NEW b, Copy(a, b) PROVE \E t, S : S \in SUBSET Row /\ Edit(t, S)
      BY <1>1, <2>6 DEF Copy
  <2>7. ASSUME NEW b, NEW c, Waive(b, c) PROVE \E t, S : S \in SUBSET Row /\ Edit(t, S)
      BY <1>1, <2>7 DEF Waive
  <2>8. ASSUME NEW e, Drop(e) PROVE \E t, S : S \in SUBSET Row /\ Edit(t, S)
      BY <2>8 DEF Drop
  <2>9. ASSUME NEW e, NEW g, Revise(e, g) PROVE \E t, S : S \in SUBSET Row /\ Edit(t, S)
      BY <2>9 DEF Revise
  <2> QED BY <2>1, <2>2, <2>3, <2>4, <2>5, <2>6, <2>7, <2>8, <2>9 DEF RuleEdit
<1> QED BY <1>3, EditRowStep

LEMMA FinishRowStep ==
    ASSUME IInv, NEW q \in Row, NEW inv \in Investigation, Finish(q, inv)
    PROVE \A r \in Row : RowStep(r)
<1> DEFINE y == Stored(q, inv)
           R == RulesNow(table, q)
           x == CaseOf(table, y, q, R)
           p == PricesNow(table, q)
<1>1. TypeOK
    BY DEF IInv
<1>2. /\ UNCHANGED <<table, manual, tariff>> /\ status[q] = "grading"
      /\ found'[q] = y /\ \A r \in Row \ {q} : found'[r] = found[r]
    BY <1>1 DEF Finish, TypeOK
<1>3. CaseFields \subseteq DOMAIN y
    BY LedgerAssumption DEF Stored
<1>4. CASE ~Gradable(x)
  <2>1. UNCHANGED <<basis, latest>> /\ \E why \in {"system", "submission"} : status' = [status EXCEPT ![q] = why]
      BY <1>4 DEF Finish
  <2>2. /\ status'[q] \in {"system", "submission"}
        /\ \A r \in Row \ {q} : status'[r] = status[r]
      BY <1>1, <2>1 DEF TypeOK
  <2> QED BY <1>2, <1>3, <2>1, <2>2 DEF RowStep, Untouched
<1>5. CASE Gradable(x)
  <2> DEFINE st == [status EXCEPT ![q] =
                IF Decide(Guarded(table, x), p) = "auto" THEN "auto" ELSE "flagged"]
  <2>1. /\ basis' = [basis EXCEPT ![q] = x]
        /\ latest' = [latest EXCEPT ![q] = ComputeScore(x, p)]
        /\ \E D \in Sample(q, st) : status' = [r \in Row |-> IF r \in D THEN "sampled" ELSE st[r]]
      BY <1>5 DEF Finish
  <2>2. PICK D \in Sample(q, st) : status' = [r \in Row |-> IF r \in D THEN "sampled" ELSE st[r]]
      BY <2>1
  <2>3. \A r \in D : r \in Row /\ st[r] = "auto"
      BY DEF Sample
  <2>4. /\ \A r \in Row \ {q} : \/ status'[r] = status[r]
                                \/ status[r] = "auto" /\ status'[r] = "sampled"
        /\ status'[q] \in {"auto", "sampled", "flagged"}
      BY <1>1, <2>2, <2>3 DEF TypeOK
  <2>5. /\ basis'[q] = x /\ latest'[q] = Compute(x, p)
        /\ \A r \in Row \ {q} : basis'[r] = basis[r] /\ latest'[r] = latest[r]
      BY <1>1, <1>5, <2>1 DEF TypeOK, Compute
  <2>6. Recomputes(q)
      BY <1>2, <1>3, <2>4, <2>5 DEF Recomputes
  <2>7. RowStep(q)
      BY <1>2, <1>3, <2>4, <2>6 DEF RowStep
  <2>8. ASSUME NEW r \in Row \ {q} PROVE RowStep(r)
      BY <1>2, <2>4, <2>5 DEF RowStep, Untouched
  <2> QED BY <2>7, <2>8
<1> QED BY <1>4, <1>5

LEMMA SetErrorExceptionRowStep ==
    ASSUME IInv, SumInv, NEW q \in Row, NEW e, NEW d, SetErrorException(q, e, d)
    PROVE \A r \in Row : RowStep(r)
<1>1. /\ status[q] \in Open /\ Computed(table', {q})
      /\ status' = [status EXCEPT ![q] = "reviewed"] /\ UNCHANGED <<found, manual, tariff>>
    BY DEF SetErrorException
<1>2. \A r \in Row : status'[r] = IF r = q THEN "reviewed" ELSE status[r]
    BY <1>1 DEF IInv, TypeOK
<1>3. CaseFields \subseteq DOMAIN found[q]
    BY <1>1 DEF SumInv, Open
<1>4. Recomputes(q)
    BY <1>1, <1>2, <1>3, ComputedRows DEF Recomputes, CaseNow
<1>5. ASSUME NEW r \in Row \ {q} PROVE Untouched(r) /\ status'[r] = status[r] /\ found'[r] = found[r]
    BY <1>1, <1>2, ComputedRows DEF Untouched
<1> QED BY <1>1, <1>2, <1>3, <1>4, <1>5 DEF RowStep

LEMMA RecordAuditRowStep ==
    ASSUME IInv, SumInv, NEW q \in Row, NEW off, NEW noError, RecordAudit(q, off, noError)
    PROVE \A r \in Row : RowStep(r)
<1> DEFINE again == {r \in Tripped(off, noError) \ {q} : Recomputable(r)}
<1>1. /\ status[q] = "sampled" /\ Computed(table', again)
      /\ status' = [Moved(table', again) EXCEPT ![q] = "reviewed"]
      /\ UNCHANGED <<found, manual, tariff>>
    BY DEF RecordAudit
<1>2. again \in SUBSET Row /\ q \notin again /\ \A r \in again : status[r] \in Open
    BY DEF Recomputable, Tripped
<1> HIDE DEF again
<1>3. \A r \in Row : status'[r] = IF r = q THEN "reviewed"
                                  ELSE IF r \in again THEN Settled(table', r) ELSE status[r]
    BY <1>1 DEF Moved
<1>4. ASSUME NEW r \in again PROVE RowStep(r)
  <2>1. status'[r] \in Open
      BY <1>2, <1>3, <1>4 DEF Settled, Open
  <2>2. CaseFields \subseteq DOMAIN found[r]
      BY <1>2, <1>4 DEF SumInv, Open
  <2>3. Recomputes(r)
      BY <1>1, <1>2, <1>4, <2>1, <2>2, ComputedRows DEF Recomputes, CaseNow, Open
  <2> QED BY <1>1, <2>1, <2>2, <2>3 DEF RowStep, Open
<1>5. ASSUME NEW r \in Row \ again PROVE RowStep(r)
  <2>1. Untouched(r) /\ found'[r] = found[r]
      BY <1>1, <1>2, ComputedRows DEF Untouched
  <2>2. status'[r] = status[r] \/ (status[r] = "sampled" /\ status'[r] = "reviewed")
      BY <1>1, <1>3
  <2> QED BY <2>1, <2>2 DEF RowStep
<1> QED BY <1>4, <1>5

LEMMA FinalizeRowStep ==
    ASSUME IInv, NEW s, Finalize(s)
    PROVE \A r \in Row : RowStep(r)
<1> DEFINE ready == {r \in Row : SessionOf[r] = s /\ status[r] # "none"
                                 /\ status[r] \in {"auto", "reviewed"}}
<1>1. /\ UNCHANGED <<table, found, latest, basis, manual>>
      /\ \A r \in ready : latest[r].score # NoScore \/ r \in manual
      /\ status' = [r \in Row |-> IF r \in ready THEN "published" ELSE status[r]]
      /\ tariff' = [r \in Row |-> IF r \in ready THEN PricesNow(table, r) ELSE tariff[r]]
    BY DEF Finalize
<1>2. \A r \in ready : status[r] \in {"auto", "reviewed"}
    OBVIOUS
<1> HIDE DEF ready
<1>3. ASSUME NEW r \in ready \cap Row PROVE RowStep(r)
    BY <1>1, <1>2 DEF RowStep, Publishes
<1>4. ASSUME NEW r \in Row \ ready PROVE RowStep(r)
    BY <1>1 DEF RowStep, Untouched
<1> QED BY <1>3, <1>4

LEMMA ReapplyRowStep ==
    ASSUME IInv, NEW s, Reapply(s)
    PROVE \A r \in Row : RowStep(r)
<1> DEFINE all == {r \in Row : SessionOf[r] = s /\ status[r] # "none"}
           rows == {r \in all : r \notin manual /\ latest[r].score # NoScore}
           changed == {r \in rows : RepricedRow(r).score # latest[r].score}
<1>1. /\ \A r \in all : status[r] = "published"
      /\ latest' = [r \in Row |-> IF r \in changed THEN RepricedRow(r) ELSE latest[r]]
      /\ tariff' = [r \in Row |-> IF r \in rows THEN ReapplyPrices(r) ELSE tariff[r]]
      /\ UNCHANGED <<table, status, found, basis, manual>>
    BY DEF Reapply
<1>2. /\ \A r \in rows : status[r] = "published" /\ r \notin manual /\ latest[r].score # NoScore
      /\ \A r \in rows \ changed : RepricedRow(r).score = latest[r].score
      /\ changed \subseteq rows
    BY <1>1
<1> HIDE DEF all, rows, changed
<1>3. ASSUME NEW r \in Row, r \in rows PROVE RowStep(r)
  <2>1. Reapplied(r)
      BY <1>1, <1>2, <1>3 DEF Reapplied
  <2> QED BY <1>1, <1>2, <1>3, <2>1 DEF RowStep
<1>4. ASSUME NEW r \in Row, r \notin rows PROVE RowStep(r)
    BY <1>1, <1>2, <1>4 DEF RowStep, Untouched
<1> QED BY <1>3, <1>4

LEMMA NextRowStep ==
    ASSUME IInv, SumInv, [Next]_vars
    PROVE \A r \in Row : RowStep(r)
<1>1. TypeOK
    BY DEF IInv
<1>2. ASSUME UNCHANGED <<found, latest, basis, tariff>>,
             \A r \in Row : \/ status'[r] = status[r] \/ status'[r] = "grading"
                            \/ status[r] \notin {"none", "grading"} /\ status'[r] = "reviewed"
      PROVE \A r \in Row : RowStep(r)
    BY <1>2 DEF RowStep, Untouched
<1>3. ASSUME NEW q \in Row, Start(q) PROVE \A r \in Row : RowStep(r)
  <2>1. /\ UNCHANGED <<latest, basis, tariff>>
        /\ status' = [status EXCEPT ![q] = "grading"]
        /\ \A r \in Row \ {q} : found'[r] = found[r]
      BY <1>1, <1>3 DEF Start, TypeOK
  <2>2. \A r \in Row : status'[r] = IF r = q THEN "grading" ELSE status[r]
      BY <1>1, <2>1 DEF TypeOK
  <2> QED BY <2>1, <2>2 DEF RowStep, Untouched
<1>4. ASSUME NEW q \in Row, SetManualScore(q) \/ ConfirmVerdict(q)
      PROVE \A r \in Row : RowStep(r)
  <2>1. \A r \in Row : \/ status'[r] = status[r]
                       \/ status[r] \notin {"none", "grading"} /\ status'[r] = "reviewed"
      BY <1>1, <1>4 DEF SetManualScore, ConfirmVerdict, TypeOK
  <2>2. UNCHANGED <<found, latest, basis, tariff>>
      BY <1>4 DEF SetManualScore, ConfirmVerdict
  <2> QED BY <1>2, <2>1, <2>2
<1>5. ASSUME ResetBreaker \/ UNCHANGED vars PROVE \A r \in Row : RowStep(r)
    BY <1>2, <1>5 DEF ResetBreaker, vars
<1> QED BY <1>3, <1>4, <1>5, RuleEditRowStep, FinishRowStep, SetErrorExceptionRowStep,
           RecordAuditRowStep, FinalizeRowStep, ReapplyRowStep DEF Next

LEMMA SumInvNext ==
    ASSUME IInv, IInv', SumInv, [Next]_vars
    PROVE SumInv'
<1>1. TableOK(table) /\ TableOK(table') /\ manual \subseteq manual'
  <2>1. TableOK(table) /\ TableOK(table')
      BY DEF IInv, TypeOK
  <2>2. CASE Next
    <3>1. ASSUME RuleEdit PROVE manual' = manual
      <4>1. ASSUME NEW t, NEW S, Edit(t, S) PROVE manual' = manual
          BY <4>1 DEF Edit
      <4> HIDE DEF Edit
      <4>2. \A b \in Rubric, e \in Rule : \A d : SetPrice(b, e, d) => manual' = manual
          BY <4>1 DEF SetPrice
      <4>3. \A b \in Rubric, e \in Rule : Remove(b, e) => manual' = manual
          BY <4>1 DEF Remove
      <4>4. \A b \in Rubric, e \in Rule : \A c : Move(b, e, c) => manual' = manual
          BY <4>1 DEF Move
      <4>5. \A b \in Rubric, e \in Rule : \A c, g, p : Assign(b, e, c, g, p) => manual' = manual
          BY <4>1 DEF Assign
      <4>6. \A b \in Rubric, e \in Rule : \A n, g : Split(b, e, n, g) => manual' = manual
          BY <4>1 DEF Split
      <4>7. \A a, b \in Rubric : Copy(a, b) => manual' = manual
          BY <4>1 DEF Copy
      <4>8. \A b \in Rubric : \A c : Waive(b, c) => manual' = manual
          BY <4>1 DEF Waive
      <4>9. \A e \in Rule : Drop(e) => manual' = manual
          BY <4>1 DEF Drop
      <4>10. \A e \in Rule : \A g : Revise(e, g) => manual' = manual
          BY <4>1 DEF Revise
      <4> QED BY <3>1, <4>2, <4>3, <4>4, <4>5, <4>6, <4>7, <4>8, <4>9, <4>10 DEF RuleEdit
    <3>2. ASSUME NEW r \in Row,
                 \/ Start(r) \/ \E inv \in Investigation : Finish(r, inv)
                 \/ \E e \in Rule, d \in {"exclude", "include"} : SetErrorException(r, e, d)
                 \/ ConfirmVerdict(r)
                 \/ \E off \in SUBSET Rule, noError \in BOOLEAN : RecordAudit(r, off, noError)
                 \/ ResetBreaker \/ Finalize(SessionOf[r]) \/ Reapply(SessionOf[r])
          PROVE manual' = manual
        BY <3>2 DEF Start, Finish, SetErrorException, ConfirmVerdict, RecordAudit,
                    ResetBreaker, Finalize, Reapply
    <3>3. ASSUME NEW r \in Row, SetManualScore(r) PROVE manual \subseteq manual'
        BY <3>3 DEF SetManualScore
    <3>4. ASSUME ResetBreaker PROVE manual' = manual
        BY <3>4 DEF ResetBreaker
    <3> QED BY <2>1, <2>2, <3>1, <3>2, <3>3, <3>4 DEF Next
  <2>3. CASE UNCHANGED vars
      BY <2>1, <2>3 DEF vars
  <2> QED BY <2>1, <2>2, <2>3
<1>2. \A r \in Row : RowStep(r)
    BY NextRowStep
<1>3. ASSUME NEW r \in Row, status'[r] \notin {"none", "grading"}
      PROVE CaseFields \subseteq DOMAIN found'[r]
    BY <1>2, <1>3 DEF RowStep, SumInv
<1>4. ASSUME NEW r \in Row
      PROVE Scored(r)'
  <2>1. CASE Recomputes(r)
    <3>1. /\ basis'[r].rubric = Criteria[RubricOf[r]] /\ basis'[r].rules \subseteq Rule
          /\ Priceable(basis'[r], PricesNow(table', r))
          /\ Compute(basis'[r], PricesNow(table', r)).score # NoScore =>
                Compute(basis'[r], PricesNow(table', r)) = ComputeScore(basis'[r], PricesNow(table', r))
        BY <1>1, <2>1, ComputedIsScored DEF Recomputes
    <3>2. latest'[r] = Compute(basis'[r], PricesNow(table', r))
        BY <2>1 DEF Recomputes
    <3> HIDE DEF Priceable
    <3> QED BY <3>1, <3>2 DEF Scored
  <2>2. CASE latest'[r] = latest[r] /\ basis'[r] = basis[r]
      BY <2>2 DEF SumInv, Scored
  <2>3. CASE Reapplied(r)
    <3>1. Scored(r) /\ latest[r].score # NoScore
        BY <2>3 DEF SumInv, Reapplied
    <3>2. /\ Priceable(basis[r], ReapplyPrices(r))
          /\ RepricedRow(r) = ComputeScore(basis[r], ReapplyPrices(r))
        BY <1>1, <3>1, ReapplyIsScored
    <3>3. /\ basis'[r] = basis[r]
          /\ latest'[r] = RepricedRow(r) \/ latest'[r] = latest[r]
        BY <2>3 DEF Reapplied
    <3> QED BY <3>1, <3>2, <3>3 DEF Scored
  <2> QED BY <1>2, <2>1, <2>2, <2>3 DEF RowStep, Untouched, Publishes
<1>5. ASSUME NEW r \in Row \ manual', status'[r] = "published"
      PROVE Priceable(basis'[r], tariff'[r])
  <2>1. r \in Row \ manual
      BY <1>1
  <2>2. CASE Untouched(r) /\ status[r] = "published"
      BY <2>1, <2>2 DEF SumInv, Untouched
  <2>3. CASE Reapplied(r)
    <3>1. Scored(r) /\ latest[r].score # NoScore
        BY <2>3 DEF SumInv, Reapplied
    <3> QED BY <1>1, <2>3, <3>1, ReapplyIsScored DEF Reapplied
  <2>4. CASE Publishes(r)
    <3> DEFINE x == basis[r]
               q == PricesNow(table, r)
    <3>1. OpenRow(r) /\ latest[r].score # NoScore
        BY <2>1, <2>4 DEF IInv, Open, Publishes
    <3>2. x.rubric = Criteria[RubricOf[r]] /\ x.rules \subseteq Rule
        BY <3>1 DEF SumInv, Scored
    <3>3. x.rules \subseteq RulesNow(table, r)
        BY <3>1 DEF OpenRow
    <3>4. RubricOf[r] \in Rubric
        BY LedgerAssumption
    <3>5. \A e \in x.rules : q[e] \in Nat \cup {Unpriced}
        BY <1>1, <3>2, <3>3, <3>4 DEF TableOK, PricesNow, PricesOf
    <3>6. \A e \in Errors(x) : q[e] \in Nat \cup {Unpriced}
        BY <3>5, ErrorsAreRules
    <3>7. Priceable(x, q)
        BY <3>2, <3>6, PriceableByTable
    <3> QED BY <2>4, <3>7 DEF Publishes
  <2> QED BY <1>2, <1>5, <2>2, <2>3, <2>4 DEF RowStep
<1> QED BY <1>3, <1>4, <1>5 DEF SumInv

(* The numbers of the rows are sums of their rubric and its prices.        *)
THEOREM SumsKept == Spec => []SumInv
<1>1. ASSUME Init PROVE SumInv
    BY <1>1 DEF Init, SumInv, Scored, Floor
<1>2. IInv /\ IInv' /\ SumInv /\ [Next]_vars => SumInv'
    BY SumInvNext
<1> QED BY <1>1, <1>2, Inductive, PTL DEF Spec

(* computeDeductionScore under every edit: no criterion has lost more than *)
(* it is worth and the score is what the criteria have left.               *)
THEOREM ScoresAddUp == Spec => []ScoreAddsUp
<1>1. ASSUME SumInv, NEW r \in Row, latest[r].score # NoScore
      PROVE LET rubric == Criteria[RubricOf[r]]
                lost == latest[r].deducted IN
            /\ DOMAIN lost = DOMAIN rubric
            /\ \A c \in DOMAIN rubric : lost[c] \in 0 .. rubric[c]
            /\ latest[r].score = Total(DOMAIN rubric, rubric) - Total(DOMAIN rubric, lost)
  <2> DEFINE x == basis[r]
  <2>1. Scored(r)
      BY <1>1 DEF SumInv
  <2>2. x.rubric = Criteria[RubricOf[r]]
      BY <1>1, <2>1 DEF Scored
  <2>3. PICK p : Priceable(x, p) /\ latest[r] = ComputeScore(x, p)
      BY <1>1, <2>1 DEF Scored
  <2>4. DOMAIN latest[r].deducted = DOMAIN x.rubric
      BY <2>3 DEF ComputeScore, Deducted
  <2> HIDE DEF x
  <2> QED BY <2>2, <2>3, <2>4, ScoreWithinRubric
<1>2. SumInv => ScoreAddsUp
    BY <1>1 DEF ScoreAddsUp
<1> QED BY <1>2, SumsKept, PTL

(* reapplyFinalizedSession is the one way to change a published score, and *)
(* it lowers it by prices alone.                                           *)
THEOREM FallsOnlyByPrice == Spec => PublishedFallsOnlyByPrice
<1> DEFINE Fair == \A r \in Row \ manual :
                status[r] = "published" /\ latest'[r].score < latest[r].score =>
                    \E e \in Charged(latest[r].counted) : tariff[r][e] < tariff'[r][e]
<1>1. ASSUME IInv, SumInv, Next, NEW r \in Row \ manual, status[r] = "published",
             latest'[r].score < latest[r].score,
             \A e \in Charged(latest[r].counted) : ~(tariff[r][e] < tariff'[r][e])
      PROVE FALSE
  <2> DEFINE x == basis[r]
             q == ReapplyPrices(r)
  <2>1. TableOK(table) /\ Scored(r) /\ Priceable(x, tariff[r]) /\ PublishedRow(r)
      BY <1>1 DEF IInv, TypeOK, SumInv
  <2>2. latest[r].score = ComputeScore(x, tariff[r]).score
      BY <2>1 DEF PublishedRow
  <2>3. ScoreOf(x, tariff[r], Charged(Counted(x, tariff[r]))) \in Nat
      BY <2>1, ScoreBounds, ChargedAreErrors
  <2>4. latest[r].score \in Nat
      BY <2>2, <2>3 DEF ComputeScore
  <2>5. latest'[r].score # latest[r].score
      BY <1>1, <2>4
  <2>6. RowStep(r)
      BY <1>1, NextRowStep
  <2>7. PICK s \in Row : Reapply(SessionOf[s])
      BY <1>1, <2>5, PublishedStep DEF IInv
  <2>8. status'[r] = "published"
      BY <1>1, <2>7 DEF Reapply
  <2>9. Reapplied(r) /\ latest'[r] = RepricedRow(r) /\ tariff'[r] = q
      BY <1>1, <2>5, <2>6, <2>8 DEF RowStep, Untouched, Reapplied, Publishes
  <2>10. latest[r].score # NoScore
      BY <2>9 DEF Reapplied
  <2>11. /\ Priceable(x, q) /\ RepricedRow(r) = ComputeScore(x, q)
         /\ Charged(Counted(x, q)) = Charged(latest[r].counted)
      BY <2>1, <2>10, ReapplyIsScored
  <2>12. Charged(Counted(x, q)) \subseteq Errors(x)
      BY ChargedAreErrors
  <2> HIDE DEF x, q
  <2>13. \A e \in Errors(x) : tariff[r][e] \in Int /\ q[e] \in Int
      BY <2>1, <2>11 DEF Priceable, Unpriced
  <2>14. \A e \in Charged(Counted(x, q)) : q[e] <= tariff[r][e]
      BY <1>1, <2>9, <2>11, <2>12, <2>13
  <2>15. ComputeScore(x, tariff[r]).score <= ComputeScore(x, q).score
      BY <2>1, <2>11, <2>14, DearerNeverScoresMore
  <2>16. ScoreOf(x, q, Charged(Counted(x, q))) \in Nat
      BY <2>11, ScoreBounds, ChargedAreErrors
  <2>17. latest'[r].score \in Nat /\ latest[r].score <= latest'[r].score
      BY <2>2, <2>9, <2>11, <2>15, <2>16 DEF ComputeScore
  <2> QED BY <1>1, <2>4, <2>17
<1>2. IInv /\ SumInv /\ [Next]_vars => [Fair]_vars
    BY <1>1
<1>3. Spec => [][Fair]_vars
    BY <1>2, Inductive, SumsKept, PTL DEF Spec
<1> QED BY <1>3 DEF PublishedFallsOnlyByPrice

-----------------------------------------------------------------------------
(* The refinement: every transaction makes moves of the lifecycle only.    *)

(* A reason stands while its row is one without a score, and no longer.    *)
ClassFits(r) ==
    /\ status[r] \in {"none", "grading", "auto", "sampled", "flagged"} => class[r] = "none"
    /\ status[r] \in {"system", "submission"} => class[r] = status[r]

LifeInv == status \in [Row -> Status] /\ \A r \in Row : ClassFits(r)

(* What a step may do to one row.                                          *)
Stays(r) == status'[r] = status[r] /\ class'[r] = class[r]

Starts(r) ==
    /\ status[r] \in {"none", "system", "grading"} /\ status'[r] = "grading"
    /\ class'[r] = "none"

IsGraded(r) ==
    /\ status[r] = "grading" /\ status'[r] \in {"auto", "sampled", "flagged"}
    /\ class'[r] = class[r]

IsGivenUp(r) ==
    /\ status[r] = "grading" /\ status'[r] \in {"system", "submission"}
    /\ class'[r] = status'[r]

IsRejudged(r) ==
    /\ \/ status[r] = "flagged" /\ status'[r] = "auto"
       \/ status[r] \in {"auto", "sampled"} /\ status'[r] = "flagged"
       \/ status[r] = "auto" /\ status'[r] = "sampled"
       \/ /\ status[r] \in {"auto", "sampled", "flagged", "system", "submission"}
          /\ status'[r] = "reviewed"
       \/ status[r] \in {"auto", "reviewed"} /\ status'[r] = "published"
    /\ class'[r] = class[r]

RowMove(r) == Stays(r) \/ Starts(r) \/ IsGraded(r) \/ IsGivenUp(r) \/ IsRejudged(r)

LEMMA PhaseOf ==
    /\ Phase("system") = "flagged" /\ Phase("submission") = "flagged"
    /\ Phase("auto") = "proposed" /\ Phase("none") = "none"
    /\ Phase("grading") = "grading" /\ Phase("sampled") = "sampled"
    /\ Phase("flagged") = "flagged" /\ Phase("reviewed") = "reviewed"
    /\ Phase("published") = "published"
BY DEF Phase

LEMMA MoveIsLifecycle ==
    ASSUME NEW r \in Row, status[r] \in Status, ClassFits(r), RowMove(r)
    PROVE \/ Lifecycle!Opened(r) \/ Lifecycle!Scored(r) \/ Lifecycle!GivenUp(r)
          \/ Lifecycle!Restarted(r) \/ Lifecycle!Moved(r) \/ Lifecycle!Kept(r)
<1> USE PhaseOf DEF Lifecycle!Becomes
<1>1. /\ r \in HasScore <=> \/ status[r] \in {"auto", "sampled", "flagged"}
                            \/ status[r] \in {"reviewed", "published"} /\ class[r] = "none"
      /\ r \in HasScore' <=> \/ status'[r] \in {"auto", "sampled", "flagged"}
                             \/ status'[r] \in {"reviewed", "published"} /\ class'[r] = "none"
    BY DEF HasScore
<1>2. CASE Stays(r)
  <2>1. Lifecycle!Kept(r)
      BY <1>1, <1>2 DEF Stays, Lifecycle!Kept, Lifecycle!KeepsScore
  <2> QED BY <2>1
<1>3. CASE Starts(r) /\ status[r] = "none"
  <2>1. Lifecycle!Opened(r)
      BY <1>1, <1>3 DEF Starts, ClassFits, Lifecycle!Opened, Lifecycle!KeepsScore
  <2> QED BY <2>1
<1>4. CASE Starts(r) /\ status[r] = "system"
  <2>1. Lifecycle!Restarted(r)
      BY <1>1, <1>4 DEF Starts, ClassFits, Lifecycle!Restarted
  <2> QED BY <2>1
<1>5. CASE Starts(r) /\ status[r] = "grading"
  <2>1. Lifecycle!Kept(r)
      BY <1>1, <1>5 DEF Starts, ClassFits, Lifecycle!Kept, Lifecycle!KeepsScore
  <2> QED BY <2>1
<1>6. CASE IsGraded(r)
  <2>1. Lifecycle!Scored(r)
      BY <1>1, <1>6 DEF IsGraded, ClassFits, Lifecycle!Scored
  <2> QED BY <2>1
<1>7. CASE IsGivenUp(r)
  <2>1. Lifecycle!GivenUp(r)
      BY <1>1, <1>7 DEF IsGivenUp, Lifecycle!GivenUp
  <2> QED BY <2>1
<1>8. CASE IsRejudged(r)
  <2>1. Lifecycle!KeepsScore(r)
      BY <1>1, <1>8 DEF IsRejudged, ClassFits, Lifecycle!KeepsScore
  <2>2. Lifecycle!Moved(r)
      BY <1>8, <2>1 DEF IsRejudged, Lifecycle!Moved
  <2> QED BY <2>2
<1> QED BY <1>2, <1>3, <1>4, <1>5, <1>6, <1>7, <1>8 DEF RowMove, Starts

LEMMA MoveKeepsClass ==
    ASSUME NEW r \in Row, ClassFits(r), RowMove(r)
    PROVE ClassFits(r)'
BY DEF ClassFits, RowMove, Stays, Starts, IsGraded, IsGivenUp, IsRejudged

(* ruleLayerTransition, of any of the rows a transaction computes again.   *)
LEMMA SettledMove ==
    ASSUME UNCHANGED class, NEW r \in Row, NEW t,
           status'[r] = status[r] \/ status'[r] = Settled(t, r)
    PROVE RowMove(r)
BY DEF Settled, RowMove, Stays, IsRejudged

LEMMA EditMove ==
    ASSUME NEW t, NEW S, Edit(t, S), NEW r \in Row
    PROVE RowMove(r)
<1>1. UNCHANGED class /\ (status'[r] = status[r] \/ status'[r] = Settled(t, r))
    BY DEF Edit, Moved
<1> QED BY <1>1, SettledMove

LEMMA RuleEditMove ==
    ASSUME RuleEdit, NEW r \in Row
    PROVE RowMove(r)
<1>1. \A b \in Rubric, e \in Rule : \A d : SetPrice(b, e, d) => RowMove(r)
    BY EditMove DEF SetPrice
<1>2. \A b \in Rubric, e \in Rule : Remove(b, e) => RowMove(r)
    BY EditMove DEF Remove
<1>3. \A b \in Rubric, e \in Rule : \A c : Move(b, e, c) => RowMove(r)
    BY EditMove DEF Move
<1>4. \A b \in Rubric, e \in Rule : \A c, g, p : Assign(b, e, c, g, p) => RowMove(r)
    BY EditMove DEF Assign
<1>5. \A b \in Rubric, e \in Rule : \A n, g : Split(b, e, n, g) => RowMove(r)
    BY EditMove DEF Split
<1>6. \A a, b \in Rubric : Copy(a, b) => RowMove(r)
    BY EditMove DEF Copy
<1>7. \A b \in Rubric : \A c : Waive(b, c) => RowMove(r)
    BY EditMove DEF Waive
<1>8. \A e \in Rule : Drop(e) => RowMove(r)
    BY EditMove DEF Drop
<1>9. \A e \in Rule : \A g : Revise(e, g) => RowMove(r)
    BY EditMove DEF Revise
<1> QED BY <1>1, <1>2, <1>3, <1>4, <1>5, <1>6, <1>7, <1>8, <1>9 DEF RuleEdit

(* finishAttempt: the row itself, and those the audit sample draws.        *)
LEMMA FinishMove ==
    ASSUME TypeOK, NEW q \in Row, NEW inv \in Investigation, Finish(q, inv), NEW r \in Row
    PROVE RowMove(r)
<1> DEFINE x == CaseOf(table, Stored(q, inv), q, RulesNow(table, q))
           to(s) == [status EXCEPT ![q] = s]
           verdict == IF Decide(Guarded(table, x), PricesNow(table, q)) = "auto"
                      THEN "auto" ELSE "flagged"
<1>1. status[q] = "grading" /\ status \in [Row -> Status] /\ DOMAIN class = Row
    BY DEF Finish, TypeOK
<1>2. CASE Gradable(x)
  <2>1. /\ UNCHANGED class
        /\ \E D \in Sample(q, to(verdict)) :
              status' = [y \in Row |-> IF y \in D THEN "sampled" ELSE to(verdict)[y]]
      BY <1>2 DEF Finish
  <2>2. verdict \in {"auto", "flagged"}
      OBVIOUS
  <2> HIDE DEF verdict
  <2>3. PICK D \in Sample(q, to(verdict)) :
              status' = [y \in Row |-> IF y \in D THEN "sampled" ELSE to(verdict)[y]]
      BY <2>1
  <2>4. \A y \in D : to(verdict)[y] = "auto"
      BY DEF Sample
  <2>5. CASE r = q
      BY <1>1, <2>1, <2>2, <2>3, <2>5 DEF RowMove, IsGraded
  <2>6. CASE r # q
      BY <1>1, <2>1, <2>3, <2>4, <2>6 DEF RowMove, Stays, IsRejudged
  <2> QED BY <2>5, <2>6
<1>3. CASE ~Gradable(x)
  <2>1. PICK why \in {"system", "submission"} :
              status' = to(why) /\ class' = [class EXCEPT ![q] = why]
      BY <1>3 DEF Finish
  <2> QED BY <1>1, <2>1 DEF RowMove, Stays, IsGivenUp
<1> QED BY <1>2, <1>3

LEMMA NextMove ==
    ASSUME IInv, [Next]_vars, NEW r \in Row
    PROVE RowMove(r)
<1>1. TypeOK /\ status \in [Row -> Status] /\ class \in [Row -> {"none", "system", "submission"}]
    BY DEF IInv, TypeOK
<1>2. ASSUME NEW q \in Row, Start(q) PROVE RowMove(r)
    BY <1>1, <1>2 DEF Start, RowMove, Stays, Starts
<1>3. ASSUME NEW q \in Row, NEW e \in Rule, NEW d, SetErrorException(q, e, d)
      PROVE RowMove(r)
    BY <1>1, <1>3 DEF SetErrorException, Open, RowMove, Stays, IsRejudged
<1>4. ASSUME NEW q \in Row, SetManualScore(q) PROVE RowMove(r)
    BY <1>1, <1>4 DEF SetManualScore, RowMove, Stays, IsRejudged
<1>5. ASSUME NEW q \in Row, ConfirmVerdict(q) PROVE RowMove(r)
    BY <1>1, <1>5 DEF ConfirmVerdict, RowMove, Stays, IsRejudged
<1>6. ASSUME NEW q \in Row, NEW off \in SUBSET Rule, NEW noError \in BOOLEAN,
             RecordAudit(q, off, noError)
      PROVE RowMove(r)
  <2>1. PICK t, S : status' = [Moved(t, S) EXCEPT ![q] = "reviewed"]
      BY <1>6 DEF RecordAudit
  <2>2. status[q] = "sampled" /\ UNCHANGED class
      BY <1>6 DEF RecordAudit
  <2>3. CASE r = q
      BY <2>1, <2>2, <2>3 DEF Moved, RowMove, IsRejudged
  <2>4. CASE r # q
    <3>1. status'[r] = status[r] \/ status'[r] = Settled(t, r)
        BY <2>1, <2>4 DEF Moved
    <3> QED BY <2>2, <3>1, SettledMove
  <2> QED BY <2>3, <2>4
<1>7. CASE ResetBreaker \/ UNCHANGED vars
    BY <1>7 DEF ResetBreaker, vars, RowMove, Stays
<1>8. ASSUME NEW q \in Row, Finalize(SessionOf[q]) PROVE RowMove(r)
    BY <1>1, <1>8 DEF Finalize, RowMove, Stays, IsRejudged
<1>9. ASSUME NEW q \in Row, Reapply(SessionOf[q]) PROVE RowMove(r)
    BY <1>9 DEF Reapply, RowMove, Stays
<1> QED BY <1>1, <1>2, <1>3, <1>4, <1>5, <1>6, <1>7, <1>8, <1>9, RuleEditMove, FinishMove
        DEF Next

(* Whatever a teacher edits, the rows keep the contract of their triggers: *)
(* ruleLayerTransition, the audit, reviews and publication never meet the  *)
(* trigger's refusal, which would undo a whole transaction.                *)
THEOREM LifecycleKept == Spec => ImplementsLifecycle
<1>1. Init => LifeInv /\ Lifecycle!LifecycleInit
    BY PhaseOf DEF Init, LifeInv, ClassFits, Status, HasScore, Lifecycle!LifecycleInit
<1>2. ASSUME IInv, IInv', LifeInv, [Next]_vars
      PROVE LifeInv' /\ [Lifecycle!LifecycleNext]_(Lifecycle!LifecycleVars)
  <2>1. \A r \in Row : RowMove(r)
      BY <1>2, NextMove
  <2>2. \A r \in Row : ClassFits(r)'
      BY <1>2, <2>1, MoveKeepsClass DEF LifeInv
  <2>3. LifeInv'
      BY <1>2, <2>2 DEF LifeInv, IInv, TypeOK
  <2>4. Lifecycle!LifecycleNext
      BY <1>2, <2>1, MoveIsLifecycle DEF LifeInv, Lifecycle!LifecycleNext
  <2> QED BY <2>3, <2>4
<1>3. IInv /\ IInv' /\ LifeInv /\ [Next]_vars =>
          LifeInv' /\ [Lifecycle!LifecycleNext]_(Lifecycle!LifecycleVars)
    BY <1>2
<1> QED BY <1>1, <1>3, Inductive, PTL DEF Spec, ImplementsLifecycle, Lifecycle!LifecycleSpec

=============================================================================
