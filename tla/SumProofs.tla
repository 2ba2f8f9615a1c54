------------------------------ MODULE SumProofs ------------------------------
(***************************************************************************)
(* What Total, the sum every score is made of, does to a sum: it does not  *)
(* depend on the order of the elements, grows with each of them and with   *)
(* the set.  The fold that defines it takes out a chosen element at a      *)
(* time; a statement about all finite sets is shown on a smallest set that *)
(* would refute it.                                                        *)
(***************************************************************************)
EXTENDS ScoringProofs, FiniteSetTheorems

(* The element the fold takes out of S first.                              *)
Chosen(S) == CHOOSE x \in S : TRUE

(* The fold of f over the sets below, as a function on the subsets of D.   *)
Folded(D, f, g) ==
    g = [s \in SUBSET D |-> IF s = {} THEN 0 ELSE f[Chosen(s)] + g[s \ {Chosen(s)}]]

(* A set of finite sets has a smallest member.                             *)
LEMMA SmallestSet ==
    ASSUME NEW D, IsFiniteSet(D), NEW B \in SUBSET SUBSET D, B # {}
    PROVE \E s \in B : \A t \in B : t \subseteq s => t = s
<1>1. FiniteSubsetsOf(D) = SUBSET D
    BY FS_FiniteSubsetsOfFinite
<1>2. IsWellFoundedOn(StrictSubsetOrdering(D), SUBSET D)
    BY <1>1, FS_StrictSubsetOrderingWellFounded
<1>3. PICK s \in B : \A t \in B : ~(<<t, s>> \in StrictSubsetOrdering(D))
    BY <1>2, WFMin
<1>4. ASSUME NEW t \in B, t \subseteq s, t # s
      PROVE <<t, s>> \in StrictSubsetOrdering(D)
    BY <1>4 DEF StrictSubsetOrdering
<1>5. \A t \in B : t \subseteq s => t = s
    BY <1>3, <1>4
<1> QED BY <1>5

LEMMA ChosenIn ==
    ASSUME NEW S, S # {}
    PROVE Chosen(S) \in S
BY DEF Chosen

LEMMA FoldedValue ==
    ASSUME NEW D, NEW f, NEW g, Folded(D, f, g), NEW s \in SUBSET D
    PROVE /\ s = {} => g[s] = 0
          /\ s # {} => g[s] = f[Chosen(s)] + g[s \ {Chosen(s)}]
BY DEF Folded

(* Two folds agree where both are defined and add up the same.             *)
LEMMA FoldsAgree ==
    ASSUME NEW D, NEW E, NEW T, IsFiniteSet(T), T \subseteq D, T \subseteq E,
           NEW f, NEW g, NEW h, NEW i, Folded(D, f, h), Folded(E, g, i),
           \A e \in T : f[e] = g[e]
    PROVE \A s \in SUBSET T : h[s] = i[s]
<1> DEFINE B == {s \in SUBSET T : h[s] # i[s]}
<1>1. B \in SUBSET SUBSET T
    OBVIOUS
<1>2. ASSUME NEW s \in SUBSET T, h[s] # i[s],
             \A t \in SUBSET T : h[t] # i[t] /\ t \subseteq s => t = s
      PROVE FALSE
  <2> DEFINE u == s \ {Chosen(s)}
  <2>1. s \in SUBSET D /\ s \in SUBSET E
      OBVIOUS
  <2>2. s # {}
    <3>1. h[{}] = 0 /\ i[{}] = 0
        BY DEF Folded
    <3> QED BY <1>2, <3>1
  <2>3. Chosen(s) \in s
      BY <2>2, ChosenIn
  <2>4. h[u] = i[u]
      BY <1>2, <2>3
  <2>5. h[s] = f[Chosen(s)] + h[u]
      BY <2>1, <2>2, FoldedValue
  <2>6. i[s] = g[Chosen(s)] + i[u]
      BY <2>1, <2>2, FoldedValue
  <2>7. f[Chosen(s)] = g[Chosen(s)]
      BY <2>3
  <2> QED BY <1>2, <2>4, <2>5, <2>6, <2>7
<1>3. ASSUME B # {} PROVE FALSE
  <2> HIDE DEF B
  <2>1. PICK s \in B : \A t \in B : t \subseteq s => t = s
      BY <1>1, <1>3, SmallestSet
  <2> USE DEF B
  <2> QED BY <1>2, <2>1
<1> QED BY <1>3

(* A finite set has its fold: on a set all of whose smaller subsets have   *)
(* one, each subset takes its value from its own.                          *)
LEMMA FoldExists ==
    ASSUME NEW D, IsFiniteSet(D), NEW f
    PROVE \E g : Folded(D, f, g)
<1> DEFINE B == {T \in SUBSET D : ~\E g : Folded(T, f, g)}
<1> SUFFICES ASSUME B # {} PROVE FALSE
    OBVIOUS
<1>0. B \in SUBSET SUBSET D
    OBVIOUS
<1>1. PICK T \in B : \A t \in B : t \subseteq T => t = T
  <2> HIDE DEF B
  <2> QED BY <1>0, SmallestSet
<1> DEFINE G(s) == CHOOSE g : Folded(s, f, g)
<1>2. ASSUME NEW s \in SUBSET T, s # T PROVE Folded(s, f, G(s))
  <2>1. \E g : Folded(s, f, g)
      BY <1>1, <1>2
  <2> QED BY <2>1
<1> DEFINE Value(s) == IF s = {} THEN 0
                       ELSE f[Chosen(s)] + G(s \ {Chosen(s)})[s \ {Chosen(s)}]
           h == [s \in SUBSET T |-> Value(s)]
<1> HIDE DEF G
<1>3. ASSUME NEW s \in SUBSET T, s # T PROVE G(s)[s] = Value(s)
  <2>1. Folded(s, f, G(s)) /\ s \in SUBSET s
      BY <1>2, <1>3
  <2>2. CASE s = {}
      BY <2>1, <2>2, FoldedValue
  <2>3. CASE s # {}
    <3> DEFINE u == s \ {Chosen(s)}
    <3>1. Chosen(s) \in s
        BY <2>3, ChosenIn
    <3>2. u \in SUBSET T /\ u # T /\ u \subseteq s
        BY <3>1
    <3>3. Folded(u, f, G(u))
        BY <1>2, <3>2
    <3>4. IsFiniteSet(u)
        BY <3>2, FS_Subset
    <3>5. \A t \in SUBSET u : G(s)[t] = G(u)[t]
        BY <2>1, <3>2, <3>3, <3>4, FoldsAgree
    <3>6. G(s)[s] = f[Chosen(s)] + G(s)[u]
        BY <2>1, <2>3, FoldedValue
    <3>7. G(s)[u] = G(u)[u]
        BY <3>5
    <3> QED BY <2>3, <3>6, <3>7
  <2> QED BY <2>2, <2>3
<1>4. ASSUME NEW s \in SUBSET T
      PROVE Value(s) = IF s = {} THEN 0 ELSE f[Chosen(s)] + h[s \ {Chosen(s)}]
  <2>1. CASE s = {}
      BY <2>1
  <2>2. CASE s # {}
    <3> DEFINE u == s \ {Chosen(s)}
    <3>1. Chosen(s) \in s
        BY <2>2, ChosenIn
    <3>2. u \in SUBSET T /\ u # T
        BY <3>1
    <3>3. h[u] = G(u)[u]
        BY <1>3, <3>2
    <3> QED BY <2>2, <3>3
  <2> QED BY <2>1, <2>2
<1>5. Folded(T, f, h)
    BY <1>4 DEF Folded
<1> QED BY <1>5

-----------------------------------------------------------------------------
(* Total through its fold.                                                 *)
LEMMA TotalIsFold ==
    ASSUME NEW S, IsFiniteSet(S), NEW f
    PROVE \E g : Folded(S, f, g) /\ Total(S, f) = g[S]
<1> DEFINE a == [e \in S |-> f[e]]
           iter == CHOOSE g : Folded(S, a, g)
<1>1. DOMAIN a = S
    OBVIOUS
<1>2. SumOf(a) = iter[S]
  <2>1. SumOf(a) = (CHOOSE i : i = [s \in SUBSET DOMAIN a |->
            IF s = {} THEN 0
            ELSE a[CHOOSE x \in s : TRUE] + i[s \ {CHOOSE x \in s : TRUE}]])[DOMAIN a]
      BY SumIsFold
  <2> QED BY <2>1, <1>1 DEF Folded, Chosen
<1>3. Total(S, f) = iter[S]
    BY <1>2 DEF Total
<1>4. \E g : Folded(S, a, g)
    BY FoldExists
<1>5. Folded(S, a, iter)
    BY <1>4
<1> HIDE DEF iter
<1>6. ASSUME NEW s \in SUBSET S
      PROVE (IF s = {} THEN 0 ELSE a[Chosen(s)] + iter[s \ {Chosen(s)}])
            = (IF s = {} THEN 0 ELSE f[Chosen(s)] + iter[s \ {Chosen(s)}])
    BY <1>6, ChosenIn
<1>7. Folded(S, f, iter)
    BY <1>5, <1>6 DEF Folded
<1> QED BY <1>3, <1>7

LEMMA TotalOfNone ==
    ASSUME NEW f
    PROVE Total({}, f) = 0
<1>1. IsFiniteSet({})
    BY FS_EmptySet
<1>2. PICK g : Folded({}, f, g) /\ Total({}, f) = g[{}]
    BY <1>1, TotalIsFold
<1>3. g[{}] = 0
    BY <1>2 DEF Folded
<1> QED BY <1>2, <1>3

LEMMA TotalByChosen ==
    ASSUME NEW S, IsFiniteSet(S), S # {}, NEW f
    PROVE Total(S, f) = f[Chosen(S)] + Total(S \ {Chosen(S)}, f)
<1> DEFINE u == S \ {Chosen(S)}
<1>1. PICK g : Folded(S, f, g) /\ Total(S, f) = g[S]
    BY TotalIsFold
<1>2. IsFiniteSet(u)
    BY FS_RemoveElement
<1>3. PICK h : Folded(u, f, h) /\ Total(u, f) = h[u]
    BY <1>2, TotalIsFold
<1>4. g[u] = h[u]
    BY <1>1, <1>2, <1>3, FoldsAgree
<1>5. g[S] = f[Chosen(S)] + g[u]
    BY <1>1, FoldedValue
<1> QED BY <1>1, <1>3, <1>4, <1>5

-----------------------------------------------------------------------------
(* What a sum is worth.                                                    *)
LEMMA TotalInt ==
    ASSUME NEW S, IsFiniteSet(S), NEW f, \A e \in S : f[e] \in Int
    PROVE Total(S, f) \in Int
<1> DEFINE B == {T \in SUBSET S : Total(T, f) \notin Int}
<1>1. B \in SUBSET SUBSET S
    OBVIOUS
<1>2. ASSUME NEW T \in B, \A U \in B : U \subseteq T => U = T
      PROVE FALSE
  <2>1. IsFiniteSet(T)
      BY FS_Subset
  <2>2. T # {}
      BY TotalOfNone
  <2> DEFINE U == T \ {Chosen(T)}
  <2>3. Chosen(T) \in T
      BY <2>2, ChosenIn
  <2>4. Total(U, f) \in Int
      BY <1>2, <2>3
  <2>5. Total(T, f) = f[Chosen(T)] + Total(U, f)
      BY <2>1, <2>2, TotalByChosen
  <2>6. f[Chosen(T)] \in Int
      BY <2>3
  <2>7. Total(T, f) \in Int
      BY <2>4, <2>5, <2>6
  <2> QED BY <2>7
<1>3. B = {}
  <2> HIDE DEF B
  <2> QED BY <1>1, <1>2, SmallestSet
<1> QED BY <1>3

(* Whichever element is taken out first.                                   *)
LEMMA TotalRemove ==
    ASSUME NEW S, IsFiniteSet(S), NEW f, \A e \in S : f[e] \in Int, NEW x \in S
    PROVE Total(S, f) = f[x] + Total(S \ {x}, f)
<1> DEFINE B == {T \in SUBSET S : \E y \in T : Total(T, f) # f[y] + Total(T \ {y}, f)}
<1>1. B \in SUBSET SUBSET S
    OBVIOUS
<1>2. ASSUME NEW T \in B, \A U \in B : U \subseteq T => U = T
      PROVE FALSE
  <2>1. IsFiniteSet(T) /\ T \subseteq S
      BY FS_Subset
  <2>2. PICK y \in T : Total(T, f) # f[y] + Total(T \ {y}, f)
      OBVIOUS
  <2> DEFINE c == Chosen(T)
             U == T \ {c}
             V == T \ {y}
  <2>3. c \in T /\ Total(T, f) = f[c] + Total(U, f)
      BY <2>1, <2>2, ChosenIn, TotalByChosen
  <2> HIDE DEF c
  <2>4. c # y
      BY <2>2, <2>3
  <2>5. Total(U, f) = f[y] + Total(U \ {y}, f)
      BY <1>2, <2>3, <2>4
  <2>6. Total(V, f) = f[c] + Total(V \ {c}, f)
      BY <1>2, <2>2, <2>3, <2>4
  <2>7. U \ {y} = V \ {c}
      OBVIOUS
  <2>8. IsFiniteSet(U \ {y})
      BY <2>1, FS_RemoveElement
  <2>9. Total(U \ {y}, f) \in Int
      BY <2>1, <2>8, TotalInt
  <2>10. f[c] \in Int /\ f[y] \in Int
      BY <2>1, <2>2, <2>3
  <2>11. ASSUME NEW i \in Int, NEW j \in Int, NEW k \in Int
         PROVE i + (j + k) = j + (i + k)
      OBVIOUS
  <2>12. Total(T, f) = f[c] + (f[y] + Total(U \ {y}, f))
      BY <2>3, <2>5
  <2>13. Total(V, f) = f[c] + Total(U \ {y}, f)
      BY <2>6, <2>7
  <2>14. Total(T, f) = f[y] + Total(V, f)
      BY <2>9, <2>10, <2>11, <2>12, <2>13
  <2> QED BY <2>2, <2>14
<1>3. B = {}
  <2> HIDE DEF B
  <2> QED BY <1>1, <1>2, SmallestSet
<1> QED BY <1>3

(* A sum grows with its terms.                                             *)
LEMMA TotalMonotone ==
    ASSUME NEW S, IsFiniteSet(S), NEW f, NEW g,
           \A e \in S : f[e] \in Int /\ g[e] \in Int /\ f[e] <= g[e]
    PROVE Total(S, f) <= Total(S, g)
<1> DEFINE B == {T \in SUBSET S : ~(Total(T, f) <= Total(T, g))}
<1>1. B \in SUBSET SUBSET S
    OBVIOUS
<1>2. ASSUME NEW T \in B, \A U \in B : U \subseteq T => U = T
      PROVE FALSE
  <2>1. IsFiniteSet(T) /\ T \subseteq S
      BY FS_Subset
  <2>2. T # {}
      BY TotalOfNone
  <2> DEFINE c == Chosen(T)
             U == T \ {c}
  <2>3. c \in T
      BY <2>2, ChosenIn
  <2>4. Total(U, f) <= Total(U, g)
      BY <1>2, <2>3
  <2>5. Total(T, f) = f[c] + Total(U, f) /\ Total(T, g) = g[c] + Total(U, g)
      BY <2>1, <2>2, TotalByChosen
  <2>6. IsFiniteSet(U)
      BY <2>1, FS_RemoveElement
  <2>7. Total(U, f) \in Int /\ Total(U, g) \in Int
      BY <2>1, <2>6, TotalInt
  <2>8. f[c] \in Int /\ g[c] \in Int /\ f[c] <= g[c]
      BY <2>1, <2>3
  <2> HIDE DEF c, U
  <2>9. Total(T, f) <= Total(T, g)
      BY <2>4, <2>5, <2>7, <2>8
  <2> QED BY <2>9
<1>3. B = {}
  <2> HIDE DEF B
  <2> QED BY <1>1, <1>2, SmallestSet
<1> QED BY <1>3

(* A sum of amounts grows with its elements, and is at least nothing.      *)
LEMMA TotalOfMore ==
    ASSUME NEW S, IsFiniteSet(S), NEW f, \A e \in S : f[e] \in Nat,
           NEW R \in SUBSET S
    PROVE Total(R, f) <= Total(S, f)
<1> DEFINE B == {T \in SUBSET S : R \subseteq T /\ ~(Total(R, f) <= Total(T, f))}
<1>1. B \in SUBSET SUBSET S
    OBVIOUS
<1>2. ASSUME NEW T \in B, \A U \in B : U \subseteq T => U = T
      PROVE FALSE
  <2>1. IsFiniteSet(T) /\ T \subseteq S /\ IsFiniteSet(R)
      BY FS_Subset
  <2>2. Total(R, f) \in Int /\ Total(T, f) \in Int
      BY <2>1, TotalInt
  <2>3. PICK y \in T : y \notin R
      BY <2>2
  <2> DEFINE U == T \ {y}
  <2>4. Total(R, f) <= Total(U, f)
      BY <1>2, <2>3
  <2>5. Total(T, f) = f[y] + Total(U, f)
      BY <2>1, TotalRemove
  <2>6. IsFiniteSet(U)
      BY <2>1, FS_RemoveElement
  <2>7. Total(U, f) \in Int /\ f[y] \in Nat
      BY <2>1, <2>6, TotalInt
  <2> HIDE DEF U
  <2>8. Total(R, f) <= Total(T, f)
      BY <2>2, <2>4, <2>5, <2>7
  <2> QED BY <2>8
<1>3. B = {}
  <2> HIDE DEF B
  <2> QED BY <1>1, <1>2, SmallestSet
<1> QED BY <1>3

LEMMA TotalNat ==
    ASSUME NEW S, IsFiniteSet(S), NEW f, \A e \in S : f[e] \in Nat
    PROVE Total(S, f) \in Nat
<1>1. Total(S, f) \in Int
    BY TotalInt
<1>2. Total({}, f) <= Total(S, f)
    BY TotalOfMore
<1> QED BY <1>1, <1>2, TotalOfNone

-----------------------------------------------------------------------------
(* Scores.  A rubric and a rule table are finite, a criterion takes some   *)
(* amount at most, and each error has a price or is still without one.     *)
Priceable(x, p) ==
    /\ IsFiniteSet(DOMAIN x.rubric) /\ \A c \in DOMAIN x.rubric : x.rubric[c] \in Nat
    /\ IsFiniteSet(x.rules)
    /\ \A e \in Errors(x) : p[e] \in Nat \cup {Unpriced}

Due(x, p, E, c) == {r \in E : x.criterion[r] = c /\ p[r] # Unpriced}

LEMMA DeductedWithinCriterion ==
    ASSUME NEW x, NEW p, Priceable(x, p), NEW E \in SUBSET Errors(x),
           NEW c \in DOMAIN x.rubric
    PROVE /\ IsFiniteSet(Due(x, p, E, c))
          /\ Total(Due(x, p, E, c), p) \in Nat
          /\ Deducted(x, p, E)[c] = Capped(Total(Due(x, p, E, c), p), x.rubric[c])
          /\ Deducted(x, p, E)[c] \in Nat
          /\ Deducted(x, p, E)[c] <= x.rubric[c]
<1>1. Errors(x) \subseteq x.rules
    BY DEF Errors, MachineErrors, ModelErrors, Used
<1>2. Due(x, p, E, c) \subseteq x.rules /\ Due(x, p, E, c) \subseteq Errors(x)
    BY <1>1 DEF Due
<1>3. IsFiniteSet(Due(x, p, E, c))
    BY <1>2, FS_Subset DEF Priceable
<1>4. \A e \in Due(x, p, E, c) : p[e] \in Nat
    BY <1>2 DEF Due, Priceable
<1>5. Total(Due(x, p, E, c), p) \in Nat
    BY <1>3, <1>4, TotalNat
<1>6. Deducted(x, p, E)[c] = Capped(Total(Due(x, p, E, c), p), x.rubric[c])
    BY DEF Deducted, Due
<1>7. x.rubric[c] \in Nat
    BY DEF Priceable
<1> QED BY <1>3, <1>5, <1>6, <1>7 DEF Capped

LEMMA ScoreBounds ==
    ASSUME NEW x, NEW p, Priceable(x, p), NEW E \in SUBSET Errors(x)
    PROVE /\ ScoreOf(x, p, E) \in Nat
          /\ ScoreOf(x, p, E) <= Total(DOMAIN x.rubric, x.rubric)
          /\ ScoreOf(x, p, E) = Total(DOMAIN x.rubric, x.rubric)
                                    - Total(DOMAIN x.rubric, Deducted(x, p, E))
<1> DEFINE D == DOMAIN x.rubric
           lost == Deducted(x, p, E)
<1>1. IsFiniteSet(D) /\ \A c \in D : x.rubric[c] \in Nat
    BY DEF Priceable
<1>2. \A c \in D : lost[c] \in Nat /\ lost[c] <= x.rubric[c]
    BY DeductedWithinCriterion
<1> HIDE DEF lost
<1>3. Total(D, lost) \in Nat /\ Total(D, x.rubric) \in Nat
    BY <1>1, <1>2, TotalNat
<1>4. Total(D, lost) <= Total(D, x.rubric)
    BY <1>1, <1>2, TotalMonotone
<1>5. ScoreOf(x, p, E) = Total(D, x.rubric) - Total(D, lost)
    BY <1>3, <1>4 DEF ScoreOf, lost
<1> QED BY <1>3, <1>4, <1>5 DEF lost

(* More errors at higher prices never give a higher score.                 *)
LEMMA ScoreFallsWithCharges ==
    ASSUME NEW x, NEW p, NEW q, Priceable(x, p), Priceable(x, q),
           NEW F \in SUBSET Errors(x), NEW E \in SUBSET F,
           \A e \in E : p[e] <= q[e]
    PROVE ScoreOf(x, q, F) <= ScoreOf(x, p, E)
<1> DEFINE D == DOMAIN x.rubric
           less == Deducted(x, p, E)
           more == Deducted(x, q, F)
<1>1. IsFiniteSet(D) /\ \A c \in D : x.rubric[c] \in Nat
    BY DEF Priceable
<1>2. ASSUME NEW c \in D
      PROVE less[c] \in Nat /\ more[c] \in Nat /\ less[c] <= more[c]
  <2> DEFINE A == Due(x, p, E, c)
             B == Due(x, q, F, c)
  <2>1. /\ IsFiniteSet(A) /\ Total(A, p) \in Nat /\ less[c] \in Nat
        /\ less[c] = Capped(Total(A, p), x.rubric[c])
      BY DeductedWithinCriterion
  <2>2. /\ IsFiniteSet(B) /\ Total(B, q) \in Nat /\ more[c] \in Nat
        /\ more[c] = Capped(Total(B, q), x.rubric[c])
      BY DeductedWithinCriterion
  <2>3. \A e \in A : p[e] \in Nat /\ q[e] \in Nat /\ p[e] <= q[e]
      BY DEF Due, Priceable, Unpriced
  <2>4. A \subseteq B /\ \A e \in B : q[e] \in Nat
      BY <2>3 DEF Due, Priceable, Unpriced
  <2> HIDE DEF A, B, less, more
  <2>5. Total(A, p) <= Total(A, q)
      BY <2>1, <2>3, TotalMonotone
  <2>6. Total(A, q) <= Total(B, q)
      BY <2>2, <2>4, TotalOfMore
  <2>7. Total(A, q) \in Nat
      BY <2>1, <2>3, TotalNat
  <2>8. Total(A, p) <= Total(B, q)
      BY <2>1, <2>2, <2>5, <2>6, <2>7
  <2> QED BY <1>1, <2>1, <2>2, <2>8 DEF Capped
<1> HIDE DEF less, more
<1>3. Total(D, less) \in Nat /\ Total(D, more) \in Nat /\ Total(D, x.rubric) \in Nat
    BY <1>1, <1>2, TotalNat
<1>4. Total(D, less) <= Total(D, more)
    BY <1>1, <1>2, TotalMonotone
<1>5. /\ ScoreOf(x, p, E) = Total(D, x.rubric) - Total(D, less)
      /\ ScoreOf(x, q, F) = Total(D, x.rubric) - Total(D, more)
    BY ScoreBounds DEF less, more
<1> QED BY <1>3, <1>4, <1>5

-----------------------------------------------------------------------------
LEMMA ChargedAreErrors ==
    ASSUME NEW x, NEW p
    PROVE Charged(Counted(x, p)) \subseteq Errors(x)
BY DEF Charged, Counted

(* computeScore: whatever the errors, their prices and the exceptions, no  *)
(* criterion loses more than it is worth, and the score is the total of    *)
(* the rubric less what the criteria lose.  It is never negative: the      *)
(* clamp at zero has nothing to do.                                        *)
THEOREM ScoreWithinRubric ==
    ASSUME NEW x, NEW p, Priceable(x, p)
    PROVE LET result == ComputeScore(x, p)
              total == Total(DOMAIN x.rubric, x.rubric) IN
          /\ \A c \in DOMAIN x.rubric : result.deducted[c] \in 0 .. x.rubric[c]
          /\ result.score \in 0 .. total
          /\ result.score = total - Total(DOMAIN x.rubric, result.deducted)
<1> DEFINE E == Charged(Counted(x, p))
           total == Total(DOMAIN x.rubric, x.rubric)
<1>1. E \subseteq Errors(x)
    BY ChargedAreErrors
<1>2. IsFiniteSet(DOMAIN x.rubric) /\ \A c \in DOMAIN x.rubric : x.rubric[c] \in Nat
    BY DEF Priceable
<1>3. \A c \in DOMAIN x.rubric :
            Deducted(x, p, E)[c] \in Nat /\ Deducted(x, p, E)[c] <= x.rubric[c]
    BY <1>1, DeductedWithinCriterion
<1>4. /\ ScoreOf(x, p, E) \in Nat /\ ScoreOf(x, p, E) <= total
      /\ ScoreOf(x, p, E) = total - Total(DOMAIN x.rubric, Deducted(x, p, E))
    BY <1>1, ScoreBounds
<1>5. total \in Nat
    BY <1>2, TotalNat
<1>6. /\ ComputeScore(x, p).deducted = Deducted(x, p, E)
      /\ ComputeScore(x, p).score = ScoreOf(x, p, E)
    BY DEF ComputeScore
<1> QED BY <1>2, <1>3, <1>4, <1>5, <1>6

(* computeScore: prices that only rise never raise a score.  An error that *)
(* had no price may get one; none that is charged may lose its own.        *)
THEOREM DearerNeverScoresMore ==
    ASSUME NEW x, NEW p, NEW q, Priceable(x, p), Priceable(x, q),
           \A e \in Charged(Counted(x, p)) : p[e] <= q[e]
    PROVE ComputeScore(x, q).score <= ComputeScore(x, p).score
<1>1. Charged(Counted(x, p)) = Charged(Counted(x, q))
    BY DEF Charged, Counted
<1>2. Charged(Counted(x, p)) \subseteq Errors(x)
    BY ChargedAreErrors
<1>3. ScoreOf(x, q, Charged(Counted(x, q))) <= ScoreOf(x, p, Charged(Counted(x, p)))
    BY <1>1, <1>2, ScoreFallsWithCharges
<1> QED BY <1>3 DEF ComputeScore

(* setErrorException: one exception decides about its error alone, for any *)
(* rules, lenses, exceptions before it and prices.                         *)
THEOREM ExceptionDecidesAlone ==
    ASSUME NEW x, CaseFields \subseteq DOMAIN x, NEW p, Priceable(x, p),
           Used(x) \subseteq DOMAIN x.exception, NEW r, NEW e
    PROVE ExceptionIsLocal(x, p, r, e)
<1> DEFINE y == WithException(x, r, e)
           E == Charged(Counted(x, p))
           F == Charged(Counted(y, p))
<1>1. ASSUME NEW f \in CaseFields \ {"exception"} PROVE y[f] = x[f]
    BY <1>1 DEF WithException, CaseFields
<1>2. y.exception = [x.exception EXCEPT ![r] = e]
    BY DEF WithException, CaseFields
<1>3. Decide(y, p) = Decide(x, p)
    BY ExceptionKeepsDecision
<1> HIDE DEF y
<1>4. SameEvidence(x, y)
    BY <1>1 DEF SameEvidence, Evidence, CaseFields
<1>5. /\ y.rubric = x.rubric /\ y.criterion = x.criterion /\ y.rules = x.rules
      /\ y.group = x.group /\ y.own = x.own /\ y.challenge = x.challenge
    BY <1>1 DEF CaseFields
<1>6. Errors(y) = Errors(x)
    BY <1>4, SameDiagnosis
<1>7. Used(y) = Used(x) /\ ModelErrors(y) = ModelErrors(x) /\ Errors(x) \subseteq Used(x)
  <2>1. \A s : MachineChecked(y, s) = MachineChecked(x, s)
      BY <1>5 DEF MachineChecked
  <2>2. y.claim = x.claim
      BY <1>1 DEF CaseFields
  <2> QED BY <1>5, <2>1, <2>2 DEF Used, ModelErrors, Errors, MachineErrors
<1>8. Refuted(y) = Refuted(x)
    BY <1>5, <1>7 DEF Refuted
<1>9. ASSUME NEW s \in Errors(x) \ {r} PROVE Counted(y, p)[s] = Counted(x, p)[s]
  <2>1. s \in DOMAIN x.exception /\ y.exception[s] = x.exception[s]
      BY <1>2, <1>7, <1>9
  <2>2. (s \in Excluded(y) <=> s \in Excluded(x)) /\ (s \in Included(y) <=> s \in Included(x))
      BY <1>7, <2>1 DEF Excluded, Included
  <2> QED BY <1>6, <1>8, <2>2 DEF Counted
<1>10. DOMAIN Counted(x, p) = Errors(x) /\ DOMAIN Counted(y, p) = Errors(x)
    BY <1>6 DEF Counted
<1>11. E \subseteq Errors(x) /\ F \subseteq Errors(x) /\ E \ {r} = F \ {r}
    BY <1>9, <1>10 DEF Charged
<1>12. \A G : Deducted(y, p, G) = Deducted(x, p, G) /\ ScoreOf(y, p, G) = ScoreOf(x, p, G)
    BY <1>5 DEF Deducted, ScoreOf
<1>13. /\ ComputeScore(x, p).counted = Counted(x, p) /\ ComputeScore(y, p).counted = Counted(y, p)
       /\ ComputeScore(x, p).deducted = Deducted(x, p, E)
       /\ ComputeScore(y, p).deducted = Deducted(x, p, F)
       /\ ComputeScore(x, p).score = ScoreOf(x, p, E)
       /\ ComputeScore(y, p).score = ScoreOf(x, p, F)
    BY <1>12 DEF ComputeScore
<1>14. ASSUME NEW c \in DOMAIN x.rubric \ {x.criterion[r]}
       PROVE Deducted(x, p, F)[c] = Deducted(x, p, E)[c]
  <2>1. Due(x, p, F, c) = Due(x, p, E, c)
      BY <1>11, <1>14 DEF Due
  <2> QED BY <1>11, <2>1, DeductedWithinCriterion
<1>15. ASSUME e = "exclude" PROVE ScoreOf(x, p, F) >= ScoreOf(x, p, E)
  <2>1. r \notin F
    <3>1. CASE r \in Errors(x)
      <4>1. r \in Excluded(y)
          BY <1>2, <1>7, <1>15, <3>1 DEF Excluded
      <4>2. Counted(y, p)[r] = "excluded"
          BY <1>6, <3>1, <4>1 DEF Counted
      <4> QED BY <4>2 DEF Charged
    <3>2. CASE r \notin Errors(x)
        BY <1>11, <3>2
    <3> QED BY <3>1, <3>2
  <2>2. F \subseteq E
      BY <1>11, <2>1
  <2>3. \A s \in F : p[s] <= p[s]
      BY <1>11 DEF Priceable, Unpriced
  <2>4. ScoreOf(x, p, E) <= ScoreOf(x, p, F)
      BY <1>11, <2>2, <2>3, ScoreFallsWithCharges
  <2>5. ScoreOf(x, p, E) \in Nat /\ ScoreOf(x, p, F) \in Nat
      BY <1>11, ScoreBounds
  <2> QED BY <2>4, <2>5
<1>16. ScoreOf(x, p, F) \in Nat /\ ScoreOf(x, p, F) <= Total(DOMAIN x.rubric, x.rubric)
    BY <1>11, ScoreBounds
<1> HIDE DEF E, F
<1>17. ASSUME NEW s \in Errors(x) \ {r}
       PROVE ComputeScore(y, p).counted[s] = ComputeScore(x, p).counted[s]
    BY <1>9, <1>13, <1>17
<1>18. ASSUME NEW c \in DOMAIN x.rubric \ {x.criterion[r]}
       PROVE ComputeScore(y, p).deducted[c] = ComputeScore(x, p).deducted[c]
    BY <1>13, <1>14, <1>18
<1>19. /\ e = "exclude" => ComputeScore(y, p).score >= ComputeScore(x, p).score
       /\ 0 <= ComputeScore(y, p).score
       /\ ComputeScore(y, p).score <= Total(DOMAIN x.rubric, x.rubric)
    BY <1>13, <1>15, <1>16
<1> QED BY <1>3, <1>17, <1>18, <1>19 DEF ExceptionIsLocal, y
=============================================================================
