---------------------------- MODULE ClassAverages ----------------------------
(***************************************************************************)
(* The arithmetic of modules/grades/service.py for one class and one term: *)
(* subject averages, general averages and ranks.                           *)
(*                                                                         *)
(* A table maps cells to values; a cell is <<column, thing, student>>.     *)
(* Averages are counted in hundredths of a hundredth of a point: the       *)
(* application computes with that precision, the columns, Numeric(5, 2),   *)
(* keep hundredths of a point (Cent).                                      *)
(***************************************************************************)
EXTENDS Integers, Sequences, FiniteSets, Functions

CONSTANTS
  Student,      \* the students enrolled in the class
  Subject,      \* its class_subjects
  Assessment,   \* the assessments of the term
  SubjectOf,    \* the subject of each assessment
  MaxScore,     \* the maximum of each assessment
  Weight,       \* the weight of each assessment
  Coefficient,  \* the coefficient of each subject
  General,      \* the heading of the general average
  None,         \* NULL
  Missing       \* the row does not exist

ASSUME ClassAssumption ==
  /\ IsFiniteSet(Student) /\ IsFiniteSet(Subject) /\ IsFiniteSet(Assessment)
  /\ SubjectOf \in [Assessment -> Subject]
  /\ MaxScore \in [Assessment -> Nat \ {0}]
  /\ Weight \in [Assessment -> Nat \ {0}]
  /\ Coefficient \in [Subject -> Nat \ {0}]
  /\ General \notin Subject
  /\ Assessment \cap (Subject \cup {General}) = {}
  /\ None \notin Int
  /\ Missing \notin Int
  /\ None # Missing

TargetScale == 20
Point == 10000
Cent == 100
Heading == Subject \cup {General}
Empty == {None, Missing}

\* What a Numeric(5, 2) column keeps of an average.
RoundedToCent(x) == IF x \in Empty THEN x ELSE ((x + Cent \div 2) \div Cent) * Cent

\* The mean of value over S, weighted; None when there is nothing to average.
WeightedMean(value, weight, S) ==
  IF S = {} THEN None
  ELSE SumFunction([x \in S |-> weight[x] * value[x]])
         \div SumFunction([x \in S |-> weight[x]])

\* An assessment that was missed or has no score is left out of the average.
Noted(table, h, s) ==
  {a \in Assessment : SubjectOf[a] = h /\ table[<<"score", a, s>>] \notin Empty}

SubjectAverage(table, h, s) ==
  LET noted == Noted(table, h, s)
      outOf20 == [a \in noted |->
        (table[<<"score", a, s>>] * TargetScale * Point) \div MaxScore[a]]
  IN WeightedMean(outOf20, Weight, noted)

\* The subjects that have an average count with their coefficients.
GeneralAverage(table, s) ==
  LET averaged == {h \in Subject : table[<<"average", h, s>>] \notin Empty}
  IN WeightedMean([h \in averaged |-> table[<<"average", h, s>>]],
                  Coefficient, averaged)

\* Every order ORDER BY average DESC NULLS LAST may return the rows in.
SortedByAverage(table, h, S) ==
  LET average(s) == table[<<"average", h, s>>]
  IN {order \in [1 .. Cardinality(S) -> S] :
        /\ {order[i] : i \in DOMAIN order} = S
        /\ \A i, j \in DOMAIN order : i < j =>
             \/ average(order[j]) = None
             \/ /\ average(order[i]) # None
                /\ average(order[i]) >= average(order[j])}

\* _assign_ranks: the rank of the i-th row is the position of the first row of
\* the run of equal averages it belongs to; no average, no rank.
RankAt(order, average, i) ==
  IF average[order[i]] = None THEN None
  ELSE CHOOSE j \in 1 .. i :
         /\ \A k \in j .. i : average[order[k]] = average[order[i]]
         /\ j > 1 => average[order[j - 1]] # average[order[i]]

\* The ranks of the rows in this order, as cells of heading h.
RanksOf(order, average, h) ==
  [c \in {<<"rank", h, order[i]>> : i \in DOMAIN order} |->
     RankAt(order, average, CHOOSE i \in DOMAIN order : order[i] = c[3])]
=============================================================================
