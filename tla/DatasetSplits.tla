---------------------------- MODULE DatasetSplits ----------------------------
(* The data preparation that training_models.py, experiment_file.py and      *)
(* experiment_dataset.py share, as operators on sets of CSV rows: cleaning,   *)
(* family mapping, the stratified split, the cap on the evaluation parts and  *)
(* the undersampling of the training part.                                    *)
(*                                                                            *)
(* A row is a natural number, its place in the loaded frame.  What a seeded   *)
(* draw (RANDOM_STATE) picks is not modelled: an operator returns the set of  *)
(* all the draws the library can make, and its user keeps one of them.        *)
EXTENDS Naturals, FiniteSets, FiniteSetsExt

CONSTANTS
  Class,       \* row -> the raw label it was loaded with
  Family,      \* raw label -> attack family (ATTACK_FAMILY_MAP)
  Key,         \* row -> its feature values, up to equality
  Broken,      \* the rows with a missing or infinite value
  TestDen,     \* one row in TestDen is held out for the test
  ValDen       \* one row in ValDen of the others is held out for validation

Kind(r) == Family[Class[r]]

Kinds(S) == {Kind(r) : r \in S}

OfKind(S, f) == {r \in S : Kind(r) = f}

Count(S, f) == Cardinality(OfKind(S, f))

(* Mutant: dropna alone.                                                      *)
CleanKeepsRepeats(S) == S \ Broken

(* drop_duplicates compares the features and the raw label, then dropna.  Two *)
(* equal rows of different raw labels both stay, though the labels may be of  *)
(* one family.                                                                *)
Clean(S) ==
  {r \in S : \A q \in S : q < r => Key[q] # Key[r] \/ Class[q] # Class[r]} \ Broken

CeilDiv(a, b) == (a + b - 1) \div b

(* How a stratified draw of n rows is shared out: every family gets its part  *)
(* rounded down, and what is left goes to the largest remainders.             *)
Shares(S, n) ==
  LET N == Cardinality(S)
      floor(f) == (Count(S, f) * n) \div N
      rest(f) == (Count(S, f) * n) % N
      up(a) == {f \in Kinds(S) : a[f] = floor(f) + 1}
  IN {a \in [Kinds(S) -> 0..n] :
        /\ SumFunction(a) = n
        /\ \A f \in Kinds(S) : a[f] \in {floor(f), floor(f) + 1}
        /\ \A f \in up(a) : rest(f) > 0
        /\ \A f \in up(a), g \in Kinds(S) \ up(a) : rest(f) >= rest(g)}

(* train_test_split refuses a family with one row, and a part with fewer rows *)
(* than there are families.                                                   *)
CanSplit(S, held) ==
  /\ \A f \in Kinds(S) : Count(S, f) >= 2
  /\ held >= Cardinality(Kinds(S))
  /\ Cardinality(S) - held >= Cardinality(Kinds(S))

(* Every way to keep all but held of the rows; none where the library raises. *)
Kept(S, held) ==
  IF ~CanSplit(S, held) THEN {}
  ELSE LET shares == Shares(S, Cardinality(S) - held)
       IN {T \in kSubset(Cardinality(S) - held, S) :
             [f \in Kinds(S) |-> Count(T, f)] \in shares}

(* split_ciciot, split_dataset: the test rows are set aside first, then the   *)
(* validation rows are carved out of the rest.                                *)
Splits(S) ==
  UNION {{[train |-> T, val |-> R \ T, test |-> S \ R] :
            T \in Kept(R, CeilDiv(Cardinality(R), ValDen))} :
         R \in Kept(S, CeilDiv(Cardinality(S), TestDen))}

(* cap_rows_stratified: a part that is larger than max is drawn down to it.   *)
Capped(S, max) ==
  IF Cardinality(S) <= max THEN {S} ELSE Kept(S, Cardinality(S) - max)

(* int(counts.median()) *)
Median(S) ==
  LET upTo(v) == Cardinality({f \in Kinds(S) : Count(S, f) <= v})
      nth(k) == CHOOSE v \in 0..Cardinality(S) : upTo(v) >= k /\ \A u \in 0..(v - 1) : upTo(u) < k
      K == Cardinality(Kinds(S))
  IN (nth((K + 1) \div 2) + nth((K \div 2) + 1)) \div 2

(* undersample_train: no family keeps more rows than the median family has,   *)
(* or than the floor if that is more.                                         *)
RowsPerKind(S, floor) == IF Median(S) > floor THEN Median(S) ELSE floor

Undersampled(S, floor) ==
  LET cap == RowsPerKind(S, floor)
      want(f) == IF Count(S, f) > cap THEN cap ELSE Count(S, f)
  IN {T \in SUBSET S : \A f \in Kinds(S) : Count(T, f) = want(f)}
=============================================================================
