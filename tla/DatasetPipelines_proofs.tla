----------------------- MODULE DatasetPipelines_proofs -----------------------
(* What TLAPS proves of DatasetPipelines for any frames, families, files and  *)
(* draws: no score is measured on rows that it was fitted, tuned or selected  *)
(* on, scores that are compared are measured on the same rows, and the leakage *)
(* that remains is the one the leakage test looks for.                        *)
EXTENDS DatasetPipelines, TLAPS

(* Steps of a plan, and what the plan of a script looks like.                 *)
Experiments ==
  {"stage1", "stage2", "stage3", "exp1", "exp2", "exp3", "exp4", "exp5", "part1", "part2", "part3",
   "leakage"}
Prepares == [do : {"prepare"}, ds : DataSets, how : Parts]
Scores ==
  {s \in [do : {"score"}, ds : DataSets, how : Parts, on : {"all", "attack", "flood"},
          exp : Experiments, fraction : BOOLEAN] : UsesSelection(s) => s.how = "plain"}
Others == [do : {"select", "synthesize"}, ds : DataSets]
Steps == Prepares \cup Scores \cup Others

(* A frame is prepared before anything is done with it.                       *)
FrameOf(b) == IF b.do = "score" THEN b.how ELSE "plain"
IsPreparation(a, b) == a.do = "prepare" /\ a.ds = b.ds /\ a.how = FrameOf(b)
Grounded(p) ==
  \A k \in DOMAIN p : p[k].do # "prepare" => \E j \in 1..(k - 1) : IsPreparation(p[j], p[k])

GoodPlan(p) == p \in Seq(Steps) /\ Grounded(p)
-----------------------------------------------------------------------------
(* Lemmas on plans.                                                           *)

(* The steps are of their kinds.                                              *)
LEMMA StepTypes ==
  ASSUME NEW d \in DataSets, NEW how \in Parts, NEW on \in {"all", "attack", "flood"},
         NEW exp \in Experiments
  PROVE  /\ Prepare(d) \in Steps /\ Split(d, how) \in Steps
         /\ Select(d) \in Steps /\ Synthesize(d) \in Steps
         /\ Score(d, on, exp) \in Steps /\ ScoreFraction(d, exp) \in Steps
<1>1. Prepare(d) \in Steps /\ Split(d, how) \in Steps
  BY DEF Prepare, Split, Steps, Prepares, Parts
<1>2. Select(d) \in Steps /\ Synthesize(d) \in Steps
  BY DEF Select, Synthesize, Steps, Others
<1>3. Score(d, on, exp) \in Steps
  BY DEF Score, Steps, Scores, Parts
<1>4. ScoreFraction(d, exp) \in Steps
  BY DEF ScoreFraction, Score, Steps, Scores, Parts
<1>5. QED
  BY <1>1, <1>2, <1>3, <1>4

(* A score is a step that may be scored.                                      *)
LEMMA ScoreFacts ==
  ASSUME NEW d \in DataSets, NEW on \in {"all", "attack", "flood"}, NEW exp \in Experiments
  PROVE  /\ Score(d, on, exp) \in Scores /\ Score(d, on, exp).ds = d /\ Score(d, on, exp).how = "plain"
         /\ Score(d, on, exp).exp = exp
<1>1. Score(d, on, exp) \in Steps
  <2>1. "plain" \in Parts
    BY DEF Parts
  <2>2. QED
    BY <2>1, StepTypes
<1>2. Score(d, on, exp).do = "score"
  BY DEF Score
<1>3. Score(d, on, exp) \in Scores
  BY <1>1, <1>2 DEF Steps, Prepares, Others
<1>4. Score(d, on, exp).ds = d /\ Score(d, on, exp).how = "plain" /\ Score(d, on, exp).exp = exp
  BY DEF Score
<1>5. QED
  BY <1>3, <1>4

(* So is a score of the leakage test, whatever part it is of.                 *)
LEMMA ScoreSplitFacts ==
  ASSUME NEW d \in DataSets, NEW how \in Parts
  PROVE  ScoreSplit(d, how) \in Scores /\ ScoreSplit(d, how).ds = d /\ ScoreSplit(d, how).how = how
<1> DEFINE s == Score(d, "all", "leakage")
<1>1. s \in Scores /\ s.exp = "leakage" /\ s.ds = d
  BY ScoreFacts DEF Experiments
<1>2. ScoreSplit(d, how) = [s EXCEPT !.how = how]
  BY DEF ScoreSplit
<1> HIDE DEF s
<1>3. s \in [do : {"score"}, ds : DataSets, how : Parts, on : {"all", "attack", "flood"},
             exp : Experiments, fraction : BOOLEAN]
  BY <1>1 DEF Scores
<1>4. /\ ScoreSplit(d, how) \in [do : {"score"}, ds : DataSets, how : Parts,
                                 on : {"all", "attack", "flood"}, exp : Experiments, fraction : BOOLEAN]
      /\ ScoreSplit(d, how).exp = "leakage" /\ ScoreSplit(d, how).how = how
      /\ ScoreSplit(d, how).ds = d
  BY <1>1, <1>2, <1>3
<1>5. ~ UsesSelection(ScoreSplit(d, how))
  BY <1>4 DEF UsesSelection
<1>6. QED
  BY <1>4, <1>5 DEF Scores

(* A plan may be followed by steps that it has prepared.                      *)
LEMMA GroundedConcat ==
  ASSUME NEW p \in Seq(Steps), NEW q \in Seq(Steps), Grounded(p),
         \A k \in DOMAIN q : q[k].do # "prepare" =>
           \/ \E j \in 1..(k - 1) : IsPreparation(q[j], q[k])
           \/ \E j \in DOMAIN p : IsPreparation(p[j], q[k])
  PROVE  GoodPlan(p \o q)
<1>1. p \o q \in Seq(Steps)
  OBVIOUS
<1>2. /\ Len(p) \in Nat /\ Len(q) \in Nat /\ DOMAIN p = 1..Len(p) /\ DOMAIN q = 1..Len(q)
      /\ DOMAIN (p \o q) = 1..(Len(p) + Len(q))
      /\ \A k \in 1..Len(p) : (p \o q)[k] = p[k]
      /\ \A k \in 1..Len(q) : (p \o q)[Len(p) + k] = q[k]
  OBVIOUS
<1> DEFINE pq == p \o q
<1>3. ASSUME NEW k \in DOMAIN pq, pq[k].do # "prepare"
      PROVE  \E j \in 1..(k - 1) : IsPreparation(pq[j], pq[k])
  <2> HIDE DEF pq
  <2>1. CASE k \in 1..Len(p)
    <3>1. k \in DOMAIN p /\ p[k].do # "prepare" /\ pq[k] = p[k]
      BY <1>2, <1>3, <2>1 DEF pq
    <3>2. PICK j \in 1..(k - 1) : IsPreparation(p[j], p[k])
      BY <3>1 DEF Grounded
    <3>3. j \in 1..Len(p)
      BY <1>2, <2>1
    <3>4. pq[j] = p[j]
      BY <1>2, <3>3 DEF pq
    <3>5. QED
      BY <3>1, <3>2, <3>4
  <2>2. CASE k \notin 1..Len(p)
    <3> DEFINE m == k - Len(p)
    <3>1. m \in 1..Len(q) /\ pq[k] = q[m] /\ k = Len(p) + m
      BY <1>2, <1>3, <2>2 DEF pq
    <3>2. CASE \E j \in 1..(m - 1) : IsPreparation(q[j], q[m])
      <4>1. PICK j \in 1..(m - 1) : IsPreparation(q[j], q[m])
        BY <3>2
      <4>2. Len(p) + j \in 1..(k - 1) /\ pq[Len(p) + j] = q[j]
        BY <1>2, <3>1 DEF pq
      <4>3. QED
        BY <3>1, <4>1, <4>2
    <3>3. CASE \E j \in DOMAIN p : IsPreparation(p[j], q[m])
      <4>1. PICK j \in DOMAIN p : IsPreparation(p[j], q[m])
        BY <3>3
      <4>2. j \in 1..(k - 1) /\ pq[j] = p[j]
        BY <1>2, <3>1 DEF pq
      <4>3. QED
        BY <3>1, <4>1, <4>2
    <3>4. m \in DOMAIN q /\ q[m].do # "prepare"
      BY <1>2, <1>3, <3>1
    <3> HIDE DEF m
    <3>5. QED
      BY <3>2, <3>3, <3>4
  <2>3. QED
    BY <2>1, <2>2
<1>4. QED
  BY <1>1, <1>3 DEF GoodPlan, Grounded

(* Two plans one after the other.                                             *)
LEMMA PlanConcat ==
  ASSUME NEW p, NEW q, GoodPlan(p), GoodPlan(q)
  PROVE  GoodPlan(p \o q)
BY GroundedConcat DEF GoodPlan, Grounded

(* A plan for a data set that may not be there.                               *)
LEMMA PlanWhen ==
  ASSUME NEW d, NEW p, GoodPlan(p)
  PROVE  GoodPlan(When(d, p))
BY DEF When, GoodPlan, Grounded

(* A data set with its preparation in front, and two scores of it.            *)
LEMMA SmallPlans ==
  ASSUME NEW d \in DataSets, NEW on \in {"all", "attack", "flood"}, NEW exp \in Experiments
  PROVE  /\ GoodPlan(<<Prepare(d)>>)
         /\ GoodPlan(<<Prepare(d), Score(d, on, exp)>>)
         /\ GoodPlan(<<Prepare(d), Select(d), Score(d, on, exp)>>)
         /\ GoodPlan(<<Prepare(d), ScoreFraction(d, exp), Score(d, on, exp)>>)
<1>1. /\ Prepare(d) \in Steps /\ Select(d) \in Steps /\ Score(d, on, exp) \in Steps
      /\ ScoreFraction(d, exp) \in Steps
  <2>1. "plain" \in Parts
    BY DEF Parts
  <2>2. QED
    BY <2>1, StepTypes
<1>2. /\ Prepare(d).do = "prepare" /\ Select(d).do = "select"
      /\ IsPreparation(Prepare(d), Score(d, on, exp))
      /\ IsPreparation(Prepare(d), ScoreFraction(d, exp))
      /\ IsPreparation(Prepare(d), Select(d))
  BY DEF Prepare, Select, Score, ScoreFraction, IsPreparation, FrameOf
<1> DEFINE a == Prepare(d)
           b == Select(d)
           c == Score(d, on, exp)
           f == ScoreFraction(d, exp)
<1> HIDE DEF a, b, c, f
<1>3. a \in Steps /\ b \in Steps /\ c \in Steps /\ f \in Steps /\ a.do = "prepare"
      /\ IsPreparation(a, b) /\ IsPreparation(a, c) /\ IsPreparation(a, f)
  BY <1>1, <1>2 DEF a, b, c, f
<1>4. GoodPlan(<<a>>) /\ GoodPlan(<<a, c>>)
  BY <1>3 DEF GoodPlan, Grounded
<1>5. GoodPlan(<<a, b, c>>)
  <2>1. <<a, b, c>> \in Seq(Steps)
    BY <1>3
  <2>2. ASSUME NEW k \in DOMAIN <<a, b, c>>, <<a, b, c>>[k].do # "prepare"
        PROVE  \E j \in 1..(k - 1) : IsPreparation(<<a, b, c>>[j], <<a, b, c>>[k])
    <3>1. k \in {2, 3} /\ 1 \in 1..(k - 1)
      BY <1>3, <2>2
    <3>2. QED
      BY <1>3, <3>1
  <2>3. QED
    BY <2>1, <2>2 DEF GoodPlan, Grounded
<1>6. GoodPlan(<<a, f, c>>)
  <2>1. <<a, f, c>> \in Seq(Steps)
    BY <1>3
  <2>2. ASSUME NEW k \in DOMAIN <<a, f, c>>, <<a, f, c>>[k].do # "prepare"
        PROVE  \E j \in 1..(k - 1) : IsPreparation(<<a, f, c>>[j], <<a, f, c>>[k])
    <3>1. k \in {2, 3} /\ 1 \in 1..(k - 1)
      BY <1>3, <2>2
    <3>2. QED
      BY <1>3, <3>1
  <2>3. QED
    BY <2>1, <2>2 DEF GoodPlan, Grounded
<1>7. QED
  BY <1>4, <1>5, <1>6 DEF a, b, c, f

(* Short plans whose scores follow their preparations.                        *)
LEMMA TuplePlans ==
  ASSUME NEW a \in Steps, NEW b \in Steps, NEW r \in Steps, NEW s \in Steps, NEW t \in Steps,
         a.do = "prepare", b.do = "prepare" \/ IsPreparation(a, b)
  PROVE  /\ IsPreparation(a, s) => GoodPlan(<<a, s>>)
         /\ IsPreparation(a, s) /\ IsPreparation(a, t) => GoodPlan(<<a, s, t>>)
         /\ IsPreparation(a, s) /\ IsPreparation(b, t) => GoodPlan(<<a, b, s, t>>)
         /\ IsPreparation(a, r) /\ IsPreparation(a, s) /\ IsPreparation(a, t) =>
              GoodPlan(<<a, b, r, s, t>>)
         /\ GoodPlan(<<a, b>>)
<1>1. IsPreparation(a, s) => GoodPlan(<<a, s>>)
  BY DEF GoodPlan, Grounded
<1>2. ASSUME IsPreparation(a, s), IsPreparation(a, t) PROVE GoodPlan(<<a, s, t>>)
  <2>1. ASSUME NEW k \in DOMAIN <<a, s, t>>, <<a, s, t>>[k].do # "prepare"
        PROVE  \E j \in 1..(k - 1) : IsPreparation(<<a, s, t>>[j], <<a, s, t>>[k])
    <3>1. k \in {2, 3} /\ 1 \in 1..(k - 1)
      BY <2>1
    <3>2. QED
      BY <1>2, <3>1
  <2>2. QED
    BY <2>1 DEF GoodPlan, Grounded
<1>3. ASSUME IsPreparation(a, s), IsPreparation(b, t) PROVE GoodPlan(<<a, b, s, t>>)
  <2>1. ASSUME NEW k \in DOMAIN <<a, b, s, t>>, <<a, b, s, t>>[k].do # "prepare"
        PROVE  \E j \in 1..(k - 1) : IsPreparation(<<a, b, s, t>>[j], <<a, b, s, t>>[k])
    <3>1. k = 2 \/ (k \in {3, 4} /\ 1 \in 1..(k - 1) /\ 2 \in 1..(k - 1))
      BY <2>1
    <3>2. QED
      BY <1>3, <2>1, <3>1
  <2>2. QED
    BY <2>1 DEF GoodPlan, Grounded
<1>4. ASSUME IsPreparation(a, r), IsPreparation(a, s), IsPreparation(a, t)
      PROVE  GoodPlan(<<a, b, r, s, t>>)
  <2>1. ASSUME NEW k \in DOMAIN <<a, b, r, s, t>>, <<a, b, r, s, t>>[k].do # "prepare"
        PROVE  \E j \in 1..(k - 1) : IsPreparation(<<a, b, r, s, t>>[j], <<a, b, r, s, t>>[k])
    <3>1. k \in {2, 3, 4, 5} /\ 1 \in 1..(k - 1)
      BY <2>1
    <3>2. QED
      BY <1>4, <2>1, <3>1
  <2>2. QED
    BY <2>1 DEF GoodPlan, Grounded
<1>5. GoodPlan(<<a, b>>)
  BY DEF GoodPlan, Grounded
<1>6. QED
  BY <1>1, <1>2, <1>3, <1>4, <1>5

(* Two scores may follow a plan that prepares their data set.                 *)
Supplies(p, d) == \E j \in DOMAIN p : p[j].do = "prepare" /\ p[j].ds = d /\ p[j].how = "plain"

LEMMA PlanThenVariant ==
  ASSUME NEW p, GoodPlan(p), NEW d \in DataSets, NEW exp \in Experiments, Supplies(p, d)
  PROVE  /\ GoodPlan(p \o Variant(d, exp))
         /\ \A e \in DataSets : Supplies(p, e) => Supplies(p \o Variant(d, exp), e)
<1> DEFINE s == Score(d, "all", exp)
           t == Score(d, "flood", exp)
<1>1. s \in Scores /\ s.ds = d /\ s.how = "plain" /\ t \in Scores /\ t.ds = d /\ t.how = "plain"
  BY ScoreFacts
<1>2. Variant(d, exp) = <<s, t>>
  BY DEF Variant
<1> HIDE DEF s, t
<1>3. PICK j \in DOMAIN p : IsPreparation(p[j], s) /\ IsPreparation(p[j], t)
  BY <1>1 DEF IsPreparation, FrameOf, Supplies, Scores
<1>4. <<s, t>> \in Seq(Steps) /\ p \in Seq(Steps) /\ Grounded(p)
  BY <1>1 DEF Steps, GoodPlan
<1>5. \A k \in DOMAIN <<s, t>> : IsPreparation(p[j], <<s, t>>[k])
  BY <1>3
<1>6. GoodPlan(p \o <<s, t>>)
  BY <1>4, <1>5, GroundedConcat
<1>7. \A k \in DOMAIN p : k \in DOMAIN (p \o <<s, t>>) /\ (p \o <<s, t>>)[k] = p[k]
  BY <1>4
<1>8. QED
  BY <1>2, <1>6, <1>7 DEF Supplies

(* Every plan prepares what it scores, whatever could be loaded.              *)
LEMMA PlansAreGood ==
  ASSUME script \in Scripts
  PROVE  GoodPlan(Plan)
<1>1. "watai" \in DataSets /\ "merged" \in DataSets
  BY DEF DataSets
<1>2. "plain" \in Parts /\ "random" \in Parts /\ "group" \in Parts
  BY DEF Parts
<1>3. ASSUME NEW d \in DataSets
      PROVE  /\ GoodPlan(<<Prepare(d)>>)
             /\ GoodPlan(<<Prepare(d), Score(d, "all", "exp1")>>)
             /\ GoodPlan(<<Prepare(d), Select(d), Score(d, "all", "exp2")>>)
             /\ GoodPlan(<<Prepare(d), ScoreFraction(d, "exp4"), Score(d, "all", "exp4")>>)
  BY SmallPlans DEF Experiments
<1>4. ASSUME NEW d \in DataSets, NEW on \in {"all", "attack", "flood"}, NEW exp \in Experiments
      PROVE  /\ Prepare(d) \in Steps /\ Prepare(d).do = "prepare" /\ Score(d, on, exp) \in Steps
             /\ Synthesize(d) \in Steps /\ IsPreparation(Prepare(d), Synthesize(d))
             /\ IsPreparation(Prepare(d), Score(d, on, exp))
  BY <1>2, StepTypes DEF Prepare, Score, Synthesize, IsPreparation, FrameOf
<1>5. CASE script = "training_models"
  <2>1. Plan = TrainingPlan
    BY <1>5 DEF Plan
  <2>2. GoodPlan(TrainingPlan)
    BY <1>1, <1>4, TuplePlans DEF TrainingPlan, Experiments
  <2>3. QED
    BY <2>1, <2>2
<1>6. CASE script = "experiment_file"
  <2>1. Plan = FilePlan
    BY <1>6 DEF Plan
  <2>2. GoodPlan(Experiment1)
    BY <1>1, <1>3, PlanWhen, PlanConcat DEF Experiment1
  <2>3. GoodPlan(Experiment2)
    BY <1>1, <1>3, PlanWhen, PlanConcat DEF Experiment2
  <2>4. GoodPlan(Experiment3)
    <3>1. GoodPlan(<<Prepare("watai"), Score("watai", "all", "exp3"), Score("watai", "flood", "exp3")>>)
      <4>1. ASSUME NEW d \in DataSets
            PROVE  GoodPlan(<<Prepare(d), Score(d, "all", "exp3"), Score(d, "flood", "exp3")>>)
        BY <1>4, TuplePlans DEF Experiments
      <4>2. QED
        BY <1>1, <4>1
    <3>2. QED
      BY <3>1, PlanWhen DEF Experiment3
  <2>5. \A d \in DataSets : GoodPlan(Experiment4(d))
    BY <1>3 DEF Experiment4
  <2>6. ASSUME NEW d \in DataSets PROVE GoodPlan(Experiment5(d))
    BY <1>4, TuplePlans DEF Experiment5, Experiments
  <2>7. QED
    BY <1>1, <2>1, <2>2, <2>3, <2>4, <2>5, <2>6, PlanConcat DEF FilePlan
<1>7. CASE script = "experiment_dataset"
  <2>1. Plan = DatasetPlan
    BY <1>7 DEF Plan
  <2>2. \A d \in DataSets : Supplies(<<Prepare(d)>>, d)
    BY DEF Supplies, Prepare
  <2>3. "part1" \in Experiments /\ "part2" \in Experiments /\ "part3" \in Experiments
    BY DEF Experiments
  <2>4. GoodPlan(Part1) /\ GoodPlan(Part3)
    BY <1>1, <1>3, <2>2, <2>3, PlanThenVariant DEF Part1, Part3
  <2>5. GoodPlan(Part2)
    <3> DEFINE p == <<Prepare("watai"), Prepare("merged")>>
    <3>1. GoodPlan(p)
      BY <1>1, <1>4, TuplePlans DEF Experiments, Prepare
    <3>2. Supplies(p, "watai") /\ Supplies(p, "merged")
      <4>1. 1 \in DOMAIN p /\ 2 \in DOMAIN p /\ p[1] = Prepare("watai") /\ p[2] = Prepare("merged")
        OBVIOUS
      <4> HIDE DEF p
      <4>2. QED
        BY <4>1 DEF Supplies, Prepare
    <3> HIDE DEF p
    <3>3. /\ GoodPlan(p \o Variant("watai", "part2"))
          /\ Supplies(p \o Variant("watai", "part2"), "merged")
      BY <1>1, <2>3, <3>1, <3>2, PlanThenVariant
    <3>4. GoodPlan((p \o Variant("watai", "part2")) \o Variant("merged", "part2"))
      BY <1>1, <2>3, <3>3, PlanThenVariant
    <3>5. QED
      BY <3>4 DEF Part2, p
  <2>6. QED
    BY <2>1, <2>4, <2>5, PlanWhen, PlanConcat DEF DatasetPlan
<1>8. CASE script = "test_leakage"
  <2>1. Plan = LeakagePlan
    BY <1>8 DEF Plan
  <2>2. ASSUME NEW d \in DataSets, NEW how \in Parts
        PROVE  /\ Split(d, how) \in Steps /\ Split(d, how).do = "prepare" /\ ScoreSplit(d, how) \in Steps
               /\ IsPreparation(Split(d, how), ScoreSplit(d, how))
    <3>1. ScoreSplit(d, how) \in Scores /\ ScoreSplit(d, how).ds = d /\ ScoreSplit(d, how).how = how
      BY ScoreSplitFacts
    <3>2. Split(d, how) \in Steps
      BY StepTypes DEF Experiments
    <3>3. QED
      BY <3>1, <3>2 DEF Split, IsPreparation, FrameOf, Steps, Scores
  <2>3. GoodPlan(LeakageTest)
    BY <1>1, <1>2, <2>2, TuplePlans DEF LeakageTest
  <2>4. GoodPlan(MergedReference)
    BY <1>1, <1>2, <2>2, TuplePlans DEF MergedReference
  <2>5. QED
    BY <2>1, <2>3, <2>4, PlanWhen, PlanConcat DEF LeakagePlan
<1>9. QED
  BY <1>5, <1>6, <1>7, <1>8 DEF Scripts
-----------------------------------------------------------------------------
(* Lemmas on the draws.                                                       *)
FramesOf(d) == [train : SUBSET Files[d], val : SUBSET Files[d], test : SUBSET Files[d]]
Apart(f) == f.train \cap f.val = {} /\ f.train \cap f.test = {} /\ f.val \cap f.test = {}

(* Cleaning, drawing, capping and undersampling only take rows away.          *)
LEMMA DrawsWithin ==
  ASSUME NEW S, NEW n, NEW T
  PROVE  /\ Clean(S) \subseteq S
         /\ T \in Kept(S, n) => T \subseteq S
         /\ T \in Capped(S, n) => T \subseteq S
         /\ T \in Undersampled(S, n) => T \subseteq S
<1>1. Clean(S) \subseteq S
  BY DEF Clean
<1>2. \A m, U : U \in Kept(S, m) => U \subseteq S
  BY DEF Kept, kSubset
<1>3. T \in Capped(S, n) => T \subseteq S
  BY <1>2 DEF Capped
<1>4. T \in Undersampled(S, n) => T \subseteq S
  BY DEF Undersampled
<1>5. QED
  BY <1>1, <1>2, <1>3, <1>4

(* A stratified split is one into three parts.                                *)
LEMMA SplitsApart ==
  ASSUME NEW S, NEW s \in Splits(S)
  PROVE  s \in [train : SUBSET S, val : SUBSET S, test : SUBSET S] /\ Apart(s)
<1>1. PICK R \in Kept(S, CeilDiv(Cardinality(S), TestDen)) :
        s \in {[train |-> T, val |-> R \ T, test |-> S \ R] :
                 T \in Kept(R, CeilDiv(Cardinality(R), ValDen))}
  BY DEF Splits
<1>2. PICK T \in Kept(R, CeilDiv(Cardinality(R), ValDen)) :
        s = [train |-> T, val |-> R \ T, test |-> S \ R]
  BY <1>1
<1>3. R \subseteq S /\ T \subseteq R
  BY <1>1, <1>2, DrawsWithin
<1>4. QED
  BY <1>2, <1>3 DEF Apart

(* And the two splits of the leakage test.                                    *)
LEMMA LeakageSplitsApart ==
  ASSUME NEW S, NEW f, f \in RandomSplit(S) \/ f \in GroupSplit(S)
  PROVE  f \in [train : SUBSET S, val : SUBSET S, test : SUBSET S] /\ Apart(f)
<1> DEFINE Cuts == {g \in [train : SUBSET S, val : SUBSET S, test : SUBSET S] : Apart(g)}
<1>1. ASSUME NEW T \in SUBSET S
      PROVE  /\ [train |-> T, val |-> {}, test |-> S \ T] \in Cuts
             /\ [train |-> S \ T, val |-> {}, test |-> T] \in Cuts
  BY DEF Apart
<1> HIDE DEF Cuts
<1>2. ASSUME f \in RandomSplit(S) PROVE f \in Cuts
  <2>1. PICK T \in Kept(S, CeilDiv(Cardinality(S), TestDen)) :
          f = [train |-> T, val |-> {}, test |-> S \ T]
    BY <1>2 DEF RandomSplit
  <2>2. T \in SUBSET S
    BY <2>1, DrawsWithin
  <2>3. QED
    BY <1>1, <2>1, <2>2
<1>3. ASSUME f \in GroupSplit(S) PROVE f \in Cuts
  <2> DEFINE byFamily(F) == UNION {InFiles(OfKind(S, k), F[k]) : k \in Kinds(S)}
  <2>1. \E T : /\ f = [train |-> S \ T, val |-> {}, test |-> T]
               /\ \E F : T = InFiles(S, F) \/ T = byFamily(F)
    BY <1>3 DEF GroupSplit
  <2>2. \A F : InFiles(S, F) \in SUBSET S /\ byFamily(F) \in SUBSET S
    BY DEF InFiles, OfKind
  <2> HIDE DEF byFamily
  <2>3. QED
    BY <1>1, <2>1, <2>2
<1>4. f \in Cuts
  BY <1>2, <1>3
<1>5. QED
  BY <1>4 DEF Cuts

-----------------------------------------------------------------------------
(* The seeded calls.  What a call may draw from its rows, and a memo of the   *)
(* calls that were made: each drew what it may draw, and no two calls on the  *)
(* same rows drew different things.                                           *)
Possible(call, S, out) ==
  /\ call = "split" => out \in Splits(S)
  /\ call \in {"cap", "undersample"} => out \in SUBSET S
  /\ call = "random" => out \in RandomSplit(S)
  /\ call = "group" => out \in GroupSplit(S)

GoodMemo(call, M) ==
  /\ \A m \in M : m = Draw(m.rows, m.out) /\ Possible(call, m.rows, m.out)
  /\ \A m, n \in M : m.rows = n.rows => m.out = n.out

MemoOf(M) == DOMAIN M = Calls /\ \A call \in Calls : GoodMemo(call, M[call])

(* How a frame was prepared, by calls that a memo M keeps.                    *)
MadeBy(M, d, how, f) ==
  IF how = "plain"
  THEN \E s : /\ Draw(Clean(raw[d]), s) \in M["split"]
              /\ Draw(s.train, f.train) \in M["undersample"]
              /\ Draw(s.val, f.val) \in M["cap"]
              /\ Draw(s.test, f.test) \in M["cap"]
              /\ f = [train |-> f.train, val |-> f.val, test |-> f.test]
  ELSE Draw(FloodRows(d), f) \in M[how]

(* A memo takes one more call that agrees with it.                            *)
LEMMA MemoGrows ==
  ASSUME NEW call, NEW M, NEW S, NEW out, GoodMemo(call, M), Possible(call, S, out),
         \A n \in M : n.rows = S => n.out = out
  PROVE  GoodMemo(call, M \cup {Draw(S, out)})
<1> DEFINE x == Draw(S, out)
<1>1. x.rows = S /\ x.out = out /\ x = Draw(x.rows, x.out)
  BY DEF Draw
<1> HIDE DEF x
<1>2. \A m \in M \cup {x} : m = Draw(m.rows, m.out) /\ Possible(call, m.rows, m.out)
  BY <1>1 DEF GoodMemo
<1>3. \A m, n \in M \cup {x} : m.rows = n.rows => m.out = n.out
  BY <1>1 DEF GoodMemo
<1>4. QED
  BY <1>2, <1>3 DEF GoodMemo, x

(* An answer is one that the call may give, and agrees with the memo.         *)
LEMMA AnswersAgree ==
  ASSUME MemoOf(drawn), NEW call \in Calls, NEW S, NEW outcomes,
         \A o \in outcomes : Possible(call, S, o), NEW out \in Answers(call, S, outcomes)
  PROVE  /\ Possible(call, S, out)
         /\ \A n \in drawn[call] : n.rows = S => n.out = out
<1>1. GoodMemo(call, drawn[call])
  BY DEF MemoOf
<1>2. CASE DrawnFrom(call, S) = {}
  <2>1. out \in outcomes
    BY <1>2 DEF Answers
  <2>2. \A n \in drawn[call] : n.rows # S
    BY <1>2 DEF DrawnFrom
  <2>3. QED
    BY <2>1, <2>2
<1>3. CASE DrawnFrom(call, S) # {}
  <2>1. PICK m \in drawn[call] : m.rows = S /\ m.out = out
    BY <1>3 DEF Answers, DrawnFrom
  <2>2. QED
    BY <1>1, <2>1 DEF GoodMemo
<1>4. QED
  BY <1>2, <1>3

(* A call that is in the memo drew what it may draw.                          *)
LEMMA MemoPossible ==
  ASSUME NEW M, MemoOf(M), NEW call \in Calls, NEW S, NEW out, Draw(S, out) \in M[call]
  PROVE  Possible(call, S, out)
<1>1. Draw(S, out).rows = S /\ Draw(S, out).out = out
  BY DEF Draw
<1>2. QED
  BY <1>1 DEF MemoOf, GoodMemo

LEMMA MemoUnique ==
  ASSUME NEW M, MemoOf(M), NEW call \in Calls, NEW S, NEW a, NEW b,
         Draw(S, a) \in M[call], Draw(S, b) \in M[call]
  PROVE  a = b
<1>1. /\ Draw(S, a).rows = S /\ Draw(S, a).out = a
      /\ Draw(S, b).rows = S /\ Draw(S, b).out = b
  BY DEF Draw
<1>2. QED
  BY <1>1 DEF MemoOf, GoodMemo

(* The leakage test's rows are rows of the frame.                             *)
LEMMA FloodRowsWithin ==
  ASSUME NEW d
  PROVE  FloodRows(d) \subseteq raw[d]
<1>1. ASSUME NEW S, S \subseteq raw[d] PROVE Clean(S) \subseteq raw[d]
  BY <1>1, DrawsWithin
<1>2. \A x : Clean({r \in raw[d] : File[r] = x}) \subseteq raw[d]
  BY <1>1
<1>3. Clean(raw[d]) \subseteq raw[d]
  BY <1>1
<1>4. QED
  BY <1>2, <1>3 DEF FloodRows, IsFlood

(* A frame's parts are apart, and made of the rows that were split.           *)
LEMMA MadeApart ==
  ASSUME NEW M, MemoOf(M), raw \in Samples, NEW d \in DataSets, NEW how \in Parts, NEW f, MadeBy(M, d, how, f)
  PROVE  /\ f \in FramesOf(d) /\ Apart(f) /\ f # None
         /\ how = "plain" => f.train \subseteq Clean(raw[d]) /\ f.test \subseteq Clean(raw[d])
         /\ how # "plain" => f.train \subseteq FloodRows(d) /\ f.test \subseteq FloodRows(d)
         /\ how = "group" => f \in GroupSplit(FloodRows(d))
<1>1. raw[d] \subseteq Files[d]
  BY PipelineAssumption
<1>2. \A g \in FramesOf(d) : g # None
  BY NoneAssumption DEF FramesOf
<1>3. CASE how = "plain"
  <2>1. PICK s : /\ Draw(Clean(raw[d]), s) \in M["split"]
                 /\ Draw(s.train, f.train) \in M["undersample"]
                 /\ Draw(s.val, f.val) \in M["cap"]
                 /\ Draw(s.test, f.test) \in M["cap"]
                 /\ f = [train |-> f.train, val |-> f.val, test |-> f.test]
    BY <1>3 DEF MadeBy
  <2>2. Possible("split", Clean(raw[d]), s)
    BY <2>1, MemoPossible DEF Calls
  <2>3. /\ s \in [train : SUBSET Clean(raw[d]), val : SUBSET Clean(raw[d]), test : SUBSET Clean(raw[d])]
        /\ Apart(s)
    BY <2>2, SplitsApart DEF Possible
  <2>4. /\ Possible("undersample", s.train, f.train)
        /\ Possible("cap", s.val, f.val) /\ Possible("cap", s.test, f.test)
    BY <2>1, MemoPossible DEF Calls
  <2>5. f.train \subseteq s.train /\ f.val \subseteq s.val /\ f.test \subseteq s.test
    BY <2>4 DEF Possible
  <2>6. Clean(raw[d]) \subseteq Files[d]
    BY <1>1, DrawsWithin
  <2>7. Apart(f) /\ f.train \subseteq Clean(raw[d]) /\ f.test \subseteq Clean(raw[d])
    BY <2>3, <2>5 DEF Apart
  <2>8. f.train \in SUBSET Files[d] /\ f.val \in SUBSET Files[d] /\ f.test \in SUBSET Files[d]
    BY <2>3, <2>5, <2>6
  <2>9. f \in FramesOf(d)
    BY <2>1, <2>8 DEF FramesOf
  <2>10. QED
    BY <1>2, <1>3, <2>7, <2>9
<1>4. CASE how # "plain"
  <2>1. Draw(FloodRows(d), f) \in M[how]
    BY <1>4 DEF MadeBy
  <2>2. Possible(how, FloodRows(d), f)
    <3>1. how \in Calls
      BY <1>4 DEF Calls, Parts
    <3>2. QED
      BY <2>1, <3>1, MemoPossible
  <2>3. /\ f \in RandomSplit(FloodRows(d)) \/ f \in GroupSplit(FloodRows(d))
        /\ how = "group" => f \in GroupSplit(FloodRows(d))
    BY <1>4, <2>2 DEF Possible, Parts
  <2>4. /\ f \in [train : SUBSET FloodRows(d), val : SUBSET FloodRows(d), test : SUBSET FloodRows(d)]
        /\ Apart(f)
    BY <2>3, LeakageSplitsApart
  <2>5. FloodRows(d) \subseteq Files[d]
    BY <1>1, FloodRowsWithin
  <2>6. f \in FramesOf(d)
    BY <2>4, <2>5 DEF FramesOf
  <2>7. QED
    BY <1>2, <1>4, <2>3, <2>4, <2>6
<1>5. QED
  BY <1>3, <1>4

(* A frame that is prepared twice comes out the same.                         *)
LEMMA MadeUnique ==
  ASSUME NEW M, MemoOf(M), NEW d \in DataSets, NEW how \in Parts, NEW f, NEW g,
         MadeBy(M, d, how, f), MadeBy(M, d, how, g)
  PROVE  f = g
<1>1. CASE how = "plain"
  <2>1. PICK s : /\ Draw(Clean(raw[d]), s) \in M["split"]
                 /\ Draw(s.train, f.train) \in M["undersample"]
                 /\ Draw(s.val, f.val) \in M["cap"]
                 /\ Draw(s.test, f.test) \in M["cap"]
                 /\ f = [train |-> f.train, val |-> f.val, test |-> f.test]
    BY <1>1 DEF MadeBy
  <2>2. PICK t : /\ Draw(Clean(raw[d]), t) \in M["split"]
                 /\ Draw(t.train, g.train) \in M["undersample"]
                 /\ Draw(t.val, g.val) \in M["cap"]
                 /\ Draw(t.test, g.test) \in M["cap"]
                 /\ g = [train |-> g.train, val |-> g.val, test |-> g.test]
    BY <1>1 DEF MadeBy
  <2>3. s = t
    BY <2>1, <2>2, MemoUnique DEF Calls
  <2>4. "undersample" \in Calls /\ "cap" \in Calls
    BY DEF Calls
  <2>5. f.train = g.train /\ f.val = g.val /\ f.test = g.test
    BY <2>1, <2>2, <2>3, <2>4, MemoUnique
  <2>6. QED
    BY <2>1, <2>2, <2>5
<1>2. CASE how # "plain"
  <2>1. Draw(FloodRows(d), f) \in M[how] /\ Draw(FloodRows(d), g) \in M[how]
    BY <1>2 DEF MadeBy
  <2>2. how \in Calls
    BY <1>2 DEF Calls, Parts
  <2>3. QED
    BY <2>1, <2>2, MemoUnique
<1>3. QED
  BY <1>1, <1>2
-----------------------------------------------------------------------------
(* The inductive invariant: the calls are remembered, every frame was made of *)
(* them and cut into disjoint parts, what was prepared is there, the selected *)
(* features and every score come from the frame as it stands.                 *)
Cuts == UNION {FramesOf(d) : d \in DataSets}

FramesMade ==
  /\ frames \in [DataSets -> [Parts -> Cuts \cup {None}]]
  /\ \A d \in DataSets, how \in Parts :
       frames[d][how] # None => MadeBy(drawn, d, how, frames[d][how]) /\ Apart(frames[d][how])


PreparedFrames ==
  \A k \in 1..step : Plan[k].do = "prepare" => frames[Plan[k].ds][Plan[k].how] # None

SelectedFromFrame(d) ==
  selected[d] = {} \/ (frames[d]["plain"] # None /\ selected[d] = frames[d]["plain"].train)

FromFrame(r) ==
  /\ r.ds \in DataSets /\ r.how \in Parts /\ r.on \in {"all", "attack", "flood"}
  /\ frames[r.ds][r.how] # None
  /\ r.train \subseteq frames[r.ds][r.how].train
  /\ r.chosen \subseteq frames[r.ds][r.how].train
  /\ r.val \subseteq frames[r.ds][r.how].val
  /\ r.test = On(r.on, frames[r.ds][r.how].test)

Where == script \in Scripts /\ raw \in Samples /\ step \in Nat /\ step <= Len(Plan)

IInv ==
  /\ Where
  /\ MemoOf(drawn)
  /\ FramesMade
  /\ PreparedFrames
  /\ selected \in [DataSets -> SUBSET UNION {Files[d] : d \in DataSets}]
  /\ \A d \in DataSets : SelectedFromFrame(d)
  /\ \A r \in results : FromFrame(r)

(* What a score looks at is part of the frame.                                *)
LEMMA OnWithin ==
  ASSUME NEW on \in {"all", "attack", "flood"}, NEW S
  PROVE  On(on, S) \subseteq S
BY DEF On, IsFlood

(* The invariant holds at the start.                                          *)
LEMMA InitIInv == Init => IInv
<1> SUFFICES ASSUME Init PROVE IInv
  OBVIOUS
<1>1. script \in Scripts /\ raw \in Samples /\ step = 0
  BY DEF Init
<1>2. Len(Plan) \in Nat
  BY <1>1, PlansAreGood DEF GoodPlan
<1>3. Where
  BY <1>1, <1>2 DEF Where
<1>4. FramesMade /\ MemoOf(drawn)
  BY DEF Init, FramesMade, MemoOf, GoodMemo
<1>5. PreparedFrames
  BY <1>1 DEF PreparedFrames
<1>6. /\ selected \in [DataSets -> SUBSET UNION {Files[d] : d \in DataSets}]
      /\ \A d \in DataSets : SelectedFromFrame(d)
  BY DEF Init, SelectedFromFrame
<1>7. \A r \in results : FromFrame(r)
  BY DEF Init
<1>8. QED
  BY <1>3, <1>4, <1>5, <1>6, <1>7 DEF IInv

(* What the next step of the plan may be.                                     *)
LEMMA NowFacts ==
  ASSUME IInv, step < Len(Plan)
  PROVE  /\ Now \in Steps /\ Plan \in Seq(Steps) /\ step + 1 \in 1..Len(Plan)
         /\ Now.do # "prepare" =>
              FrameOf(Now) \in Parts /\ frames[Now.ds][FrameOf(Now)] # None
<1>1. script \in Scripts /\ step \in Nat /\ PreparedFrames
  BY DEF IInv, Where
<1>2. Plan \in Seq(Steps) /\ Grounded(Plan)
  BY <1>1, PlansAreGood DEF GoodPlan
<1>3. step + 1 \in 1..Len(Plan) /\ Plan[step + 1] \in Steps
  BY <1>1, <1>2
<1>4. ASSUME Now.do # "prepare"
      PROVE  FrameOf(Now) \in Parts /\ frames[Now.ds][FrameOf(Now)] # None
  <2>1. PICK j \in 1..step : IsPreparation(Plan[j], Now)
    BY <1>1, <1>2, <1>3, <1>4 DEF Grounded, Now
  <2>2. FrameOf(Now) \in Parts
    BY <1>3 DEF FrameOf, Now, Steps, Prepares, Scores, Others, Parts
  <2>3. QED
    BY <1>1, <2>1, <2>2 DEF PreparedFrames, IsPreparation
<1>5. QED
  BY <1>2, <1>3, <1>4 DEF Now

(* A step that leaves the frames, the selection and the scores alone keeps    *)
(* the invariant, if it does not prepare.                                     *)
LEMMA QuietStep ==
  ASSUME IInv, UNCHANGED <<script, raw, drawn, frames>>,
         \/ step' = step
         \/ step < Len(Plan) /\ step' = step + 1 /\ Now.do # "prepare"
  PROVE  /\ Where' /\ MemoOf(drawn)' /\ FramesMade' /\ PreparedFrames'
         /\ \A r : FromFrame(r) => FromFrame(r)'
         /\ selected' = selected => \A d \in DataSets : SelectedFromFrame(d)'
<1>1. Plan' = Plan
  BY DEF Plan, TrainingPlan, FilePlan, DatasetPlan, LeakagePlan, Experiment1, Experiment2,
         Experiment3, MergedReference, When, Loaded
<1>2. Plan \in Seq(Steps) /\ step \in Nat
  BY PlansAreGood DEF IInv, Where, GoodPlan
<1>3. Where'
  BY <1>1, <1>2 DEF IInv, Where
<1>4. MemoOf(drawn)' /\ FramesMade'
  <2>1. \A d : FloodRows(d)' = FloodRows(d)
    BY DEF FloodRows
  <2>2. QED
    BY <2>1 DEF IInv, MemoOf, FramesMade, MadeBy
<1>5. PreparedFrames'
  <2>1. ASSUME NEW k \in 1..step', Plan[k].do = "prepare" PROVE k \in 1..step
    BY <1>2, <2>1 DEF Now
  <2>2. QED
    BY <1>1, <2>1 DEF IInv, PreparedFrames
<1>6. QED
  BY <1>3, <1>4, <1>5 DEF IInv, FromFrame, SelectedFromFrame

(* A memo that grew keeps what was made.                                      *)
LEMMA MadeKept ==
  ASSUME NEW M, NEW N, \A call \in Calls : M[call] \subseteq N[call],
         NEW d, NEW how \in Parts, NEW f, MadeBy(M, d, how, f)
  PROVE  MadeBy(N, d, how, f)
<1>1. CASE how = "plain"
  <2>1. "split" \in Calls /\ "undersample" \in Calls /\ "cap" \in Calls
    BY DEF Calls
  <2>2. QED
    BY <1>1, <2>1 DEF MadeBy
<1>2. CASE how # "plain"
  <2>1. how \in Calls
    BY <1>2 DEF Parts, Calls
  <2>2. QED
    BY <1>2, <2>1 DEF MadeBy
<1>3. QED
  BY <1>1, <1>2

(* A frame that was prepared and remembered: the first time it is cut apart,  *)
(* and the next time it comes out as it is.                                   *)
LEMMA PreparedStep ==
  ASSUME IInv, step < Len(Plan), Now.do = "prepare", step' = step + 1,
         UNCHANGED <<script, raw, selected, results>>,
         MemoOf(drawn'), \A call \in Calls : drawn[call] \subseteq drawn'[call],
         NEW ds, NEW how, NEW f, ds = Now.ds, how = Now.how,
         MadeBy(drawn', ds, how, f), frames' = [frames EXCEPT ![ds][how] = f]
  PROVE  IInv' /\ \A d \in DataSets, h \in Parts : frames[d][h] # None => frames'[d][h] = frames[d][h]
<1>1. step \in Nat
  BY DEF IInv, Where
<1>2. Now \in Steps /\ Plan \in Seq(Steps) /\ step + 1 \in 1..Len(Plan)
  BY NowFacts
<1>3. ds \in DataSets /\ how \in Parts
  BY <1>2 DEF Steps, Prepares, Scores, Others
<1>4. FramesMade /\ raw \in Samples
  BY DEF IInv, Where
<1>5. \A d \in DataSets, h \in Parts : frames[d][h] # None => MadeBy(drawn', d, h, frames[d][h])
  BY <1>4, MadeKept DEF FramesMade
<1>6. /\ f \in Cuts /\ Apart(f) /\ f # None
      /\ frames[ds][how] # None => f = frames[ds][how]
  <2>1. f \in FramesOf(ds) /\ Apart(f) /\ f # None
    BY <1>3, <1>4, MadeApart
  <2>2. ASSUME frames[ds][how] # None PROVE f = frames[ds][how]
    BY <1>3, <1>5, <2>2, MadeUnique
  <2>3. QED
    BY <1>3, <2>1, <2>2 DEF Cuts
<1>7. /\ frames' \in [DataSets -> [Parts -> Cuts \cup {None}]]
      /\ frames'[ds][how] = f
      /\ \A d \in DataSets, h \in Parts :
           /\ (d = ds /\ h = how) \/ frames'[d][h] = frames[d][h]
           /\ frames[d][h] # None => frames'[d][h] = frames[d][h]
  BY <1>3, <1>4, <1>6 DEF FramesMade
<1>8. FramesMade'
  <2>1. \A d : FloodRows(d)' = FloodRows(d)
    BY DEF FloodRows
  <2>2. ASSUME NEW d \in DataSets, NEW h \in Parts, frames'[d][h] # None
        PROVE  MadeBy(drawn', d, h, frames'[d][h]) /\ Apart(frames'[d][h])
    <3>1. CASE d = ds /\ h = how
      BY <1>6, <1>7, <3>1
    <3>2. CASE ~(d = ds /\ h = how)
      BY <1>4, <1>5, <1>7, <2>2, <3>2 DEF FramesMade
    <3>3. QED
      BY <3>1, <3>2
  <2>3. \A d, h, g : MadeBy(drawn, d, h, g)' <=> MadeBy(drawn', d, h, g)
    BY <2>1 DEF MadeBy
  <2>4. QED
    BY <1>7, <2>2, <2>3 DEF FramesMade
<1>9. Plan' = Plan
  BY DEF Plan, TrainingPlan, FilePlan, DatasetPlan, LeakagePlan, Experiment1, Experiment2,
         Experiment3, MergedReference, When, Loaded
<1>10. Where'
  BY <1>1, <1>2, <1>9 DEF IInv, Where
<1>11. PreparedFrames'
  <2>1. ASSUME NEW k \in 1..(step + 1), Plan[k].do = "prepare"
        PROVE  frames'[Plan[k].ds][Plan[k].how] # None
    <3>1. CASE k = step + 1
      BY <1>6, <1>7, <3>1 DEF Now
    <3>2. CASE k \in 1..step
      <4>1. frames[Plan[k].ds][Plan[k].how] # None
        BY <2>1, <3>2 DEF IInv, PreparedFrames
      <4>2. Plan[k].ds \in DataSets /\ Plan[k].how \in Parts
        <5>1. Plan[k] \in Steps
          BY <1>1, <1>2, <3>2
        <5>2. QED
          BY <2>1, <5>1 DEF Steps, Prepares, Scores, Others
      <4>3. QED
        BY <1>7, <4>1, <4>2
    <3>3. QED
      BY <1>1, <3>1, <3>2
  <2>2. QED
    BY <1>9, <2>1 DEF PreparedFrames
<1>12. "plain" \in Parts
  BY DEF Parts
<1>13. /\ (selected \in [DataSets -> SUBSET UNION {Files[d] : d \in DataSets}])'
       /\ \A d \in DataSets : SelectedFromFrame(d)'
  BY <1>7, <1>12 DEF IInv, SelectedFromFrame
<1>14. \A r \in results' : FromFrame(r)'
  BY <1>7 DEF IInv, FromFrame
<1>15. QED
  BY <1>7, <1>8, <1>10, <1>11, <1>13, <1>14 DEF IInv

(* The plain preparation: cut, cap and undersample.                           *)
LEMMA PrepareFrameStep ==
  ASSUME IInv, PrepareFrame
  PROVE  IInv' /\ \A d \in DataSets, h \in Parts : frames[d][h] # None => frames'[d][h] = frames[d][h]
<1>1. step < Len(Plan) /\ Now.do = "prepare" /\ Now.how = "plain"
  BY DEF PrepareFrame, Doing, Now
<1>2. UNCHANGED <<script, raw, selected, results>> /\ step' = step + 1
  BY DEF PrepareFrame, Next1
<1> DEFINE S == Clean(raw[Now.ds])
<1>3. PICK s \in Answers("split", S, Splits(S)) :
        \E U \in Balanced(s), V \in Evaluated(s.val), T \in Evaluated(s.test) :
          /\ frames' = [frames EXCEPT ![Now.ds]["plain"] = [train |-> U, val |-> V, test |-> T]]
          /\ drawn' = [drawn EXCEPT !["split"] = @ \cup {Draw(S, s)},
                                   !["undersample"] = @ \cup {Draw(s.train, U)},
                                   !["cap"] = @ \cup {Draw(s.val, V), Draw(s.test, T)}]
  BY DEF PrepareFrame
<1>4. PICK U \in Balanced(s), V \in Evaluated(s.val), T \in Evaluated(s.test) :
        /\ frames' = [frames EXCEPT ![Now.ds]["plain"] = [train |-> U, val |-> V, test |-> T]]
        /\ drawn' = [drawn EXCEPT !["split"] = @ \cup {Draw(S, s)},
                                 !["undersample"] = @ \cup {Draw(s.train, U)},
                                 !["cap"] = @ \cup {Draw(s.val, V), Draw(s.test, T)}]
  BY <1>3
<1> HIDE DEF S
<1>5. MemoOf(drawn) /\ DOMAIN drawn = Calls
  BY DEF IInv, MemoOf
<1>6. "split" \in Calls /\ "undersample" \in Calls /\ "cap" \in Calls
  BY DEF Calls
<1>7. /\ Possible("split", S, s)
      /\ \A n \in drawn["split"] : n.rows = S => n.out = s
  <2>1. \A o \in Splits(S) : Possible("split", S, o)
    BY DEF Possible
  <2>2. QED
    BY <1>3, <1>5, <1>6, <2>1, AnswersAgree
<1>8. /\ Possible("undersample", s.train, U)
      /\ \A n \in drawn["undersample"] : n.rows = s.train => n.out = U
  <2>1. \A o \in Undersampled(s.train, MinPerClass) : Possible("undersample", s.train, o)
    BY DrawsWithin DEF Possible
  <2>2. U \in Answers("undersample", s.train, Undersampled(s.train, MinPerClass))
    BY <1>4 DEF Balanced
  <2>3. QED
    BY <1>5, <1>6, <2>1, <2>2, AnswersAgree
<1>9. ASSUME NEW P, NEW W \in Evaluated(P)
      PROVE  /\ Possible("cap", P, W)
             /\ \A n \in drawn["cap"] : n.rows = P => n.out = W
  <2> DEFINE all == IF script = "training_models" THEN {P} ELSE Capped(P, maxRows)
  <2>1. \A o \in all : o \in SUBSET P
    BY DrawsWithin
  <2>2. W \in Answers("cap", P, all)
    BY <1>9 DEF Evaluated
  <2> HIDE DEF all
  <2>3. \A o \in all : Possible("cap", P, o)
    BY <2>1 DEF Possible
  <2>4. QED
    BY <1>5, <1>6, <2>2, <2>3, AnswersAgree
<1>10. s.val = s.test => V = T
  <2>1. Apart(s)
    BY <1>7, SplitsApart DEF Possible
  <2>2. V \subseteq s.val /\ T \subseteq s.test
    BY <1>4, <1>9 DEF Possible
  <2>3. QED
    BY <2>1, <2>2 DEF Apart
<1>11. /\ DOMAIN drawn' = Calls
       /\ drawn'["split"] = drawn["split"] \cup {Draw(S, s)}
       /\ drawn'["undersample"] = drawn["undersample"] \cup {Draw(s.train, U)}
       /\ drawn'["cap"] = (drawn["cap"] \cup {Draw(s.val, V)}) \cup {Draw(s.test, T)}
       /\ \A c \in Calls \ {"split", "undersample", "cap"} : drawn'[c] = drawn[c]
  BY <1>4, <1>5, <1>6
<1>12. GoodMemo("split", drawn'["split"]) /\ GoodMemo("undersample", drawn'["undersample"])
  BY <1>5, <1>6, <1>7, <1>8, <1>11, MemoGrows DEF MemoOf
<1>13. GoodMemo("cap", drawn'["cap"])
  <2> DEFINE M == drawn["cap"] \cup {Draw(s.val, V)}
  <2>1. GoodMemo("cap", M)
    BY <1>4, <1>5, <1>6, <1>9, MemoGrows DEF MemoOf
  <2>2. \A n \in M : n.rows = s.test => n.out = T
    BY <1>4, <1>9, <1>10 DEF Draw
  <2>3. Possible("cap", s.test, T)
    BY <1>4, <1>9
  <2> HIDE DEF M
  <2>4. GoodMemo("cap", M \cup {Draw(s.test, T)})
    BY <2>1, <2>2, <2>3, MemoGrows
  <2>5. QED
    BY <1>11, <2>4 DEF M
<1>14. MemoOf(drawn')
  BY <1>5, <1>11, <1>12, <1>13 DEF MemoOf
<1>15. \A call \in Calls : drawn[call] \subseteq drawn'[call]
  BY <1>11
<1> DEFINE f == [train |-> U, val |-> V, test |-> T]
<1>16. PICK ds : ds = Now.ds
  OBVIOUS
<1>17. MadeBy(drawn', ds, "plain", f)
  <2>1. Draw(Clean(raw[ds]), s) \in drawn'["split"]
    BY <1>11, <1>16 DEF S
  <2>2. /\ Draw(s.train, f.train) \in drawn'["undersample"]
        /\ Draw(s.val, f.val) \in drawn'["cap"] /\ Draw(s.test, f.test) \in drawn'["cap"]
        /\ f = [train |-> f.train, val |-> f.val, test |-> f.test]
    BY <1>11
  <2>3. QED
    BY <2>1, <2>2 DEF MadeBy
<1> HIDE DEF f
<1>18. frames' = [frames EXCEPT ![ds]["plain"] = f]
  BY <1>4, <1>16 DEF f
<1>19. PICK how : how = "plain"
  OBVIOUS
<1>20. QED
  BY <1>1, <1>2, <1>14, <1>15, <1>16, <1>17, <1>18, <1>19, PreparedStep

(* The two splits of the leakage test.                                        *)
LEMMA PrepareSplitStep ==
  ASSUME IInv, PrepareSplit
  PROVE  IInv' /\ \A d \in DataSets, h \in Parts : frames[d][h] # None => frames'[d][h] = frames[d][h]
<1>1. step < Len(Plan) /\ Now.do = "prepare" /\ Now.how # "plain"
  BY DEF PrepareSplit, Doing, Now
<1>2. UNCHANGED <<script, raw, selected, results>> /\ step' = step + 1
  BY DEF PrepareSplit, Next1
<1>3. Now \in Steps
  BY <1>1, NowFacts
<1>4. PICK ds, how : ds = Now.ds /\ how = Now.how
  OBVIOUS
<1>5. how \in {"random", "group"} /\ how \in Calls /\ how # "plain"
  BY <1>1, <1>3, <1>4 DEF Steps, Prepares, Scores, Others, Parts, Calls
<1> DEFINE S == FloodRows(ds)
<1>6. PICK f \in Answers(how, S, LeakageSplits(how, S)) :
        /\ frames' = [frames EXCEPT ![ds][how] = f]
        /\ drawn' = [drawn EXCEPT ![how] = @ \cup {Draw(S, f)}]
  BY <1>4 DEF PrepareSplit
<1> HIDE DEF S
<1>7. MemoOf(drawn) /\ DOMAIN drawn = Calls
  BY DEF IInv, MemoOf
<1>8. /\ Possible(how, S, f)
      /\ \A n \in drawn[how] : n.rows = S => n.out = f
  <2>1. \A o \in LeakageSplits(how, S) : Possible(how, S, o)
    BY <1>5 DEF Possible, LeakageSplits
  <2>2. QED
    BY <1>5, <1>6, <1>7, <2>1, AnswersAgree
<1>9. /\ DOMAIN drawn' = Calls
      /\ drawn'[how] = drawn[how] \cup {Draw(S, f)}
      /\ \A c \in Calls \ {how} : drawn'[c] = drawn[c]
  BY <1>5, <1>6, <1>7
<1>10. GoodMemo(how, drawn'[how])
  BY <1>5, <1>7, <1>8, <1>9, MemoGrows DEF MemoOf
<1>11. MemoOf(drawn')
  BY <1>7, <1>9, <1>10 DEF MemoOf
<1>12. \A call \in Calls : drawn[call] \subseteq drawn'[call]
  BY <1>9
<1>13. MadeBy(drawn', ds, how, f)
  BY <1>5, <1>9 DEF MadeBy, S
<1>14. QED
  BY <1>1, <1>2, <1>4, <1>6, <1>11, <1>12, <1>13, PreparedStep

(* The features are selected on the training part of the frame.               *)
LEMMA SelectStep ==
  ASSUME IInv, SelectFeatures
  PROVE  IInv'
<1>1. step < Len(Plan) /\ Now.do = "select"
  BY DEF SelectFeatures, Doing, Now
<1>2. UNCHANGED <<script, raw, drawn, frames, results>> /\ step' = step + 1
  BY DEF SelectFeatures, Next1
<1>3. /\ Where' /\ MemoOf(drawn)' /\ FramesMade' /\ PreparedFrames'
      /\ \A r : FromFrame(r) => FromFrame(r)'
  BY <1>1, <1>2, QuietStep
<1>4. Now.ds \in DataSets /\ frames[Now.ds]["plain"] # None
  BY <1>1, NowFacts DEF FrameOf, Steps, Prepares, Scores, Others
<1> DEFINE ds == Now.ds
           train == frames[ds]["plain"].train
<1>5. selected' = [selected EXCEPT ![ds] = train]
  BY DEF SelectFeatures
<1>6. train \in SUBSET UNION {Files[d] : d \in DataSets}
  BY <1>4 DEF IInv, FramesMade, Parts, Cuts, FramesOf
<1> HIDE DEF ds
<1>7. (selected \in [DataSets -> SUBSET UNION {Files[d] : d \in DataSets}])'
  BY <1>4, <1>5, <1>6 DEF IInv, ds
<1>8. \A d \in DataSets : SelectedFromFrame(d)'
  BY <1>2, <1>4, <1>5 DEF IInv, SelectedFromFrame, ds
<1>9. QED
  BY <1>2, <1>3, <1>7, <1>8 DEF IInv

(* A score is measured on the frame it was fitted on.                         *)
LEMMA ScoreStep ==
  ASSUME IInv, ScoreModel
  PROVE  IInv'
<1>1. step < Len(Plan) /\ Now.do = "score"
  BY DEF ScoreModel, Doing, Now
<1>2. UNCHANGED <<script, raw, drawn, frames, selected>> /\ step' = step + 1
  BY DEF ScoreModel, Next1
<1>3. /\ Where' /\ MemoOf(drawn)' /\ FramesMade' /\ PreparedFrames'
      /\ \A r : FromFrame(r) => FromFrame(r)'
      /\ \A d \in DataSets : SelectedFromFrame(d)'
  BY <1>1, <1>2, QuietStep
<1>4. /\ Now \in Scores
      /\ frames[Now.ds][Now.how] # None
  BY <1>1, NowFacts DEF FrameOf, Steps, Prepares, Others
<1>5. PICK train \in FitOn(Now) : results' = results \cup {ResultOf(Now, train)}
  BY DEF ScoreModel
<1> DEFINE s == Now
<1> HIDE DEF s
<1>6. s \in Scores /\ frames[s.ds][s.how] # None /\ train \in FitOn(s)
  BY <1>4, <1>5 DEF s
<1>7. /\ s.ds \in DataSets /\ s.how \in Parts /\ s.on \in {"all", "attack", "flood"}
      /\ UsesSelection(s) => s.how = "plain"
  BY <1>6 DEF Scores
<1>8. train \subseteq frames[s.ds][s.how].train
  BY <1>6, <1>7, OnWithin, DrawsWithin DEF FitOn
<1>9. UsesSelection(s) => selected[s.ds] \subseteq frames[s.ds][s.how].train
  BY <1>7 DEF IInv, SelectedFromFrame
<1>10. FromFrame(ResultOf(s, train))
  BY <1>6, <1>7, <1>8, <1>9, OnWithin DEF FromFrame, ResultOf, TunedOn, MeasuredOn
<1>11. \A r \in results' : FromFrame(r)'
  BY <1>3, <1>5, <1>10 DEF IInv, s
<1>12. QED
  BY <1>2, <1>3, <1>11 DEF IInv

(* Every step keeps the invariant.                                            *)
LEMMA NextIInv == IInv /\ [Next]_vars => IInv'
<1> SUFFICES ASSUME IInv, [Next]_vars PROVE IInv'
  OBVIOUS
<1>1. CASE PrepareFrame \/ PrepareSplit
  BY <1>1, PrepareFrameStep, PrepareSplitStep
<1>2. CASE SelectFeatures
  BY <1>2, SelectStep
<1>3. CASE ScoreModel
  BY <1>3, ScoreStep
<1>4. CASE SynthesizeRows
  <2>1. step < Len(Plan) /\ Now.do = "synthesize"
    BY <1>4 DEF SynthesizeRows, Doing, Now
  <2>2. UNCHANGED <<script, raw, drawn, frames, selected, results>> /\ step' = step + 1
    BY <1>4 DEF SynthesizeRows, Next1
  <2>3. QED
    BY <2>1, <2>2, QuietStep DEF IInv
<1>5. ASSUME UNCHANGED <<script, raw, drawn, frames, selected, results, step>> PROVE IInv'
  BY <1>5, QuietStep DEF IInv
<1>6. CASE SaveResultRow
  BY <1>5, <1>6 DEF SaveResultRow
<1>7. CASE Finish
  BY <1>5, <1>7 DEF Finish
<1>8. CASE Crash
  BY <1>5, <1>8 DEF Crash
<1>9. CASE UNCHANGED vars
  BY <1>5, <1>9 DEF vars
<1>10. QED
  BY <1>1, <1>2, <1>3, <1>4, <1>6, <1>7, <1>8, <1>9 DEF Next

(* Every score comes from the parts of its frame, as the frame stands.         *)
THEOREM ScoresComeFromFrames == Spec => []IInv
BY InitIInv, NextIInv, PTL DEF Spec
-----------------------------------------------------------------------------
(* No row that a score is measured on was fitted on, tuned on, or looked at   *)
(* by the selection of the features, in any script and for any draw.          *)
THEOREM FitAndTestApart == Spec => []FittedApart
<1>1. IInv => FittedApart
  <2> SUFFICES ASSUME IInv, NEW r \in results
               PROVE  (r.train \cup r.val \cup r.chosen) \cap r.test = {}
    BY DEF FittedApart
  <2>1. FromFrame(r) /\ Apart(frames[r.ds][r.how])
    BY DEF IInv, FromFrame, FramesMade
  <2>2. r.test \subseteq frames[r.ds][r.how].test
    BY <2>1, OnWithin DEF FromFrame
  <2>3. QED
    BY <2>1, <2>2 DEF FromFrame, Apart
<1>2. QED
  BY <1>1, ScoresComeFromFrames, PTL

(* Scores that are compared are measured on the same rows.                    *)
THEOREM ComparedOnSameRows == Spec => []SameTestRows
<1>1. IInv => SameTestRows
  BY DEF IInv, FromFrame, SameTestRows
<1>2. QED
  BY <1>1, ScoresComeFromFrames, PTL
-----------------------------------------------------------------------------
(* Which scores a script takes: only the leakage test scores other cuts than  *)
(* the plain one, and it scores whole parts.                                  *)
PlainSteps == {s \in Steps : s.do = "score" => s.how = "plain"}
WholeSteps == {s \in Steps : s.do = "score" => s.on = "all" /\ ~s.fraction}

LEMMA PlainStepTypes ==
  ASSUME NEW d \in DataSets, NEW on \in {"all", "attack", "flood"}, NEW exp \in Experiments
  PROVE  /\ Prepare(d) \in PlainSteps /\ Select(d) \in PlainSteps /\ Synthesize(d) \in PlainSteps
         /\ Score(d, on, exp) \in PlainSteps /\ ScoreFraction(d, exp) \in PlainSteps
<1>1. /\ Prepare(d) \in Steps /\ Select(d) \in Steps /\ Synthesize(d) \in Steps
      /\ Score(d, on, exp) \in Steps /\ ScoreFraction(d, exp) \in Steps
  <2>1. "plain" \in Parts
    BY DEF Parts
  <2>2. QED
    BY <2>1, StepTypes
<1>2. /\ Prepare(d).do = "prepare" /\ Select(d).do = "select" /\ Synthesize(d).do = "synthesize"
      /\ Score(d, on, exp).how = "plain" /\ ScoreFraction(d, exp).how = "plain"
  BY DEF Prepare, Select, Synthesize, Score, ScoreFraction
<1>3. QED
  BY <1>1, <1>2 DEF PlainSteps

LEMMA PlainPlans ==
  ASSUME script \in Scripts, script # "test_leakage"
  PROVE  Plan \in Seq(PlainSteps)
<1>1. "watai" \in DataSets /\ "merged" \in DataSets
  BY DEF DataSets
<1>2. ASSUME NEW p \in Seq(PlainSteps), NEW q \in Seq(PlainSteps), NEW d
      PROVE  p \o q \in Seq(PlainSteps) /\ When(d, p) \in Seq(PlainSteps)
  BY DEF When
<1>3. ASSUME NEW d \in DataSets, NEW exp \in Experiments
      PROVE  /\ Prepare(d) \in PlainSteps /\ Select(d) \in PlainSteps /\ Synthesize(d) \in PlainSteps
             /\ \A on \in {"all", "attack", "flood"} : Score(d, on, exp) \in PlainSteps
             /\ ScoreFraction(d, exp) \in PlainSteps
  BY PlainStepTypes
<1>4. ASSUME NEW d \in DataSets
      PROVE  /\ <<Prepare(d), Score(d, "all", "exp1")>> \in Seq(PlainSteps)
             /\ <<Prepare(d), Select(d), Score(d, "all", "exp2")>> \in Seq(PlainSteps)
             /\ <<Prepare(d), Score(d, "all", "exp3"), Score(d, "flood", "exp3")>> \in Seq(PlainSteps)
             /\ Experiment4(d) \in Seq(PlainSteps) /\ Experiment5(d) \in Seq(PlainSteps)
  BY <1>3 DEF Experiments, Experiment4, Experiment5
<1>5. CASE script = "training_models"
  <2>1. TrainingPlan \in Seq(PlainSteps)
    BY <1>1, <1>3 DEF TrainingPlan, Experiments
  <2>2. QED
    BY <1>5, <2>1 DEF Plan
<1>6. CASE script = "experiment_file"
  <2>1. Experiment1 \in Seq(PlainSteps)
    BY <1>1, <1>2, <1>4 DEF Experiment1
  <2>2. Experiment2 \in Seq(PlainSteps)
    BY <1>1, <1>2, <1>4 DEF Experiment2
  <2>3. Experiment3 \in Seq(PlainSteps)
    BY <1>1, <1>2, <1>4 DEF Experiment3
  <2>4. FilePlan \in Seq(PlainSteps)
    BY <1>1, <1>2, <1>4, <2>1, <2>2, <2>3 DEF FilePlan
  <2>5. QED
    BY <1>6, <2>4 DEF Plan
<1>7. CASE script = "experiment_dataset"
  <2>1. ASSUME NEW d \in DataSets, NEW exp \in Experiments
        PROVE  Variant(d, exp) \in Seq(PlainSteps) /\ <<Prepare(d)>> \in Seq(PlainSteps)
    BY <1>3 DEF Variant
  <2>2. "part1" \in Experiments /\ "part2" \in Experiments /\ "part3" \in Experiments
    BY DEF Experiments
  <2>3. Part1 \in Seq(PlainSteps) /\ Part3 \in Seq(PlainSteps)
    BY <1>1, <1>2, <2>1, <2>2 DEF Part1, Part3
  <2>4. <<Prepare("watai"), Prepare("merged")>> \in Seq(PlainSteps)
    BY <1>1, <1>3, <2>2
  <2>5. Part2 \in Seq(PlainSteps)
    BY <1>1, <1>2, <2>1, <2>2, <2>4 DEF Part2
  <2>6. DatasetPlan \in Seq(PlainSteps)
    BY <1>2, <2>3, <2>5 DEF DatasetPlan
  <2>7. QED
    BY <1>7, <2>6 DEF Plan
<1>8. QED
  BY <1>5, <1>6, <1>7 DEF Scripts

LEMMA WholePlan ==
  ASSUME script = "test_leakage"
  PROVE  Plan \in Seq(WholeSteps)
<1>1. ASSUME NEW d \in DataSets, NEW how \in Parts
      PROVE  Split(d, how) \in WholeSteps /\ ScoreSplit(d, how) \in WholeSteps
  <2>1. ScoreSplit(d, how) \in Steps
    BY ScoreSplitFacts DEF Steps
  <2>2. ScoreSplit(d, how).on = "all" /\ ScoreSplit(d, how).fraction = FALSE
    BY DEF ScoreSplit, Score
  <2>3. Split(d, how) \in Steps /\ Split(d, how).do = "prepare"
    BY StepTypes DEF Split, Experiments
  <2>4. QED
    BY <2>1, <2>2, <2>3 DEF WholeSteps
<1>2. "watai" \in DataSets /\ "merged" \in DataSets /\ "random" \in Parts /\ "group" \in Parts
  BY DEF DataSets, Parts
<1>3. LeakageTest \in Seq(WholeSteps) /\ MergedReference \in Seq(WholeSteps)
  BY <1>1, <1>2 DEF LeakageTest, MergedReference
<1>4. LeakagePlan \in Seq(WholeSteps)
  BY <1>3 DEF LeakagePlan, When
<1>5. QED
  BY <1>4 DEF Plan

(* The leakage test fits and scores the whole parts of its frames.            *)
WholeParts(r) ==
  r.how # "plain" =>
    /\ script = "test_leakage"
    /\ r.train = frames[r.ds][r.how].train /\ r.test = frames[r.ds][r.how].test

WholeInv == \A r \in results : WholeParts(r)

LEMMA WholeScore ==
  ASSUME IInv, WholeInv, ScoreModel
  PROVE  WholeInv'
<1>1. step < Len(Plan) /\ Now.do = "score"
  BY DEF ScoreModel, Doing, Now
<1>2. UNCHANGED <<script, raw, frames>>
  BY DEF ScoreModel
<1>3. PICK train \in FitOn(Now) : results' = results \cup {ResultOf(Now, train)}
  BY DEF ScoreModel
<1>4. step + 1 \in DOMAIN Plan /\ script \in Scripts /\ Now = Plan[step + 1]
  BY <1>1, NowFacts DEF IInv, Where, Now
<1>5. Now.how # "plain" =>
        script = "test_leakage" /\ Now.on = "all" /\ ~Now.fraction
  <2>1. CASE script = "test_leakage"
    <3>1. Now \in WholeSteps
      BY <1>4, <2>1, WholePlan
    <3>2. QED
      BY <1>1, <2>1, <3>1 DEF WholeSteps
  <2>2. CASE script # "test_leakage"
    <3>1. Now \in PlainSteps
      BY <1>4, <2>2, PlainPlans
    <3>2. QED
      BY <1>1, <3>1 DEF PlainSteps
  <2>3. QED
    BY <2>1, <2>2
<1> DEFINE s == Now
<1> HIDE DEF s
<1>6. WholeParts(ResultOf(s, train))
  BY <1>3, <1>5 DEF WholeParts, ResultOf, FitOn, MeasuredOn, On, s
<1>7. \A r \in results' : WholeParts(r)'
  BY <1>2, <1>3, <1>6 DEF WholeInv, WholeParts, s
<1>8. QED
  BY <1>7 DEF WholeInv

LEMMA NextWhole == IInv /\ WholeInv /\ [Next]_vars => WholeInv'
<1> SUFFICES ASSUME IInv, WholeInv, [Next]_vars PROVE WholeInv'
  OBVIOUS
<1>1. CASE PrepareFrame \/ PrepareSplit
  <2>1. \A d \in DataSets, h \in Parts : frames[d][h] # None => frames'[d][h] = frames[d][h]
    BY <1>1, PrepareFrameStep, PrepareSplitStep
  <2>2. UNCHANGED <<script, results>>
    BY <1>1 DEF PrepareFrame, PrepareSplit
  <2>3. ASSUME NEW r \in results PROVE WholeParts(r)'
    <3>1. r.ds \in DataSets /\ r.how \in Parts /\ frames[r.ds][r.how] # None
      BY DEF IInv, FromFrame
    <3>2. frames'[r.ds][r.how] = frames[r.ds][r.how]
      BY <2>1, <3>1
    <3>3. QED
      BY <2>2, <3>2 DEF WholeInv, WholeParts
  <2>4. QED
    BY <2>2, <2>3 DEF WholeInv
<1>2. CASE ScoreModel
  BY <1>2, WholeScore
<1>3. ASSUME UNCHANGED <<script, frames, results>> PROVE WholeInv'
  BY <1>3 DEF WholeInv, WholeParts
<1>4. CASE SynthesizeRows
  BY <1>3, <1>4 DEF SynthesizeRows
<1>5. CASE SelectFeatures
  BY <1>3, <1>5 DEF SelectFeatures
<1>6. CASE SaveResultRow \/ Finish \/ Crash \/ UNCHANGED vars
  BY <1>3, <1>6 DEF SaveResultRow, Finish, Crash, vars
<1>7. QED
  BY <1>1, <1>2, <1>4, <1>5, <1>6 DEF Next

LEMMA WholeAlways == Spec => []WholeInv
<1>1. Init => WholeInv
  BY DEF Init, WholeInv
<1>2. QED
  BY <1>1, NextWhole, ScoresComeFromFrames, PTL DEF Spec
-----------------------------------------------------------------------------
(* What cleaning leaves.  Two rows of one clean set never agree in their       *)
(* features and in their raw label.                                           *)
LEMMA CleanHasNoTwins ==
  ASSUME NEW S \in SUBSET Nat, NEW p \in Clean(S), NEW q \in Clean(S), p # q, Key[p] = Key[q]
  PROVE  Class[p] # Class[q]
<1>1. p \in S /\ q \in S /\ (p < q \/ q < p)
  BY DEF Clean
<1>2. QED
  BY <1>1 DEF Clean

(* The leakage test's rows agree in features and label only across files.     *)
LEMMA FloodTwins ==
  ASSUME raw \in Samples, NEW d \in DataSets, NEW p \in FloodRows(d), NEW q \in FloodRows(d),
         p # q, Key[p] = Key[q], Class[p] = Class[q]
  PROVE  d = "watai" /\ File[p] # File[q]
<1>1. raw[d] \subseteq Nat
  BY PipelineAssumption
<1>2. d = "watai"
  <2>1. CASE d # "watai"
    <3>1. p \in Clean(raw[d]) /\ q \in Clean(raw[d])
      BY <2>1 DEF FloodRows, IsFlood
    <3>2. QED
      BY <1>1, <3>1, CleanHasNoTwins
  <2>2. QED
    BY <2>1
<1>3. ASSUME File[p] = File[q] PROVE FALSE
  <2> DEFINE of(f) == {r \in raw[d] : File[r] = f}
  <2>1. /\ p \in UNION {Clean(of(f)) : f \in {File[r] : r \in raw[d]}}
        /\ q \in UNION {Clean(of(f)) : f \in {File[r] : r \in raw[d]}}
    BY <1>2 DEF FloodRows, IsFlood
  <2>2. \A h : of(h) \in SUBSET Nat /\ Clean(of(h)) \subseteq of(h) /\ \A r \in of(h) : File[r] = h
    BY <1>1, DrawsWithin
  <2> HIDE DEF of
  <2>3. PICK f, g : p \in Clean(of(f)) /\ q \in Clean(of(g))
    BY <2>1
  <2>4. f = g
    BY <1>3, <2>2, <2>3
  <2>5. QED
    BY <2>2, <2>3, <2>4, CleanHasNoTwins
<1>4. QED
  BY <1>2, <1>3

(* A row that is scored and one that was fitted on agree in all features only  *)
(* if their raw labels differ or, in the leakage test, their files.           *)
THEOREM TwinsAreExplained == Spec => []TwinsExplained
<1>1. IInv /\ WholeInv => TwinsExplained
  <2> SUFFICES ASSUME IInv, WholeInv, NEW r \in results, NEW p \in r.train, NEW q \in r.test,
                      Key[p] = Key[q], Class[p] = Class[q]
               PROVE  script = "test_leakage" /\ r.ds = "watai" /\ File[p] # File[q]
    BY DEF TwinsExplained
  <2> DEFINE f == frames[r.ds][r.how]
  <2>1. r.ds \in DataSets /\ r.how \in Parts /\ r.on \in {"all", "attack", "flood"} /\ FromFrame(r)
    BY DEF IInv, FromFrame
  <2>2. p \in f.train /\ q \in f.test /\ f # None /\ Apart(f)
    BY <2>1, OnWithin DEF FromFrame, IInv, FramesMade
  <2>3. p # q
    BY <2>2 DEF Apart
  <2>4. MadeBy(drawn, r.ds, r.how, f) /\ raw \in Samples /\ MemoOf(drawn)
    BY <2>1, <2>2 DEF FramesMade, IInv, Where
  <2> HIDE DEF f
  <2>5. CASE r.how = "plain"
    <3>1. p \in Clean(raw[r.ds]) /\ q \in Clean(raw[r.ds])
      BY <2>1, <2>2, <2>4, <2>5, MadeApart
    <3>2. raw[r.ds] \in SUBSET Nat
      BY <2>1, <2>4, PipelineAssumption
    <3>3. QED
      BY <2>3, <3>1, <3>2, CleanHasNoTwins
  <2>6. CASE r.how # "plain"
    <3>1. p \in FloodRows(r.ds) /\ q \in FloodRows(r.ds)
      BY <2>1, <2>2, <2>4, <2>6, MadeApart
    <3>2. r.ds = "watai" /\ File[p] # File[q]
      BY <2>1, <2>3, <2>4, <3>1, FloodTwins
    <3>3. QED
      BY <2>6, <3>2 DEF WholeInv, WholeParts
  <2>7. QED
    BY <2>5, <2>6
<1>2. QED
  BY <1>1, ScoresComeFromFrames, WholeAlways, PTL
-----------------------------------------------------------------------------
(* One group split: it keeps files whole, unless the library refuses; then it  *)
(* keeps the rows of one family and file together.                            *)
LEMMA GroupSplitKeepsFiles ==
  ASSUME NEW S, NEW f \in GroupSplit(S), NEW p \in f.train, NEW q \in f.test, File[p] = File[q]
  PROVE  Kind(p) # Kind(q) /\ TooFewForFolds(S) /\ f.train \cup f.test = S
<1> DEFINE byFamily(F) == UNION {InFiles(OfKind(S, k), F[k]) : k \in Kinds(S)}
<1>1. CASE ~TooFewForFolds(S)
  <2>1. PICK F : f = [train |-> S \ InFiles(S, F), val |-> {}, test |-> InFiles(S, F)]
    BY <1>1 DEF GroupSplit
  <2>2. p \in S \ InFiles(S, F) /\ q \in InFiles(S, F)
    BY <2>1
  <2>3. QED
    BY <2>2 DEF InFiles
<1>2. CASE TooFewForFolds(S)
  <2>1. PICK F : f = [train |-> S \ byFamily(F), val |-> {}, test |-> byFamily(F)]
    BY <1>2 DEF GroupSplit
  <2>2. byFamily(F) \subseteq S
    BY DEF InFiles, OfKind
  <2>3. p \in S \ byFamily(F) /\ q \in byFamily(F)
    BY <2>1
  <2>4. PICK k \in Kinds(S) : q \in InFiles(OfKind(S, k), F[k])
    BY <2>3
  <2>5. Kind(q) = k /\ File[q] \in F[k]
    BY <2>4 DEF InFiles, OfKind
  <2>6. Kind(p) # k
    <3>1. p \notin InFiles(OfKind(S, k), F[k]) /\ p \in S
      BY <2>3
    <3>2. QED
      BY <2>5, <3>1 DEF InFiles, OfKind
  <2> HIDE DEF byFamily
  <2>7. f.train \cup f.test = S
    BY <2>1, <2>2
  <2>8. QED
    BY <1>2, <2>5, <2>6, <2>7
<1>3. QED
  BY <1>1, <1>2

(* The group split of the leakage test leaves a file on both sides only if the *)
(* library refused to stratify, and then no family of it.                     *)
THEOREM FilesStayWhole == Spec => []FilesCrossOnlyWhenMixed
<1>1. IInv /\ WholeInv => FilesCrossOnlyWhenMixed
  <2> SUFFICES ASSUME IInv, WholeInv, NEW r \in results, r.how = "group",
                      NEW p \in r.train, NEW q \in r.test, File[p] = File[q]
               PROVE  Kind(p) # Kind(q) /\ TooFewForFolds(r.train \cup r.test)
    BY DEF FilesCrossOnlyWhenMixed
  <2> DEFINE f == frames[r.ds]["group"]
  <2>1. r.ds \in DataSets /\ r.how \in Parts /\ f # None
    BY DEF IInv, FromFrame
  <2>2. r.train = f.train /\ r.test = f.test
    BY DEF WholeInv, WholeParts
  <2>3. f \in GroupSplit(FloodRows(r.ds))
    <3>1. MadeBy(drawn, r.ds, "group", f) /\ raw \in Samples /\ MemoOf(drawn)
      BY <2>1 DEF IInv, FramesMade, Where
    <3>2. QED
      BY <2>1, <3>1, MadeApart
  <2> HIDE DEF f
  <2>4. /\ Kind(p) # Kind(q) /\ TooFewForFolds(FloodRows(r.ds))
        /\ f.train \cup f.test = FloodRows(r.ds)
    BY <2>2, <2>3, GroupSplitKeepsFiles
  <2>5. QED
    BY <2>2, <2>4
<1>2. QED
  BY <1>1, ScoresComeFromFrames, WholeAlways, PTL
=============================================================================
