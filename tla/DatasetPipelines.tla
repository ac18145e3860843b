--------------------------- MODULE DatasetPipelines ---------------------------
(* The offline scripts that train and compare the detectors:                  *)
(*   training_models.py (run_pipeline), experiment_file.py (experiments 1-5), *)
(*   experiment_dataset.py (parts 1-3) and test_leakage.py.                   *)
(* Each one loads one or two data sets, prepares train, validation and test   *)
(* parts, fits models on the one and scores them on the other, again and      *)
(* again.  The model keeps which rows every step has seen, so that it can say *)
(* what a score was measured on.  Models, scalers and encoders are the rows   *)
(* they were fitted on; their numbers are left out.                           *)
EXTENDS DatasetSplits, Sequences

CONSTANTS
  Samples,       \* the frames the two loaders may return (sample_frac, missing files)
  Files,         \* data set -> all its rows on disk
  File,          \* row -> the CSV part file it was read from
  Native10,      \* the raw labels captured in windows of ten packets
  GroupSize,     \* rows that make one synthetic row
  MaxGroups,     \* synthetic rows per raw label
  MinPerClass,   \* floor of the undersampling
  MaxEvalRows,   \* the caps on the validation and test parts main is called with
  None

Scripts == {"training_models", "experiment_file", "experiment_dataset", "test_leakage"}
DataSets == {"watai", "merged"}
Flood == {"DDoS", "DoS"}

ASSUME PipelineAssumption ==
  /\ GroupSize \in Nat \ {0, 1} /\ MaxGroups \in Nat
  /\ MinPerClass \in Nat \ {0} /\ MaxEvalRows \subseteq Nat
  /\ \A d \in DataSets : Files[d] \subseteq Nat
  /\ \A s \in Samples, d \in DataSets : s[d] \subseteq Files[d]

(* A frame that is not prepared is none of the frames that can be.            *)
ASSUME NoneAssumption ==
  \A d \in DataSets :
    None \notin [train : SUBSET Files[d], val : SUBSET Files[d], test : SUBSET Files[d]]

VARIABLES
  script,      \* the script that runs
  maxRows,     \* max_eval_rows of this run
  raw,         \* data set -> the frame it loaded, empty when the files are missing
  step,        \* the steps of the script that are done
  ended,       \* "no", "done" or "crashed"
  drawn,       \* seeded call -> what it has drawn so far, and from which rows
  frames,      \* data set and kind of split -> [train, val, test], or None
  synthetic,   \* the groups of rows that became rows of the training part
  selected,    \* data set -> the rows its feature selection looked at
  results,     \* the scores: what each was fitted on and measured on
  kept,        \* number of scores in the script's list of results
  file         \* number of rows of the results file; None while it is rewritten

vars == <<script, maxRows, raw, step, ended, drawn, frames, synthetic, selected, results, kept, file>>
-----------------------------------------------------------------------------
(* The plans.  Every script is a fixed list of steps, which depends only on   *)
(* the data sets that could be loaded.                                        *)
Prepare(d) == [do |-> "prepare", ds |-> d, how |-> "plain"]
Split(d, how) == [do |-> "prepare", ds |-> d, how |-> how]
Select(d) == [do |-> "select", ds |-> d]
Synthesize(d) == [do |-> "synthesize", ds |-> d]
Score(d, on, exp) ==
  [do |-> "score", ds |-> d, how |-> "plain", on |-> on, exp |-> exp, fraction |-> FALSE]
ScoreFraction(d, exp) == [Score(d, "all", exp) EXCEPT !.fraction = TRUE]
ScoreSplit(d, how) == [Score(d, "all", "leakage") EXCEPT !.how = how]

Loaded(d) == raw[d] # {}
When(d, steps) == IF Loaded(d) THEN steps ELSE <<>>

(* The three stages of run_pipeline.  Its one data set, the class files of    *)
(* CICIoT2023, is called watai here too.                                      *)
TrainingPlan ==
  <<Prepare("watai"), Synthesize("watai"), Score("watai", "all", "stage1"),
    Score("watai", "attack", "stage2"), Score("watai", "flood", "stage3")>>

(* The five experiments of experiment_file.py.  A comparison of many models or *)
(* feature sets is one score here, two where they are measured differently.    *)
Experiment1 ==
  LET first(d) == <<Prepare(d), Score(d, "all", "exp1")>>
  IN When("watai", first("watai")) \o When("merged", first("merged"))

Experiment2 ==
  LET second(d) == <<Prepare(d), Select(d), Score(d, "all", "exp2")>>
  IN When("watai", second("watai")) \o When("merged", second("merged"))

Experiment3 ==
  When("watai", <<Prepare("watai"), Score("watai", "all", "exp3"), Score("watai", "flood", "exp3")>>)

Experiment4(d) == <<Prepare(d), ScoreFraction(d, "exp4"), Score(d, "all", "exp4")>>

(* The flat model and the cascade of three stages.                            *)
Experiment5(d) == <<Prepare(d), Score(d, "all", "exp5"), Score(d, "all", "exp5")>>

(* Experiments 4 and 5 take the features that experiment 2 selected, of the   *)
(* watai frame when there is one.                                             *)
FilePlan ==
  LET volume == IF Loaded("watai") THEN "watai" ELSE "merged"
  IN Experiment1 \o Experiment2 \o Experiment3 \o Experiment4(volume) \o Experiment5(volume)

(* run_variant: one feature set, scored over all rows and over the flood rows. *)
Variant(d, exp) == <<Score(d, "all", exp), Score(d, "flood", exp)>>

(* The three parts of experiment_dataset.py: two feature sets stand for many. *)
Part1 == <<Prepare("watai")>> \o Variant("watai", "part1") \o Variant("watai", "part1")

Part2 ==
  <<Prepare("watai"), Prepare("merged")>> \o Variant("watai", "part2") \o Variant("merged", "part2")

Part3 == <<Prepare("watai")>> \o Variant("watai", "part3") \o Variant("watai", "part3")

DatasetPlan == Part1 \o When("merged", Part2) \o Part3

LeakageTest ==
  <<Split("watai", "random"), Split("watai", "group"),
    ScoreSplit("watai", "random"), ScoreSplit("watai", "group")>>

MergedReference == <<Split("merged", "random"), ScoreSplit("merged", "random")>>

LeakagePlan == LeakageTest \o When("merged", MergedReference)

Plan ==
  CASE script = "training_models" -> TrainingPlan
    [] script = "experiment_file" -> FilePlan
    [] script = "experiment_dataset" -> DatasetPlan
    [] script = "test_leakage" -> LeakagePlan

(* All but experiment_file.py need the watai frame.                           *)
CanStart == Loaded("watai") \/ (script = "experiment_file" /\ Loaded("merged"))
-----------------------------------------------------------------------------
Parts == {"plain", "random", "group"}

\* The calls that draw: train_test_split in split_dataset and in cap_rows, the
\* undersampling, and the two splits of the leakage test.
Calls == {"split", "cap", "undersample", "random", "group"}

Init ==
  /\ script \in Scripts
  /\ maxRows \in MaxEvalRows
  /\ raw \in Samples
  /\ CanStart
  /\ step = 0 /\ ended = "no"
  /\ drawn = [c \in Calls |-> {}]
  /\ frames = [d \in DataSets |-> [how \in Parts |-> None]]
  /\ synthetic = {}
  /\ selected = [d \in DataSets |-> {}]
  /\ results = {}
  /\ kept = 0 /\ file = 0

Doing(do) ==
  /\ ended = "no" /\ file # None
  /\ step < Len(Plan) /\ Plan[step + 1].do = do

Now == Plan[step + 1]
Next1 == step' = step + 1

Draw(rows, out) == [rows |-> rows, out |-> out]
DrawnFrom(call, rows) == {d.out : d \in {d \in drawn[call] : d.rows = rows}}

(* Mutant: cap_rows_stratified does not pass the seed on.                     *)
AnswersUnseeded(call, rows, outcomes) ==
  IF call = "cap" \/ DrawnFrom(call, rows) = {} THEN outcomes ELSE DrawnFrom(call, rows)

(* Every draw has the same seed (RANDOM_STATE): a call that is made again on  *)
(* the same rows draws what it drew before, one on other rows anything.       *)
Answers(call, rows, outcomes) ==
  IF DrawnFrom(call, rows) = {} THEN outcomes ELSE DrawnFrom(call, rows)

IsFlood(S) == {r \in S : Kind(r) \in Flood}

(* The leakage test looks at the flood rows only.  Its watai rows carry the   *)
(* name of their file through the cleaning: a repeat is dropped only within   *)
(* one file.                                                                  *)
FloodRows(d) ==
  IF d = "watai" THEN IsFlood(UNION {Clean({r \in raw[d] : File[r] = f}) : f \in {File[r] : r \in raw[d]}})
  ELSE IsFlood(Clean(raw[d]))

RandomSplit(S) ==
  {[train |-> T, val |-> {}, test |-> S \ T] : T \in Kept(S, CeilDiv(Cardinality(S), TestDen))}

FilesOf(S) == {File[r] : r \in S}
InFiles(S, F) == {r \in S : File[r] \in F}

(* The library cannot stratify when every family has fewer rows than folds.   *)
TooFewForFolds(S) == \A f \in Kinds(S) : Count(S, f) < TestDen

(* Mutant: files are drawn family by family whatever the library says.        *)
GroupSplitByFamily(S) ==
  {[train |-> S \ T, val |-> {}, test |-> T] :
     T \in {InFiles(OfKind(S, f), F) : f \in Kinds(S), F \in SUBSET FilesOf(S)} \ {{}}}

(* group_aware_split: one fold of whole files.  When the library raises, the  *)
(* files are drawn family by family instead.                                  *)
GroupSplit(S) ==
  LET parts(T) == [train |-> S \ T, val |-> {}, test |-> T]
      share(f) == LET n == Cardinality(FilesOf(OfKind(S, f))) \div TestDen
                  IN IF n > 1 THEN n ELSE 1
      draws == {F \in [Kinds(S) -> SUBSET FilesOf(S)] :
                  \A f \in Kinds(S) : /\ F[f] \subseteq FilesOf(OfKind(S, f))
                                      /\ Cardinality(F[f]) = share(f)}
  IN IF ~TooFewForFolds(S)
     THEN {parts(InFiles(S, F)) : F \in SUBSET FilesOf(S) \ {{}}}
     ELSE {parts(UNION {InFiles(OfKind(S, f), F[f]) : f \in Kinds(S)}) : F \in draws}

(* Mutant: the undersampling draws from the whole frame.                      *)
BalancedFromAll(s) ==
  LET all == s.train \cup s.val \cup s.test
  IN Answers("undersample", all, Undersampled(all, MinPerClass))

Balanced(s) == Answers("undersample", s.train, Undersampled(s.train, MinPerClass))

(* training_models.py does not cap the parts that are scored.                 *)
Evaluated(S) == Answers("cap", S, IF script = "training_models" THEN {S} ELSE Capped(S, maxRows))

(* prepare_dataset, prepare and the head of run_pipeline: clean, split, cap   *)
(* the parts that are scored, undersample the part that is fitted; all of it  *)
(* again for every experiment, from the frame that was loaded.                *)
PrepareFrame ==
  /\ Doing("prepare") /\ Now.how = "plain"
  /\ LET S == Clean(raw[Now.ds])
     IN \E s \in Answers("split", S, Splits(S)) :
          \E U \in Balanced(s), V \in Evaluated(s.val), T \in Evaluated(s.test) :
            /\ frames' = [frames EXCEPT ![Now.ds]["plain"] = [train |-> U, val |-> V, test |-> T]]
            /\ drawn' = [drawn EXCEPT !["split"] = @ \cup {Draw(S, s)},
                                     !["undersample"] = @ \cup {Draw(s.train, U)},
                                     !["cap"] = @ \cup {Draw(s.val, V), Draw(s.test, T)}]
  /\ Next1
  /\ UNCHANGED <<script, maxRows, raw, ended, synthetic, selected, results, kept, file>>

(* The splits that test_leakage.py compares.                                  *)
LeakageSplits(how, S) == IF how = "random" THEN RandomSplit(S) ELSE GroupSplit(S)

PrepareSplit ==
  /\ Doing("prepare") /\ Now.how # "plain"
  /\ LET S == FloodRows(Now.ds)
     IN \E f \in Answers(Now.how, S, LeakageSplits(Now.how, S)) :
          /\ frames' = [frames EXCEPT ![Now.ds][Now.how] = f]
          /\ drawn' = [drawn EXCEPT ![Now.how] = @ \cup {Draw(S, f)}]
  /\ Next1
  /\ UNCHANGED <<script, maxRows, raw, ended, synthetic, selected, results, kept, file>>

(* load_ciciot_class reads the files of a class again, this time all of them. *)
ClassRows(c) == {r \in Clean(Files["watai"]) : Class[r] = c}

(* synthesize_w100_for_class makes one row of every GroupSize consecutive     *)
(* rows.                                                                      *)
Groups(c) ==
  LET rows == ClassRows(c)
      place(r) == Cardinality({q \in rows : q < r})
      n == Cardinality(rows) \div GroupSize
  IN {{r \in rows : place(r) \div GroupSize = g} : g \in 0..((IF n > MaxGroups THEN MaxGroups ELSE n) - 1)}

SyntheticRows == UNION {Groups(c) : c \in Native10}

SynthesizeRows ==
  /\ Doing("synthesize")
  /\ \A g \in SyntheticRows : Kinds(g) \subseteq Kinds(frames[Now.ds]["plain"].train)
  /\ synthetic' = SyntheticRows
  /\ Next1
  /\ UNCHANGED <<script, maxRows, raw, ended, drawn, frames, selected, results, kept, file>>

(* select_heavy_lite_features looks at the training part.                     *)
SelectFeatures ==
  /\ Doing("select")
  /\ selected' = [selected EXCEPT ![Now.ds] = frames[Now.ds]["plain"].train]
  /\ Next1
  /\ UNCHANGED <<script, maxRows, raw, ended, drawn, frames, synthetic, results, kept, file>>

On(on, S) ==
  CASE on = "all" -> S
    [] on = "attack" -> {r \in S : Kind(r) # "Benign"}
    [] on = "flood" -> IsFlood(S)

(* Experiments 2, 4 and 5 use the selected features.                          *)
UsesSelection(s) == s.exp \in {"exp2", "exp4", "exp5"}

(* tune_heavy_model (tune_xgb in the experiments) picks the parameters by     *)
(* their score on the validation part, and evaluate_model predicts the test   *)
(* part.                                                                      *)
TunedOn(s) == On(s.on, frames[s.ds][s.how].val)
MeasuredOn(s) == On(s.on, frames[s.ds][s.how].test)

ResultOf(s, train) ==
  [exp |-> s.exp, ds |-> s.ds, how |-> s.how, on |-> s.on,
   train |-> train,
   groups |-> {g \in synthetic : g = On(s.on, g)},
   val |-> TunedOn(s),
   chosen |-> IF UsesSelection(s) THEN selected[s.ds] ELSE {},
   test |-> MeasuredOn(s)]

(* A scaler that is fitted on nothing raises, and so does a label encoder     *)
(* that meets a label it was not fitted on.  The leakage test fits its        *)
(* encoder on the rows of both parts.                                         *)
CanScore(r) ==
  /\ r.train # {} /\ r.test # {}
  /\ r.how = "plain" => Kinds(r.test \cup r.val) \subseteq Kinds(r.train \cup UNION r.groups)

FitOn(s) ==
  LET train == frames[s.ds][s.how].train
  IN IF s.fraction THEN Kept(train, CeilDiv(Cardinality(train), 2)) ELSE {On(s.on, train)}

SavesResults == script # "training_models"

(* One model fitted and scored.  save_result_row then appends the score to    *)
(* the list and rewrites the whole file, which is empty until that is done.   *)
ScoreModel ==
  /\ Doing("score")
  /\ \E train \in FitOn(Now) :
       /\ CanScore(ResultOf(Now, train))
       /\ results' = results \cup {ResultOf(Now, train)}
  /\ IF SavesResults THEN kept' = kept + 1 /\ file' = None ELSE UNCHANGED <<kept, file>>
  /\ Next1
  /\ UNCHANGED <<script, maxRows, raw, ended, drawn, frames, synthetic, selected>>

SaveResultRow ==
  /\ ended = "no" /\ file = None
  /\ file' = kept
  /\ UNCHANGED <<script, maxRows, raw, step, ended, drawn, frames, synthetic, selected, results, kept>>

Finish ==
  /\ ended = "no" /\ file # None /\ step = Len(Plan)
  /\ ended' = "done"
  /\ UNCHANGED <<script, maxRows, raw, step, drawn, frames, synthetic, selected, results, kept, file>>

(* A library call raises, or the system kills the process for its memory.     *)
Crash ==
  /\ ended = "no"
  /\ ended' = "crashed"
  /\ UNCHANGED <<script, maxRows, raw, step, drawn, frames, synthetic, selected, results, kept, file>>

Next ==
  \/ PrepareFrame \/ PrepareSplit \/ SynthesizeRows \/ SelectFeatures
  \/ ScoreModel \/ SaveResultRow \/ Finish \/ Crash

Spec == Init /\ [][Next]_vars
-----------------------------------------------------------------------------
(* Every variable holds a value of its kind.                                  *)
TypeOK ==
  /\ script \in Scripts /\ ended \in {"no", "done", "crashed"}
  /\ raw \in Samples /\ maxRows \in MaxEvalRows
  /\ \A d \in DataSets : selected[d] \subseteq raw[d]
  /\ step \in 0..Len(Plan)
  /\ kept \in Nat /\ file \in Nat \cup {None}
  /\ synthetic \subseteq SUBSET Files["watai"]
  /\ DOMAIN drawn = Calls

(* No row that a model was fitted or tuned on, or that its features were      *)
(* selected by, is among the rows it is scored on.  Experiments 4 and 5 take  *)
(* features that experiment 2 selected on a frame of its own, so this needs   *)
(* the frames of all the experiments to be cut at the same place.             *)
FittedApart ==
  \A r \in results : (r.train \cup r.val \cup r.chosen) \cap r.test = {}

(* Scores that are compared with each other are measured on the same rows,    *)
(* whichever experiment of the script they come from: each one prepares its   *)
(* frame anew, and every call of the library is made on the same rows again.  *)
SameTestRows ==
  \A a, b \in results :
    a.ds = b.ds /\ a.on = b.on /\ a.how = b.how => a.test = b.test

(* A row that is scored equals a row that was fitted on only if the two carry *)
(* different raw labels or, in the leakage test, come from different files.   *)
TwinsExplained ==
  \A r \in results : \A p \in r.train, q \in r.test :
    Key[p] = Key[q] =>
      Class[p] # Class[q] \/ (script = "test_leakage" /\ r.ds = "watai" /\ File[p] # File[q])

(* The group split of the leakage test cuts a file only where its own except  *)
(* clause allows it: when the library cannot stratify, a file with rows of two *)
(* families.  NoFileCrosses, below, is what is said of it.                     *)
FilesCrossOnlyWhenMixed ==
  \A r \in results : r.how = "group" =>
    \A p \in r.train, q \in r.test :
      File[p] = File[q] =>
        Kind(p) # Kind(q) /\ TooFewForFolds(r.train \cup r.test)
-----------------------------------------------------------------------------
(* What comments and documents of the repository say of this part.            *)

(* "TEST held out untouched": no row behind a synthetic training row is       *)
(* scored.                                                                    *)
TestHeldOut == \A r \in results : UNION r.groups \cap (r.val \cup r.test) = {}

ScoresDone == Cardinality({i \in 1..step : Plan[i].do = "score"})

(* save_result_row: it rewrites the file "immediately, so no results are lost *)
(* if a later experiment crashes": after a crash the file holds at least the  *)
(* scores before the one that was being saved.                                *)
NoResultsLost ==
  (ended = "crashed" /\ SavesResults /\ ScoresDone > 1) => (file # None /\ file >= ScoresDone - 1)

(* "StratifiedGroupKFold split (no file's rows ever appear in both train and  *)
(* test)".                                                                    *)
NoFileCrosses ==
  \A r \in results : r.how = "group" => FilesOf(r.train) \cap FilesOf(r.test) = {}
=============================================================================
