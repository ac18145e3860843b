---------------------------- MODULE ModelArtifacts ----------------------------
(* How trained models get from training_models.py to the edge node.           *)
(* run_pipeline exports six models and seven other files into one directory;  *)
(* get_unique_path gives a file whose name is taken the next free number.     *)
(* model_engine.py loads the feature list, the scalers and the encoders by    *)
(* their plain names, and the models by the names the feature list gives.     *)
(* A run may fail to export a model and go on, or be killed at any point, in  *)
(* the middle of a file too.                                                  *)
EXTENDS Naturals, Sequences, SequencesExt

CONSTANTS
  Stages,        \* the names of the stages of the classifier, in order
  MaxRuns,       \* training runs
  MaxFails,      \* failed exports of one run
  RequireModels  \* REQUIRE_MODELS_ON_START

ASSUME ArtifactsAssumption ==
  /\ Stages \in Seq(STRING) /\ IsInjective(Stages) /\ "scaler" \notin Range(Stages)
  /\ MaxRuns \in Nat /\ MaxFails \in Nat /\ RequireModels \in BOOLEAN

Tiers == {"heavy", "lite"}
Models == Tiers \X Range(Stages)
Scalers == {<<t, "scaler">> : t \in Tiers}
Encoders == {<<"stage2", "encoder">>, <<"stage3", "encoder">>}
FullEncoder == <<"full_label", "encoder">>
ProtocolEncoder == <<"protocol", "encoder">>
FeatureLists == <<"feature", "lists">>
Names == Models \cup Scalers \cup Encoders \cup {FullEncoder, ProtocolEncoder, FeatureLists}

(* The order in which run_pipeline writes its files.                          *)
Plan ==
  [i \in 1..(2 * Len(Stages)) |-> <<IF i % 2 = 1 THEN "heavy" ELSE "lite", Stages[(i + 1) \div 2]>>]
  \o <<<<"heavy", "scaler">>, <<"lite", "scaler">>, FullEncoder, <<"stage2", "encoder">>,
       <<"stage3", "encoder">>, ProtocolEncoder, FeatureLists>>

VARIABLES
  run,       \* number of the training run, 0 before the first
  step,      \* files it has written, Len(Plan) when no run is going on
  onnx,      \* model -> the number of the file this run exported, 0 for None
  dir,       \* name -> the files of that name in the order of their numbers
  served,    \* the directory as it was copied to the edge node
  edge,      \* "down", "up" or "failed"
  cutShort   \* whether a run was ever killed, or copied in the middle of a write

vars == <<run, step, onnx, dir, served, edge, cutShort>>
-----------------------------------------------------------------------------
(* A file is what a run wrote, or the torn beginning of it.  The file with    *)
(* number 1 is the one with the plain name.                                   *)
File(torn, names) == [run |-> run, torn |-> torn, onnx |-> names]
Nothing == [m \in Models |-> 0]
NoFiles == [n \in Names |-> <<>>]

Training == step < Len(Plan)
Name == Plan[step + 1]

Init ==
  /\ run = 0 /\ step = Len(Plan)
  /\ onnx = Nothing
  /\ dir = NoFiles /\ served = NoFiles
  /\ edge = "down"
  /\ cutShort = FALSE

TrainModels ==
  /\ ~Training /\ run < MaxRuns
  /\ run' = run + 1 /\ step' = 0
  /\ onnx' = Nothing
  /\ UNCHANGED <<dir, served, edge, cutShort>>

(* get_unique_path: files are never removed, so the next free number is one   *)
(* more than the files there are.  The protocol encoder alone is written      *)
(* under its plain name every time.                                           *)
PlacedUnique(n, f) == [dir EXCEPT ![n] = Append(@, f)]
PlacedPlain(n, f) == [dir EXCEPT ![n] = <<f>>]

(* Mutant: the scalers keep their plain name as the protocol encoder does.    *)
PlacedScalersPlain(n, f) ==
  IF n \in Scalers \cup {ProtocolEncoder} THEN PlacedPlain(n, f) ELSE PlacedUnique(n, f)

Placed(n, f) ==
  IF n = ProtocolEncoder THEN PlacedPlain(n, f) ELSE PlacedUnique(n, f)

(* Mutant: the feature list gets the name without its number.                 *)
NumberPlain(m) == 1

NumberOf(m) == Len(dir[m]) + 1

ExportModel ==
  /\ Training /\ Name \in Models
  /\ dir' = Placed(Name, File(FALSE, Nothing))
  /\ onnx' = [onnx EXCEPT ![Name] = NumberOf(Name)]
  /\ step' = step + 1
  /\ UNCHANGED <<run, served, edge, cutShort>>

Failed == {m \in Models : onnx[m] = 0 /\ \E i \in 1..step : Plan[i] = m}

(* Mutant: the name is noted before the export is tried.                      *)
ExportFailsNoted ==
  /\ Training /\ Name \in Models
  /\ \/ UNCHANGED dir
     \/ dir' = Placed(Name, File(TRUE, Nothing))
  /\ onnx' = [onnx EXCEPT ![Name] = NumberOf(Name)]
  /\ step' = step + 1
  /\ UNCHANGED <<run, served, edge, cutShort>>

(* The conversion raises before the file is opened, or the write afterwards;  *)
(* the exception is caught and None is noted for the model.                   *)
ExportFails ==
  /\ Training /\ Name \in Models /\ Cardinality(Failed) < MaxFails
  /\ \/ UNCHANGED dir
     \/ dir' = Placed(Name, File(TRUE, Nothing))
  /\ onnx' = [onnx EXCEPT ![Name] = 0]
  /\ step' = step + 1
  /\ UNCHANGED <<run, served, edge, cutShort>>

WriteArtifact ==
  /\ Training /\ Name \notin Models
  /\ dir' = Placed(Name, File(FALSE, IF Name = FeatureLists THEN onnx ELSE Nothing))
  /\ step' = step + 1
  /\ UNCHANGED <<run, onnx, served, edge, cutShort>>

(* The run is killed, or an exception that nothing catches ends it.           *)
Kill ==
  /\ Training
  /\ \/ UNCHANGED dir
     \/ dir' = Placed(Name, File(TRUE, Nothing))
  /\ step' = Len(Plan)
  /\ cutShort' = TRUE
  /\ UNCHANGED <<run, onnx, served, edge>>
-----------------------------------------------------------------------------
(* The edge node.                                                             *)
Plain(n) == IF served[n] = <<>> THEN <<>> ELSE <<Head(served[n])>>
IsThere(n) == Plain(n) # <<>>

Lists == IF IsThere(FeatureLists) THEN Plain(FeatureLists)[1].onnx ELSE Nothing

(* _load_session: a name that is null, or that no file has, gives no session. *)
HasSession(m) == Lists[m] \in 1..Len(served[m])
SessionFile(m) == served[m][Lists[m]]

LoadedByName == Scalers \cup Encoders \cup {ProtocolEncoder, FeatureLists}

(* A torn file raises in the library that reads it.                           *)
Readable ==
  /\ \A n \in LoadedByName : IsThere(n) => ~Plain(n)[1].torn
  /\ \A m \in Models : HasSession(m) => ~SessionFile(m).torn

Complete ==
  /\ \A m \in Models : HasSession(m)
  /\ \A n \in LoadedByName \ {FeatureLists} : IsThere(n)

(* A tier answers ModelUnavailable to every window unless this holds.         *)
Serves(t) == IsThere(<<t, "scaler">>) /\ \A s \in Range(Stages) : HasSession(<<t, s>>)

(* The output files are copied into MODEL_DIR by hand, which may be while a   *)
(* run goes on: between two of its files, or in the middle of one.            *)
Deploy ==
  /\ edge = "down"
  /\ \/ served' = dir /\ UNCHANGED cutShort
     \/ Training /\ served' = Placed(Name, File(TRUE, Nothing)) /\ cutShort' = TRUE
  /\ UNCHANGED <<run, step, onnx, dir, edge>>

(* _load_artifacts and _check_artifacts_or_fail, when the module is imported. *)
StartEdge ==
  /\ edge = "down"
  /\ edge' = IF Readable /\ (RequireModels => Complete) THEN "up" ELSE "failed"
  /\ UNCHANGED <<run, step, onnx, dir, served, cutShort>>

StopEdge ==
  /\ edge # "down"
  /\ edge' = "down"
  /\ UNCHANGED <<run, step, onnx, dir, served, cutShort>>

Next ==
  \/ TrainModels \/ ExportModel \/ ExportFails \/ WriteArtifact \/ Kill
  \/ Deploy \/ StartEdge \/ StopEdge

Spec == Init /\ [][Next]_vars
-----------------------------------------------------------------------------
(* Every variable holds a value of its kind.                                  *)
TypeOK ==
  /\ run \in 0..MaxRuns /\ step \in 0..Len(Plan)
  /\ onnx \in [Models -> Nat]
  /\ \A n \in Names : \A i \in DOMAIN dir[n] : dir[n][i].run \in 1..MaxRuns
  /\ edge \in {"down", "up", "failed"} /\ cutShort \in BOOLEAN

(* The models an edge node runs were all exported by the run whose feature    *)
(* list it reads, however many runs wrote into the directory, and none of     *)
(* them is the torn file of a failed export.                                  *)
SessionsAreOneRun ==
  edge = "up" =>
    \A m \in Models : HasSession(m) =>
      SessionFile(m).run = Plain(FeatureLists)[1].run /\ ~SessionFile(m).torn

(* The scalers and encoders go with the models, except after an earlier run   *)
(* that was killed between writing them and writing its feature list: then    *)
(* they are that run's.  What a finished run left under the plain names, but  *)
(* for the protocol encoder, no later run changes.                            *)
ScalersMatchModels ==
  edge = "up" /\ IsThere(FeatureLists) =>
    \A n \in Scalers \cup Encoders :
      LET mine == Plain(FeatureLists)[1].run
      IN /\ IsThere(n)
         /\ Plain(n)[1].run # mine => cutShort /\ Plain(n)[1].run < mine

(* When no run was killed, an edge node that is given the files of any moment *)
(* between two writes starts, whatever exports failed; and once there is a    *)
(* feature list, each tier whose exports all succeeded in the first run       *)
(* serves, no other.                                                          *)
CleanRunsServe ==
  ~cutShort /\ ~RequireModels =>
    /\ edge # "failed"
    /\ edge = "up" /\ IsThere(FeatureLists) =>
         \A t \in Tiers :
           Serves(t) <=> \A s \in Range(Stages) : served[<<t, s>>] # <<>> /\ Lists[<<t, s>>] = 1
=============================================================================
