----------------------------- MODULE OfflineTools_proofs ---------------------
(***************************************************************************)
(* What TLAPS proves of the two offline tools.                             *)
(*                                                                         *)
(* ModelArtifacts, for any stages and number of training runs, failed      *)
(* exports and kills: the models that an edge node runs are of the run     *)
(* whose feature list it reads, the scalers too unless a run was killed,   *)
(* and without a kill the edge node starts and serves what the first run   *)
(* has exported.                                                           *)
(*                                                                         *)
(* PcapSampler, for captures of any length, any arguments and any draw of  *)
(* the starts: typing, that the plan fits, that the sample is in order and *)
(* within its blocks, and which packets are lost between blocks.           *)
(***************************************************************************)
EXTENDS ModelArtifacts, PcapSampler, FiniteSetTheorems, TLAPS

(* Model artifacts.                                                          *)

Files == [run : Nat, torn : BOOLEAN, onnx : [Models -> Nat]]
Directories == [Names -> Seq(Files)]

(* The number that a feature list gives for a model is that of a file which   *)
(* the same run exported.                                                     *)
Exported(d, r, names) ==
  \A m \in Models : names[m] # 0 =>
    /\ names[m] \in 1..Len(d[m])
    /\ d[m][names[m]].run = r /\ ~ d[m][names[m]].torn

ListsAreExported(d) ==
  \A x \in 1..Len(d[FeatureLists]) :
    Exported(d, d[FeatureLists][x].run, d[FeatureLists][x].onnx)

(* The inductive invariant: so it is in the directory and in its copy, and    *)
(* for the list that the run under way has in memory.                         *)
IInv ==
  /\ run \in Nat /\ onnx \in [Models -> Nat]
  /\ dir \in Directories /\ served \in Directories
  /\ Exported(dir, run, onnx)
  /\ ListsAreExported(dir) /\ ListsAreExported(served)

(* Names of different kinds are different.                                    *)
LEMMA NamesDiffer ==
  /\ FeatureLists \in Names /\ FeatureLists \notin Models /\ FeatureLists # ProtocolEncoder
  /\ ProtocolEncoder \notin Models /\ Models \subseteq Names
BY DEF FeatureLists, ProtocolEncoder, Models, Tiers, Names

LEMMA NothingIsExported ==
  ASSUME NEW d, NEW r
  PROVE  Nothing \in [Models -> Nat] /\ Exported(d, r, Nothing)
BY DEF Nothing, Exported

(* A file that is written changes no file of a model that was there.          *)
LEMMA PlacedFacts ==
  ASSUME dir \in Directories, NEW n, NEW f \in Files
  PROVE  /\ Placed(n, f) \in Directories
         /\ \A m \in Names : m # n => Placed(n, f)[m] = dir[m]
         /\ n \in Names /\ n # ProtocolEncoder =>
              /\ Len(dir[n]) \in Nat
              /\ Len(Placed(n, f)[n]) = Len(dir[n]) + 1
              /\ Placed(n, f)[n][Len(dir[n]) + 1] = f
              /\ \A x \in 1..Len(dir[n]) : Placed(n, f)[n][x] = dir[n][x]
<1>1. \A m \in Names : dir[m] \in Seq(Files)
  BY DEF Directories
<1>2. CASE n \notin Names
  <2>1. Placed(n, f) = dir
    BY <1>2 DEF Placed, PlacedPlain, PlacedUnique, Directories
  <2>2. QED
    BY <1>2, <2>1
<1>3. CASE n = ProtocolEncoder /\ n \in Names
  <2>1. Placed(n, f) = [dir EXCEPT ![n] = <<f>>]
    BY <1>3 DEF Placed, PlacedPlain
  <2>2. <<f>> \in Seq(Files)
    OBVIOUS
  <2>3. QED
    BY <1>3, <2>1, <2>2 DEF Directories
<1>4. CASE n # ProtocolEncoder /\ n \in Names
  <2> DEFINE q == Append(dir[n], f)
  <2>1. Placed(n, f) = [dir EXCEPT ![n] = q]
    BY <1>4 DEF Placed, PlacedUnique
  <2>2. /\ q \in Seq(Files) /\ Len(dir[n]) \in Nat /\ Len(q) = Len(dir[n]) + 1
        /\ q[Len(dir[n]) + 1] = f /\ \A x \in 1..Len(dir[n]) : q[x] = dir[n][x]
    BY <1>1, <1>4
  <2> HIDE DEF q
  <2>3. Placed(n, f) \in Directories /\ Placed(n, f)[n] = q
    BY <1>4, <2>1, <2>2 DEF Directories
  <2>4. \A m \in Names : m # n => Placed(n, f)[m] = dir[m]
    BY <2>1 DEF Directories
  <2>5. QED
    BY <2>2, <2>3, <2>4
<1>5. QED
  BY <1>2, <1>3, <1>4

(* What was exported stays exported.                                          *)
LEMMA ExportedStays ==
  ASSUME dir \in Directories, NEW n, NEW f \in Files, NEW r, NEW names \in [Models -> Nat],
         Exported(dir, r, names)
  PROVE  Exported(Placed(n, f), r, names)
<1> DEFINE d == Placed(n, f)
<1>1. ASSUME NEW m \in Models, names[m] # 0
      PROVE  names[m] \in 1..Len(d[m]) /\ d[m][names[m]].run = r /\ ~ d[m][names[m]].torn
  <2>1. m \in Names /\ m # ProtocolEncoder
    BY NamesDiffer
  <2>2. names[m] \in 1..Len(dir[m]) /\ dir[m][names[m]].run = r /\ ~ dir[m][names[m]].torn
    BY <1>1 DEF Exported
  <2>3. CASE m # n
    <3>1. d[m] = dir[m]
      BY <2>1, <2>3, PlacedFacts
    <3>2. QED
      BY <2>2, <3>1
  <2>4. CASE m = n
    <3>1. /\ Len(dir[m]) \in Nat /\ Len(d[m]) = Len(dir[m]) + 1
          /\ \A x \in 1..Len(dir[m]) : d[m][x] = dir[m][x]
      BY <2>1, <2>4, PlacedFacts
    <3> HIDE DEF d
    <3>2. QED
      BY <2>2, <3>1
  <2>5. QED
    BY <2>3, <2>4
<1>2. QED
  BY <1>1 DEF Exported

(* A file that lists nothing, or what its run has exported, may be written.   *)
LEMMA ListsStay ==
  ASSUME IInv, NEW n, NEW f \in Files, f.run = run,
         n = FeatureLists => f.onnx = onnx \/ f.onnx = Nothing
  PROVE  ListsAreExported(Placed(n, f))
<1> DEFINE d == Placed(n, f)
           L == FeatureLists
<1>1. L \in Names /\ L # ProtocolEncoder /\ dir \in Directories /\ d \in Directories
  BY NamesDiffer, PlacedFacts DEF IInv
<1>2. ASSUME NEW x \in 1..Len(dir[L]) PROVE Exported(d, dir[L][x].run, dir[L][x].onnx)
  <2>1. dir[L] \in Seq(Files)
    BY <1>1 DEF Directories
  <2>2. dir[L][x] \in Files
    BY <2>1
  <2>3. dir[L][x].onnx \in [Models -> Nat]
    BY <2>2 DEF Files
  <2>4. QED
    BY <1>1, <2>3, ExportedStays DEF IInv, ListsAreExported
<1>3. CASE n # L
  <2>1. d[L] = dir[L]
    BY <1>1, <1>3, PlacedFacts
  <2>2. QED
    BY <1>2, <2>1 DEF ListsAreExported
<1>4. CASE n = L
  <2>1. /\ Len(dir[L]) \in Nat /\ Len(d[L]) = Len(dir[L]) + 1
        /\ d[L][Len(dir[L]) + 1] = f
        /\ \A x \in 1..Len(dir[L]) : d[L][x] = dir[L][x]
    BY <1>1, <1>4, PlacedFacts
  <2>2. Exported(d, run, f.onnx)
    <3>1. CASE f.onnx = onnx
      BY <1>1, <3>1, ExportedStays DEF IInv
    <3>2. CASE f.onnx = Nothing
      BY <3>2, NothingIsExported
    <3>3. QED
      BY <1>4, <3>1, <3>2
  <2> HIDE DEF d
  <2>3. \A x \in 1..Len(d[L]) : Exported(d, d[L][x].run, d[L][x].onnx)
    BY <1>2, <2>1, <2>2, SMTT(30)
  <2>4. QED
    BY <2>3 DEF ListsAreExported, d
<1>5. QED
  BY <1>3, <1>4

LEMMA InitIInv == Init => IInv
<1> SUFFICES ASSUME Init PROVE IInv
  OBVIOUS
<1>1. run = 0 /\ onnx = Nothing /\ dir = NoFiles /\ served = NoFiles
  BY DEF Init
<1>2. NoFiles \in Directories /\ \A n \in Names : NoFiles[n] = <<>>
  BY DEF NoFiles, Directories
<1>3. ListsAreExported(NoFiles)
  BY <1>2, NamesDiffer DEF ListsAreExported
<1>4. QED
  BY <1>1, <1>2, <1>3, NothingIsExported DEF IInv

LEMMA NextIInv == IInv /\ [Next]_vars => IInv'
<1> SUFFICES ASSUME IInv, [Next]_vars PROVE IInv'
  OBVIOUS
<1>1. /\ run \in Nat /\ onnx \in [Models -> Nat] /\ dir \in Directories /\ Exported(dir, run, onnx)
      /\ ListsAreExported(dir)
  BY DEF IInv
<1>2. \A torn \in BOOLEAN, names \in [Models -> Nat] :
        /\ File(torn, names) \in Files /\ File(torn, names).run = run
        /\ File(torn, names).onnx = names /\ File(torn, names).torn = torn
  BY <1>1 DEF File, Files
<1>3. Nothing \in [Models -> Nat]
  BY NothingIsExported
<1>4. CASE TrainModels
  BY <1>4, NothingIsExported DEF TrainModels, IInv
<1>5. CASE ExportModel
  <2> DEFINE f == File(FALSE, Nothing)
             k == Len(dir[Name]) + 1
  <2>1. /\ Name \in Models /\ dir' = Placed(Name, f) /\ run' = run /\ served' = served
        /\ onnx' = [onnx EXCEPT ![Name] = k]
    BY <1>5 DEF ExportModel, NumberOf
  <2>2. f \in Files /\ f.run = run /\ f.onnx = Nothing /\ ~ f.torn
    BY <1>2, <1>3
  <2>3. Name \in Names /\ Name # ProtocolEncoder
    BY <2>1, NamesDiffer
  <2> HIDE DEF f, k
  <2>4. dir' \in Directories /\ ListsAreExported(dir')
    BY <1>1, <2>1, <2>2, PlacedFacts, ListsStay
  <2>5. k \in 1..Len(dir'[Name]) /\ dir'[Name][k] = f /\ k \in Nat
    BY <1>1, <2>1, <2>2, <2>3, PlacedFacts DEF k
  <2>6. Exported(dir', run, onnx)
    BY <1>1, <2>1, <2>2, ExportedStays
  <2>7. onnx' \in [Models -> Nat] /\ Exported(dir', run, onnx')
    BY <1>1, <2>1, <2>2, <2>5, <2>6 DEF Exported
  <2>8. QED
    BY <2>1, <2>4, <2>7 DEF IInv
<1>6. ASSUME NEW f \in Files, f.run = run, NEW n,
             n = FeatureLists => f.onnx = onnx \/ f.onnx = Nothing,
             dir' = Placed(n, f) \/ dir' = dir, UNCHANGED <<run, served>>,
             onnx' = onnx \/ (n \in Models /\ onnx' = [onnx EXCEPT ![n] = 0])
      PROVE  IInv'
  <2>1. dir' \in Directories /\ ListsAreExported(dir') /\ Exported(dir', run, onnx)
    BY <1>1, <1>6, PlacedFacts, ListsStay, ExportedStays
  <2>2. onnx' \in [Models -> Nat] /\ Exported(dir', run, onnx')
    BY <1>1, <1>6, <2>1 DEF Exported
  <2>3. QED
    BY <1>6, <2>1, <2>2 DEF IInv
<1>7. CASE ExportFails
  <2> DEFINE f == File(TRUE, Nothing)
  <2>1. f \in Files /\ f.run = run /\ f.onnx = Nothing
    BY <1>2, <1>3
  <2>2. /\ Name \in Models /\ (dir' = Placed(Name, f) \/ dir' = dir) /\ UNCHANGED <<run, served>>
        /\ onnx' = [onnx EXCEPT ![Name] = 0]
    BY <1>7 DEF ExportFails
  <2> HIDE DEF f
  <2>3. QED
    BY <1>6, <2>1, <2>2
<1>8. CASE WriteArtifact
  <2> DEFINE f == File(FALSE, IF Name = FeatureLists THEN onnx ELSE Nothing)
  <2>1. /\ f \in Files /\ f.run = run
        /\ f.onnx = IF Name = FeatureLists THEN onnx ELSE Nothing
    BY <1>1, <1>2, <1>3
  <2>2. dir' = Placed(Name, f) /\ UNCHANGED <<run, served, onnx>>
    BY <1>8 DEF WriteArtifact
  <2> HIDE DEF f
  <2>3. QED
    BY <1>6, <2>1, <2>2
<1>9. CASE Kill
  <2> DEFINE f == File(TRUE, Nothing)
  <2>1. f \in Files /\ f.run = run /\ f.onnx = Nothing
    BY <1>2, <1>3
  <2>2. (dir' = Placed(Name, f) \/ dir' = dir) /\ UNCHANGED <<run, served, onnx>>
    BY <1>9 DEF Kill
  <2> HIDE DEF f
  <2>3. QED
    BY <1>6, <2>1, <2>2
<1>10. CASE Deploy
  <2> DEFINE f == File(TRUE, Nothing)
  <2>1. f \in Files /\ f.run = run /\ f.onnx = Nothing
    BY <1>2, <1>3
  <2>2. (served' = Placed(Name, f) \/ served' = dir) /\ UNCHANGED <<run, onnx, dir>>
    BY <1>10 DEF Deploy
  <2> HIDE DEF f
  <2>3. served' \in Directories /\ ListsAreExported(served')
    BY <1>1, <2>1, <2>2, PlacedFacts, ListsStay
  <2>4. QED
    BY <2>2, <2>3 DEF IInv
<1>11. CASE StartEdge \/ StopEdge \/ UNCHANGED vars
  BY <1>11 DEF StartEdge, StopEdge, vars, IInv
<1>12. QED
  BY <1>4, <1>5, <1>7, <1>8, <1>9, <1>10, <1>11 DEF Next

(* A session is of a file that the run of the feature list has exported whole. *)
LEMMA SessionFacts ==
  ASSUME IInv, NEW m \in Models, HasSession(m)
  PROVE  SessionFile(m).run = Plain(FeatureLists)[1].run /\ ~SessionFile(m).torn
<1>1. served[FeatureLists] \in Seq(Files) /\ ListsAreExported(served)
  BY NamesDiffer DEF IInv, Directories
<1>2. served[FeatureLists] # <<>> /\ Lists = Plain(FeatureLists)[1].onnx
  BY DEF HasSession, Lists, IsThere, Nothing, Plain
<1>3. Plain(FeatureLists)[1] = served[FeatureLists][1] /\ 1 \in 1..Len(served[FeatureLists])
  BY <1>1, <1>2 DEF Plain
<1>4. Exported(served, Plain(FeatureLists)[1].run, Lists)
  BY <1>1, <1>2, <1>3 DEF ListsAreExported
<1>5. QED
  BY <1>4 DEF Exported, HasSession, SessionFile

(* However many runs wrote into the directory and whatever failed or was      *)
(* killed, the models that an edge node runs were all exported by the run     *)
(* whose feature list it reads, and none of them is torn.                     *)
THEOREM SessionsAreOfOneRun == Spec => []SessionsAreOneRun
<1>1. IInv => SessionsAreOneRun
  BY SessionFacts DEF SessionsAreOneRun
<1>2. QED
  BY <1>1, InitIInv, NextIInv, PTL DEF Spec
-----------------------------------------------------------------------------
Companions == Scalers \cup Encoders

(* What is at which place of two sequences put together.                      *)
LEMMA JoinedFacts ==
  ASSUME NEW S, NEW T, NEW p \in Seq(S), NEW q \in Seq(T)
  PROVE  /\ Len(p) \in Nat /\ Len(q) \in Nat /\ Len(p \o q) = Len(p) + Len(q)
         /\ \A k \in 1..Len(p) : (p \o q)[k] = p[k] /\ p[k] \in S
         /\ \A k \in 1..Len(q) : (p \o q)[Len(p) + k] = q[k] /\ q[k] \in T
<1>1. p \in Seq(S \cup T) /\ q \in Seq(S \cup T)
  OBVIOUS
<1>2. QED
  BY <1>1

(* The order of the files: every model has one place in the plan, the scalers *)
(* and encoders are written before the feature list, and that comes last.     *)
LEMMA PlanFacts ==
  /\ Len(Plan) \in Nat /\ Len(Plan) >= 1
  /\ \A k \in 1..Len(Plan) : Plan[k] \in Names /\ (Plan[k] = FeatureLists <=> k = Len(Plan))
  /\ \A n \in Companions : \E k \in 1..(Len(Plan) - 1) : Plan[k] = n
  /\ \A j, k \in 1..Len(Plan) : Plan[j] = Plan[k] /\ Plan[j] \in Models => j = k
<1> DEFINE models == [x \in 1..(2 * Len(Stages)) |->
                        <<IF x % 2 = 1 THEN "heavy" ELSE "lite", Stages[(x + 1) \div 2]>>]
           others == <<<<"heavy", "scaler">>, <<"lite", "scaler">>, FullEncoder, <<"stage2", "encoder">>,
                       <<"stage3", "encoder">>, ProtocolEncoder, FeatureLists>>
           N == 2 * Len(Stages)
<1>1. Stages \in Seq(STRING) /\ Len(Stages) \in Nat /\ N \in Nat
      /\ \A x, j \in 1..Len(Stages) : Stages[x] = Stages[j] => x = j
  BY ArtifactsAssumption DEF IsInjective
<1>2. ASSUME NEW k \in 1..N
      PROVE  (k + 1) \div 2 \in 1..Len(Stages) /\ (k % 2 = 1 \/ k % 2 = 0)
  BY <1>1
<1>3. ASSUME NEW k \in 1..N PROVE models[k] \in Models
  <2>1. Stages[(k + 1) \div 2] \in Range(Stages)
    BY <1>1, <1>2 DEF Range
  <2>2. QED
    BY <2>1 DEF Models, Tiers
<1>4. ASSUME NEW j \in 1..N, NEW k \in 1..N, models[j] = models[k] PROVE j = k
  <2>1. (j + 1) \div 2 = (k + 1) \div 2
    <3>1. Stages[(j + 1) \div 2] = Stages[(k + 1) \div 2]
      BY <1>4
    <3>2. QED
      BY <1>1, <1>2, <3>1
  <2>2. j % 2 = 1 <=> k % 2 = 1
    BY <1>4
  <2>3. QED
    BY <1>1, <2>1, <2>2
<1>5. /\ models \in Seq(Models) /\ Len(models) = N
      /\ others \in Seq(Names \ Models) /\ Len(others) = 7
  <2>1. models \in Seq(Models)
    BY <1>1, <1>3
  <2>2. Len(models) = N
    BY <1>1
  <2>3. \A t \in Tiers : <<t, "scaler">> \notin Models
    BY ArtifactsAssumption DEF Models
  <2>4. \A k \in 1..7 : others[k] \in Names \ Models
    BY <2>3 DEF Names, Models, Tiers, Scalers, Encoders, FullEncoder, ProtocolEncoder, FeatureLists
  <2>5. QED
    BY <2>1, <2>2, <2>4
<1>6. /\ others[1] = <<"heavy", "scaler">> /\ others[2] = <<"lite", "scaler">>
      /\ others[4] = <<"stage2", "encoder">> /\ others[5] = <<"stage3", "encoder">>
      /\ others[7] = FeatureLists
      /\ \A k \in 1..6 : others[k] # FeatureLists
  BY DEF FullEncoder, ProtocolEncoder, FeatureLists
<1>7. Plan = models \o others
  BY DEF Plan
<1> HIDE DEF models, others, N
<1>8. /\ Len(Plan) = N + 7
      /\ \A k \in 1..N : Plan[k] = models[k] /\ Plan[k] \in Models
      /\ \A k \in 1..7 : Plan[N + k] = others[k] /\ Plan[N + k] \in Names \ Models
  <2> DEFINE O == Names \ Models
  <2> HIDE DEF O
  <2>1. models \in Seq(Models) /\ others \in Seq(O)
    BY <1>5 DEF O
  <2>2. /\ Len(models \o others) = Len(models) + Len(others)
        /\ \A k \in 1..Len(models) : (models \o others)[k] = models[k] /\ models[k] \in Models
        /\ \A k \in 1..Len(others) : (models \o others)[Len(models) + k] = others[k] /\ others[k] \in O
    BY <2>1, JoinedFacts
  <2>3. QED
    BY <1>5, <1>7, <2>2 DEF O
<1>9. \A k \in 1..Len(Plan) : k \in 1..N \/ (k - N \in 1..7 /\ k = N + (k - N))
  BY <1>1, <1>8
<1>10. \A k \in 1..Len(Plan) : Plan[k] \in Names /\ (Plan[k] = FeatureLists <=> k = Len(Plan))
  <2>1. ASSUME NEW k \in 1..N
        PROVE  Plan[k] \in Names /\ Plan[k] # FeatureLists /\ k # Len(Plan)
    BY <1>1, <1>8, NamesDiffer
  <2>2. ASSUME NEW k \in 1..7
        PROVE  Plan[N + k] \in Names /\ (Plan[N + k] = FeatureLists <=> N + k = Len(Plan))
    BY <1>1, <1>6, <1>8
  <2>3. QED
    BY <1>9, <2>1, <2>2
<1>11. \A n \in Companions : \E k \in 1..(Len(Plan) - 1) : Plan[k] = n
  <2>1. \A k \in 1..6 : N + k \in 1..(Len(Plan) - 1) /\ Plan[N + k] = others[k]
    BY <1>1, <1>8
  <2>2. ASSUME NEW n \in Companions PROVE \E k \in 1..6 : others[k] = n
    BY <1>6 DEF Companions, Scalers, Encoders, Tiers
  <2>3. QED
    BY <2>1, <2>2
<1>12. \A j, k \in 1..Len(Plan) : Plan[j] = Plan[k] /\ Plan[j] \in Models => j = k
  <2>1. \A k \in 1..Len(Plan) : Plan[k] \in Models => k \in 1..N
    BY <1>8, <1>9
  <2>2. QED
    BY <1>4, <1>8, <2>1
<1>13. QED
  BY <1>1, <1>8, <1>10, <1>11, <1>12
-----------------------------------------------------------------------------
(* The second invariant is about the first file of each name, the one that    *)
(* the edge node reads.                                                       *)

(* Where there is a feature list, the scalers and encoders are there too, and *)
(* none of a later run; of an earlier run only after a kill.                  *)
CompanionsFirst(d) ==
  d[FeatureLists] # <<>> =>
    \A n \in Companions :
      /\ d[n] # <<>>
      /\ d[n][1].run <= d[FeatureLists][1].run
      /\ d[n][1].run # d[FeatureLists][1].run => cutShort

(* Without a kill no file that is read by its plain name is torn, and the     *)
(* first feature list gives first files.                                      *)
CleanFirst(d) ==
  ~cutShort =>
    /\ \A n \in LoadedByName : \A x \in 1..Len(d[n]) : ~d[n][x].torn
    /\ d[FeatureLists] # <<>> => \A m \in Models : d[FeatureLists][1].onnx[m] \in {0, 1}

(* The run under way has written what is behind it in the plan.               *)
WrittenSoFar ==
  Training =>
    /\ run >= 1
    /\ \A k \in 1..step : Plan[k] \in Companions => dir[Plan[k]] # <<>>

RunsInDir == \A n \in Names : \A x \in 1..Len(dir[n]) : dir[n][x].run \in 1..run

(* Without a kill, and before the first feature list, it is the first run     *)
(* that is under way, and a model it has not come to has no file yet.         *)
FirstRun ==
  ~cutShort /\ dir[FeatureLists] = <<>> =>
    /\ run = 0 \/ (run = 1 /\ Training)
    /\ \A m \in Models : onnx[m] \in {0, 1}
    /\ \A k \in (step + 1)..Len(Plan) : Plan[k] \in Models => dir[Plan[k]] = <<>>

FirstInv ==
  /\ step \in Nat /\ step <= Len(Plan)
  /\ CompanionsFirst(dir) /\ CompanionsFirst(served)
  /\ CleanFirst(dir) /\ CleanFirst(served)
  /\ WrittenSoFar /\ RunsInDir /\ FirstRun
  /\ edge = "failed" => cutShort \/ RequireModels

LEMMA InitFirst == Init => FirstInv
<1> SUFFICES ASSUME Init PROVE FirstInv
  OBVIOUS
<1>1. \A n \in Names : NoFiles[n] = <<>>
  BY DEF NoFiles
<1>2. /\ dir = NoFiles /\ served = NoFiles /\ run = 0 /\ step = Len(Plan) /\ onnx = Nothing
      /\ edge = "down" /\ Len(Plan) \in Nat
  BY PlanFacts DEF Init
<1>3. LoadedByName \subseteq Names /\ Models \subseteq Names /\ FeatureLists \in Names
  BY DEF LoadedByName, Names
<1>4. CompanionsFirst(dir) /\ CompanionsFirst(served)
  BY <1>1, <1>2, <1>3 DEF CompanionsFirst
<1>5. CleanFirst(dir) /\ CleanFirst(served)
  BY <1>1, <1>2, <1>3 DEF CleanFirst
<1>6. WrittenSoFar /\ RunsInDir
  BY <1>1, <1>2 DEF WrittenSoFar, Training, RunsInDir
<1>7. FirstRun
  BY <1>2 DEF FirstRun, Nothing
<1>8. QED
  BY <1>2, <1>4, <1>5, <1>6, <1>7 DEF FirstInv

(* What the first file of a name is after a write.                            *)
LEMMA FirstAfter ==
  ASSUME IInv, NEW n \in Names, NEW f \in Files, NEW m \in Names
  PROVE  /\ Placed(n, f)[m] # <<>> <=> (m = n \/ dir[m] # <<>>)
         /\ m # n => Placed(n, f)[m] = dir[m]
         /\ m # ProtocolEncoder /\ dir[m] # <<>> => Placed(n, f)[m][1] = dir[m][1]
         /\ m = n /\ dir[m] = <<>> => Placed(n, f)[m][1] = f
         /\ \A x \in 1..Len(Placed(n, f)[m]) :
              Placed(n, f)[m][x] = f \/ (x \in 1..Len(dir[m]) /\ Placed(n, f)[m][x] = dir[m][x])
<1>1. dir \in Directories /\ dir[m] \in Seq(Files) /\ Len(dir[m]) \in Nat
  BY DEF IInv, Directories
<1>2. CASE m # n
  BY <1>1, <1>2, PlacedFacts
<1>3. CASE m = n /\ n = ProtocolEncoder
  <2>1. Placed(n, f)[m] = <<f>>
    BY <1>1, <1>3 DEF Placed, PlacedPlain, Directories
  <2>2. QED
    BY <1>1, <1>3, <2>1
<1>4. CASE m = n /\ n # ProtocolEncoder
  <2>1. /\ Len(Placed(n, f)[n]) = Len(dir[n]) + 1
        /\ Placed(n, f)[n][Len(dir[n]) + 1] = f
        /\ \A x \in 1..Len(dir[n]) : Placed(n, f)[n][x] = dir[n][x]
        /\ Placed(n, f)[n] \in Seq(Files)
    BY <1>1, <1>4, PlacedFacts DEF Directories
  <2> DEFINE q == Placed(n, f)[n]
  <2> HIDE DEF q
  <2>2. Len(q) = Len(dir[n]) + 1 /\ q[Len(dir[n]) + 1] = f
        /\ \A x \in 1..Len(dir[n]) : q[x] = dir[n][x]
    BY <2>1 DEF q
  <2>3. q # <<>> /\ (dir[n] # <<>> => Len(dir[n]) >= 1) /\ (dir[n] = <<>> => Len(dir[n]) = 0)
    BY <1>1, <1>4, <2>2
  <2>4. q[1] = IF dir[n] = <<>> THEN f ELSE dir[n][1]
    BY <1>1, <1>4, <2>2, <2>3
  <2>5. \A x \in 1..Len(q) : q[x] = f \/ (x \in 1..Len(dir[n]) /\ q[x] = dir[n][x])
    BY <1>1, <1>4, <2>2
  <2>6. QED
    BY <1>4, <2>3, <2>4, <2>5 DEF q
<1>5. QED
  BY <1>2, <1>3, <1>4

LEMMA NamesApart ==
  /\ Companions \subseteq Names /\ Companions \cap Models = {} /\ ProtocolEncoder \notin Companions
  /\ FeatureLists \notin Companions /\ LoadedByName \subseteq Names /\ LoadedByName \cap Models = {}
  /\ FeatureLists \in LoadedByName /\ Companions \subseteq LoadedByName
<1>1. \A t \in Tiers : <<t, "scaler">> \notin Models
  BY ArtifactsAssumption DEF Models
<1>2. QED
  BY <1>1 DEF Companions, Scalers, Encoders, Models, Tiers, ProtocolEncoder, FeatureLists,
              LoadedByName, Names

(* When the feature list is next, the scalers and encoders are there.         *)
LEMMA CompanionsWait ==
  ASSUME IInv, FirstInv, Training, Name = FeatureLists, NEW n \in Companions
  PROVE  dir[n] # <<>> /\ dir[n][1].run \in 1..run
<1>1. /\ step \in Nat /\ step + 1 = Len(Plan) /\ n \in Names /\ run \in Nat
  BY PlanFacts, NamesApart DEF FirstInv, Training, Name, IInv
<1>2. PICK k \in 1..step : Plan[k] = n
  BY <1>1, PlanFacts
<1>3. dir[n] # <<>>
  BY <1>2 DEF FirstInv, WrittenSoFar
<1>4. 1 \in 1..Len(dir[n])
  <2>1. dir[n] \in Seq(Files)
    BY <1>1 DEF IInv, Directories
  <2>2. QED
    BY <1>3, <2>1
<1>5. QED
  BY <1>1, <1>3, <1>4 DEF FirstInv, RunsInDir

(* One step of a training run, whether it goes on or is killed.               *)
LEMMA WriteFirst ==
  ASSUME IInv, FirstInv, Training, UNCHANGED <<run, served, edge>>,
         NEW f \in Files, f.run = run,
         dir' = Placed(Name, f) \/ dir' = dir,
         \/ step' = Len(Plan) /\ cutShort' = TRUE
         \/ /\ step' = step + 1 /\ cutShort' = cutShort
            /\ Name \notin Models => ~f.torn /\ dir' = Placed(Name, f) /\ onnx' = onnx
            /\ Name = FeatureLists => f.onnx = onnx
            /\ Name \in Models =>
                 \E k \in {0, NumberOf(Name)} : onnx' = [onnx EXCEPT ![Name] = k]
  PROVE  FirstInv'
<1> DEFINE L == FeatureLists
<1>1. /\ Name \in Names /\ step \in Nat /\ step < Len(Plan) /\ Len(Plan) \in Nat
      /\ Name = Plan[step + 1] /\ (Name = L <=> step + 1 = Len(Plan)) /\ step + 1 \in 1..Len(Plan)
  BY PlanFacts DEF FirstInv, Training, Name
<1>2. /\ L \in Names /\ L # ProtocolEncoder /\ L \notin Models /\ Models \subseteq Names
  BY NamesDiffer
<1>3. ASSUME NEW m \in Names
      PROVE  /\ dir[m] # <<>> => dir'[m] # <<>>
             /\ m # Name => dir'[m] = dir[m]
             /\ m # ProtocolEncoder /\ dir[m] # <<>> => dir'[m][1] = dir[m][1]
             /\ m = Name /\ dir[m] = <<>> /\ dir'[m] # <<>> => dir'[m][1] = f
             /\ \A x \in 1..Len(dir'[m]) :
                  (dir'[m][x] = f /\ m = Name) \/ (x \in 1..Len(dir[m]) /\ dir'[m][x] = dir[m][x])
  BY <1>1, FirstAfter
<1>4. run >= 1 /\ run \in Nat /\ (cutShort => cutShort')
  BY DEF FirstInv, WrittenSoFar, IInv
<1>5. CompanionsFirst(dir)'
  <2> SUFFICES ASSUME dir'[L] # <<>>, NEW n \in Companions
               PROVE  /\ dir'[n] # <<>> /\ dir'[n][1].run <= dir'[L][1].run
                      /\ dir'[n][1].run # dir'[L][1].run => cutShort'
    BY DEF CompanionsFirst
  <2>1. n \in Names /\ n # ProtocolEncoder /\ n # L
    BY NamesApart
  <2>2. CASE dir[L] # <<>>
    <3>1. dir[n] # <<>> /\ dir[n][1].run <= dir[L][1].run /\ (dir[n][1].run # dir[L][1].run => cutShort)
      BY <2>2 DEF FirstInv, CompanionsFirst
    <3>2. QED
      BY <1>2, <1>3, <1>4, <2>1, <2>2, <3>1
  <2>3. CASE dir[L] = <<>>
    <3>1. Name = L /\ dir'[L][1] = f
      BY <1>1, <1>2, <1>3, <2>3
    <3>2. dir[n] # <<>> /\ dir[n][1].run \in 1..run
      BY <3>1, CompanionsWait
    <3>3. dir'[n] = dir[n]
      BY <1>3, <2>1, <3>1
    <3>4. ~cutShort => run = 1
      BY <1>4, <2>3 DEF FirstInv, FirstRun
    <3>5. QED
      BY <1>4, <3>1, <3>2, <3>3, <3>4
  <2>4. QED
    BY <2>2, <2>3
<1>6. CompanionsFirst(served)'
  BY <1>4 DEF FirstInv, CompanionsFirst
<1>7. CleanFirst(dir)'
  <2> SUFFICES ASSUME ~cutShort'
               PROVE  /\ \A n \in LoadedByName : \A x \in 1..Len(dir'[n]) : ~dir'[n][x].torn
                      /\ dir'[L] # <<>> => \A m \in Models : dir'[L][1].onnx[m] \in {0, 1}
    BY DEF CleanFirst
  <2>1. /\ ~cutShort /\ (Name \notin Models => ~f.torn) /\ (Name = L => f.onnx = onnx)
    BY <1>4
  <2>2. ASSUME NEW n \in LoadedByName, NEW x \in 1..Len(dir'[n]) PROVE ~dir'[n][x].torn
    <3>1. n \in Names /\ n \notin Models
      BY NamesApart
    <3>2. (dir'[n][x] = f /\ n = Name) \/ (x \in 1..Len(dir[n]) /\ dir'[n][x] = dir[n][x])
      BY <1>3, <3>1
    <3>3. QED
      BY <2>1, <3>1, <3>2 DEF FirstInv, CleanFirst
  <2>3. ASSUME dir'[L] # <<>>, NEW m \in Models PROVE dir'[L][1].onnx[m] \in {0, 1}
    <3>1. CASE dir[L] # <<>>
      BY <1>2, <1>3, <2>1, <3>1 DEF FirstInv, CleanFirst
    <3>2. CASE dir[L] = <<>>
      <4>1. Name = L /\ dir'[L][1] = f
        BY <1>2, <1>3, <2>3, <3>2
      <4>2. QED
        BY <2>1, <3>2, <4>1 DEF FirstInv, FirstRun
    <3>3. QED
      BY <3>1, <3>2
  <2>4. QED
    BY <2>2, <2>3
<1>8. CleanFirst(served)'
  BY <1>4 DEF FirstInv, CleanFirst
<1>9. step' \in Nat /\ step' <= Len(Plan)
  BY <1>1
<1>10. WrittenSoFar'
  <2> SUFFICES ASSUME step' < Len(Plan), NEW k \in 1..step', Plan[k] \in Companions
               PROVE  dir'[Plan[k]] # <<>>
    BY <1>4 DEF WrittenSoFar, Training
  <2>1. step' = step + 1 /\ Plan[k] \in Names /\ Plan[k] \notin Models
    BY <1>1, NamesApart
  <2>2. CASE k = step + 1
    <3>1. dir' = Placed(Name, f) /\ Plan[k] = Name
      BY <1>1, <2>1, <2>2
    <3>2. QED
      BY <1>1, <3>1, FirstAfter
  <2>3. CASE k \in 1..step
    BY <1>3, <2>1, <2>3 DEF FirstInv, WrittenSoFar
  <2>4. QED
    BY <1>1, <2>1, <2>2, <2>3
<1>11. RunsInDir'
  <2>1. ASSUME NEW n \in Names, NEW x \in 1..Len(dir'[n]) PROVE dir'[n][x].run \in 1..run
    BY <1>3, <1>4, <2>1, SMTT(30) DEF FirstInv, RunsInDir
  <2>2. QED
    BY <2>1 DEF RunsInDir
<1>12. FirstRun'
  <2> SUFFICES ASSUME ~cutShort', dir'[L] = <<>>
               PROVE  /\ run = 1 /\ step' < Len(Plan)
                      /\ \A m \in Models : onnx'[m] \in {0, 1}
                      /\ \A k \in (step' + 1)..Len(Plan) : Plan[k] \in Models => dir'[Plan[k]] = <<>>
    BY DEF FirstRun, Training
  <2>1. ~cutShort /\ dir[L] = <<>> /\ step' = step + 1
    BY <1>2, <1>3, <1>4
  <2>2. /\ run = 1 /\ \A m \in Models : onnx[m] \in {0, 1}
        /\ \A k \in (step + 1)..Len(Plan) : Plan[k] \in Models => dir[Plan[k]] = <<>>
    BY <1>4, <2>1 DEF FirstInv, FirstRun
  <2>3. Name # L
    <3>1. ASSUME Name = L PROVE FALSE
      <4>1. dir' = Placed(Name, f)
        BY <1>2, <1>4, <3>1
      <4>2. QED
        BY <1>1, <1>2, <3>1, <4>1, FirstAfter
    <3>2. QED
      BY <3>1
  <2>4. step' < Len(Plan)
    BY <1>1, <2>1, <2>3
  <2>5. ASSUME NEW m \in Models PROVE onnx'[m] \in {0, 1}
    <3>1. CASE Name \in Models
      <4>1. dir[Name] = <<>>
        BY <1>1, <2>2, <3>1
      <4>2. NumberOf(Name) = 1
        BY <4>1 DEF NumberOf
      <4>3. PICK k \in {0, 1} : onnx' = [onnx EXCEPT ![Name] = k]
        BY <1>4, <2>1, <3>1, <4>2
      <4>4. QED
        BY <2>2, <4>3 DEF IInv
    <3>2. CASE Name \notin Models
      BY <1>4, <2>2, <3>2
    <3>3. QED
      BY <3>1, <3>2
  <2>6. ASSUME NEW k \in (step' + 1)..Len(Plan), Plan[k] \in Models PROVE dir'[Plan[k]] = <<>>
    <3>1. k \in 1..Len(Plan) /\ k # step + 1 /\ k \in (step + 1)..Len(Plan)
      BY <1>1, <2>1
    <3>2. Plan[k] # Name
      BY <1>1, <2>6, <3>1, PlanFacts
    <3>3. QED
      BY <1>2, <1>3, <2>2, <2>6, <3>1, <3>2
  <2>7. QED
    BY <2>2, <2>4, <2>5, <2>6
<1>13. edge' = "failed" => cutShort' \/ RequireModels
  BY <1>4 DEF FirstInv
<1>14. QED
  BY <1>5, <1>6, <1>7, <1>8, <1>9, <1>10, <1>11, <1>12, <1>13 DEF FirstInv

(* What is copied in the middle of a write has the scalers and encoders too.  *)
LEMMA CopiedInAWrite ==
  ASSUME IInv, FirstInv, Training, NEW f \in Files, f.run = run,
         Placed(Name, f)[FeatureLists] # <<>>, NEW n \in Companions
  PROVE  /\ Placed(Name, f)[n] # <<>>
         /\ Placed(Name, f)[n][1].run <= Placed(Name, f)[FeatureLists][1].run
<1> DEFINE L == FeatureLists
<1>1. /\ Name \in Names /\ L \in Names /\ L # ProtocolEncoder /\ run \in Nat
  BY PlanFacts, NamesDiffer DEF FirstInv, Training, Name, IInv
<1>2. n \in Names /\ n # ProtocolEncoder /\ n # L
  BY NamesApart
<1>3. CASE dir[L] # <<>>
  <2>1. dir[n] # <<>> /\ dir[n][1].run <= dir[L][1].run
    BY <1>3 DEF FirstInv, CompanionsFirst
  <2>2. QED
    BY <1>1, <1>2, <1>3, <2>1, FirstAfter
<1>4. CASE dir[L] = <<>>
  <2>1. Name = L
    BY <1>1, <1>4, FirstAfter
  <2>2. dir[n] # <<>> /\ dir[n][1].run \in 1..run
    BY <2>1, CompanionsWait
  <2>3. Placed(Name, f)[n] = dir[n] /\ Placed(Name, f)[L][1] = f
    BY <1>1, <1>2, <1>4, <2>1, FirstAfter
  <2>4. QED
    BY <1>1, <2>2, <2>3
<1>5. QED
  BY <1>3, <1>4

(* What the edge node reads is readable where nothing was cut short.          *)
LEMMA CleanIsReadable ==
  ASSUME IInv, FirstInv, ~cutShort
  PROVE  Readable
<1>1. ASSUME NEW n \in LoadedByName, IsThere(n) PROVE ~Plain(n)[1].torn
  <2>1. n \in Names /\ served[n] \in Seq(Files)
    BY NamesApart DEF IInv, Directories
  <2>2. served[n] # <<>> /\ Plain(n)[1] = served[n][1] /\ 1 \in 1..Len(served[n])
    BY <1>1, <2>1 DEF IsThere, Plain
  <2>3. QED
    BY <2>2 DEF FirstInv, CleanFirst
<1>2. ASSUME NEW m \in Models, HasSession(m) PROVE ~SessionFile(m).torn
  BY <1>2, SessionFacts
<1>3. QED
  BY <1>1, <1>2 DEF Readable

LEMMA NextFirst == IInv /\ FirstInv /\ [Next]_vars => FirstInv'
<1> SUFFICES ASSUME IInv, FirstInv, [Next]_vars PROVE FirstInv'
  OBVIOUS
<1>1. /\ run \in Nat /\ onnx \in [Models -> Nat] /\ Nothing \in [Models -> Nat]
      /\ dir \in Directories /\ Len(Plan) \in Nat /\ step \in Nat
  BY NothingIsExported, PlanFacts DEF IInv, FirstInv
<1>2. \A torn \in BOOLEAN, names \in [Models -> Nat] :
        /\ File(torn, names) \in Files /\ File(torn, names).run = run
        /\ File(torn, names).onnx = names /\ File(torn, names).torn = torn
  BY <1>1 DEF File, Files
<1>3. CASE TrainModels
  <2>1. /\ ~Training /\ run' = run + 1 /\ step' = 0 /\ onnx' = Nothing
        /\ UNCHANGED <<dir, served, edge, cutShort>>
    BY <1>3 DEF TrainModels
  <2>2. WrittenSoFar'
    BY <1>1, <2>1 DEF WrittenSoFar
  <2>3. RunsInDir'
    BY <1>1, <2>1 DEF FirstInv, RunsInDir
  <2>4. FirstRun'
    <3> SUFFICES ASSUME ~cutShort, dir[FeatureLists] = <<>>
                 PROVE  /\ run + 1 = 1 /\ 0 < Len(Plan)
                        /\ \A m \in Models : Nothing[m] \in {0, 1}
                        /\ \A k \in 1..Len(Plan) : Plan[k] \in Models => dir[Plan[k]] = <<>>
      BY <2>1 DEF FirstRun, Training
    <3>1. run = 0
      BY <2>1 DEF FirstInv, FirstRun
    <3>2. ASSUME NEW m \in Models PROVE dir[m] = <<>>
      <4>1. m \in Names /\ dir[m] \in Seq(Files) /\ Len(dir[m]) \in Nat
        BY <1>1, NamesDiffer DEF Directories
      <4>2. 1 \notin 1..Len(dir[m])
        BY <3>1, <4>1 DEF FirstInv, RunsInDir
      <4>3. QED
        BY <4>1, <4>2
    <3>3. QED
      BY <3>1, <3>2, PlanFacts DEF Nothing
  <2>5. QED
    BY <1>1, <2>1, <2>2, <2>3, <2>4 DEF FirstInv, CompanionsFirst, CleanFirst
<1>4. CASE ExportModel
  <2> DEFINE f == File(FALSE, Nothing)
  <2>1. f \in Files /\ f.run = run /\ ~f.torn
    BY <1>1, <1>2
  <2>2. /\ Training /\ Name \in Models /\ dir' = Placed(Name, f) /\ UNCHANGED <<run, served, edge, cutShort>>
        /\ onnx' = [onnx EXCEPT ![Name] = NumberOf(Name)] /\ step' = step + 1
    BY <1>4 DEF ExportModel
  <2> HIDE DEF f
  <2>3. QED
    BY <2>1, <2>2, WriteFirst, NamesDiffer
<1>5. CASE ExportFails
  <2> DEFINE f == File(TRUE, Nothing)
  <2>1. f \in Files /\ f.run = run
    BY <1>1, <1>2
  <2>2. /\ Training /\ Name \in Models /\ (dir' = Placed(Name, f) \/ dir' = dir)
        /\ UNCHANGED <<run, served, edge, cutShort>>
        /\ onnx' = [onnx EXCEPT ![Name] = 0] /\ step' = step + 1
    BY <1>5 DEF ExportFails
  <2> HIDE DEF f
  <2>3. QED
    BY <2>1, <2>2, WriteFirst, NamesDiffer
<1>6. CASE WriteArtifact
  <2> DEFINE f == File(FALSE, IF Name = FeatureLists THEN onnx ELSE Nothing)
  <2>1. f \in Files /\ f.run = run /\ ~f.torn /\ (Name = FeatureLists => f.onnx = onnx)
    BY <1>1, <1>2
  <2>2. /\ Training /\ Name \notin Models /\ dir' = Placed(Name, f)
        /\ UNCHANGED <<run, onnx, served, edge, cutShort>> /\ step' = step + 1
    BY <1>6 DEF WriteArtifact
  <2> HIDE DEF f
  <2>3. QED
    BY <2>1, <2>2, WriteFirst
<1>7. CASE Kill
  <2> DEFINE f == File(TRUE, Nothing)
  <2>1. f \in Files /\ f.run = run
    BY <1>1, <1>2
  <2>2. /\ Training /\ (dir' = Placed(Name, f) \/ dir' = dir)
        /\ UNCHANGED <<run, served, edge>> /\ step' = Len(Plan) /\ cutShort' = TRUE
    BY <1>7 DEF Kill
  <2> HIDE DEF f
  <2>3. QED
    BY <2>1, <2>2, WriteFirst
<1>8. CASE Deploy
  <2>1. UNCHANGED <<run, step, onnx, dir, edge>> /\ (cutShort' = cutShort \/ cutShort' = TRUE)
    BY <1>8 DEF Deploy
  <2>2. CompanionsFirst(served)' /\ CleanFirst(served)'
    <3>1. CASE served' = dir /\ UNCHANGED cutShort
      BY <3>1 DEF FirstInv, CompanionsFirst, CleanFirst
    <3>2. CASE Training /\ served' = Placed(Name, File(TRUE, Nothing)) /\ cutShort' = TRUE
      BY <1>1, <1>2, <3>2, CopiedInAWrite DEF CompanionsFirst, CleanFirst
    <3>3. QED
      BY <1>8, <3>1, <3>2 DEF Deploy
  <2>3. CompanionsFirst(dir)' /\ CleanFirst(dir)'
    BY <2>1 DEF FirstInv, CompanionsFirst, CleanFirst
  <2>4. WrittenSoFar' /\ RunsInDir' /\ FirstRun'
    BY <2>1 DEF FirstInv, WrittenSoFar, Training, RunsInDir, FirstRun
  <2>5. QED
    BY <2>1, <2>2, <2>3, <2>4 DEF FirstInv
<1>9. CASE StartEdge
  <2>1. edge' = "failed" => cutShort \/ RequireModels
    BY <1>9, CleanIsReadable DEF StartEdge
  <2>2. QED
    BY <1>9, <2>1 DEF StartEdge, FirstInv, CompanionsFirst, CleanFirst, WrittenSoFar, Training,
                      RunsInDir, FirstRun
<1>10. CASE StopEdge
  BY <1>10 DEF StopEdge, FirstInv, CompanionsFirst, CleanFirst, WrittenSoFar, Training, RunsInDir,
              FirstRun
<1>11. CASE UNCHANGED vars
  BY <1>11 DEF vars, FirstInv, CompanionsFirst, CleanFirst, WrittenSoFar, Training, RunsInDir, FirstRun
<1>12. QED
  BY <1>3, <1>4, <1>5, <1>6, <1>7, <1>8, <1>9, <1>10, <1>11 DEF Next

(* The edge node reads the first file of a name.                              *)
LEMMA PlainFacts ==
  ASSUME IInv, NEW n \in Names
  PROVE  /\ IsThere(n) <=> served[n] # <<>>
         /\ IsThere(n) => Plain(n)[1] = served[n][1] /\ served[n][1] \in Files
         /\ \A k \in Nat : k = 1 /\ served[n] # <<>> => k \in 1..Len(served[n])
<1>1. served[n] \in Seq(Files)
  BY DEF IInv, Directories
<1>2. served[n] # <<>> => Len(served[n]) >= 1 /\ served[n][1] \in Files /\ Head(served[n]) = served[n][1]
  BY <1>1
<1>3. QED
  BY <1>1, <1>2 DEF IsThere, Plain

(* Where there is a feature list, in the directory or in its copy, there are  *)
(* the scalers and encoders, under their plain names, of its run, or after a  *)
(* run was killed of an earlier one; and without a kill nothing that is read  *)
(* by its plain name is torn, and the first feature list gives first files.   *)
THEOREM FirstFilesStay == Spec => [](IInv /\ FirstInv)
BY InitIInv, NextIInv, InitFirst, NextFirst, PTL DEF Spec

(* The scalers and encoders that an edge node loads are of the run whose      *)
(* feature list it reads, or of an earlier one if a run was killed.           *)
THEOREM ScalersAreOfTheModels == Spec => []ScalersMatchModels
<1>1. IInv /\ FirstInv => ScalersMatchModels
  <2> SUFFICES ASSUME IInv, FirstInv, IsThere(FeatureLists), NEW n \in Companions
               PROVE  /\ IsThere(n)
                      /\ Plain(n)[1].run # Plain(FeatureLists)[1].run =>
                           cutShort /\ Plain(n)[1].run < Plain(FeatureLists)[1].run
    BY DEF ScalersMatchModels, Companions
  <2>1. n \in Names /\ FeatureLists \in Names
    BY NamesApart, NamesDiffer
  <2>2. /\ served[n] # <<>> /\ served[n][1].run <= served[FeatureLists][1].run
        /\ served[n][1].run # served[FeatureLists][1].run => cutShort
    BY <2>1, PlainFacts DEF FirstInv, CompanionsFirst
  <2>3. /\ Plain(n)[1] = served[n][1] /\ Plain(FeatureLists)[1] = served[FeatureLists][1]
        /\ served[n][1].run \in Nat /\ served[FeatureLists][1].run \in Nat /\ IsThere(n)
    BY <2>1, <2>2, PlainFacts DEF Files
  <2>4. QED
    BY <2>2, <2>3
<1>2. QED
  BY <1>1, FirstFilesStay, PTL

(* Where no run was killed, nor copied in the middle of a write, an edge node  *)
(* starts with whatever it is given; and once there is a feature list, a tier  *)
(* serves exactly if the first run has exported all of its models.             *)
THEOREM CleanRunsAlwaysServe == Spec => []CleanRunsServe
<1>1. IInv /\ FirstInv => CleanRunsServe
  <2> SUFFICES ASSUME IInv, FirstInv, ~cutShort, ~RequireModels
               PROVE  /\ edge # "failed"
                      /\ IsThere(FeatureLists) =>
                           \A t \in Tiers :
                             Serves(t) <=>
                               \A s \in Range(Stages) :
                                 served[<<t, s>>] # <<>> /\ Lists[<<t, s>>] = 1
    BY DEF CleanRunsServe
  <2>1. edge # "failed"
    BY DEF FirstInv
  <2>2. ASSUME IsThere(FeatureLists), NEW t \in Tiers
        PROVE  Serves(t) <=>
                 \A s \in Range(Stages) : served[<<t, s>>] # <<>> /\ Lists[<<t, s>>] = 1
    <3>1. FeatureLists \in Names /\ served[FeatureLists] # <<>>
      BY <2>2, NamesDiffer, PlainFacts
    <3>2. IsThere(<<t, "scaler">>)
      <4>1. <<t, "scaler">> \in Companions /\ <<t, "scaler">> \in Names
        BY NamesApart DEF Companions, Scalers
      <4>2. QED
        BY <3>1, <4>1, PlainFacts DEF FirstInv, CompanionsFirst
    <3>3. ASSUME NEW s \in Range(Stages)
          PROVE  HasSession(<<t, s>>) <=> served[<<t, s>>] # <<>> /\ Lists[<<t, s>>] = 1
      <4> DEFINE m == <<t, s>>
      <4>1. m \in Models /\ m \in Names
        BY NamesDiffer DEF Models
      <4> HIDE DEF m
      <4>2. Lists[m] \in {0, 1}
        BY <2>2, <3>1, <4>1, PlainFacts DEF Lists, FirstInv, CleanFirst
      <4>3. HasSession(m) <=> served[m] # <<>> /\ Lists[m] = 1
        <5>1. served[m] \in Seq(Files)
          BY <4>1 DEF IInv, Directories
        <5>2. QED
          BY <4>2, <5>1 DEF HasSession
      <4>4. QED
        BY <4>3 DEF m
    <3>4. QED
      BY <3>2, <3>3 DEF Serves
  <2>3. QED
    BY <2>1, <2>2
<1>2. QED
  BY <1>1, FirstFilesStay, PTL
------------------------------------------------------------------------------
(* The sampler: arithmetic.                                                *)

USE NumbersAssumption, SourcesAssumption

\* Quotients of natural numbers.
LEMMA DivFacts ==
  ASSUME NEW a \in Nat, NEW b \in Nat \ {0}
  PROVE  /\ a \div b \in Nat
         /\ (a \div b) * b <= a
         /\ a >= b => a \div b >= 1
         /\ a \div b <= a
OBVIOUS

\* What is at most a factor is at most the product.
LEMMA FactorAtMost ==
  ASSUME NEW a \in Nat, NEW b \in Nat \ {0}, NEW c \in Nat, a * b <= c
  PROVE  a <= c
<1>1. a * 1 <= a * b
  OBVIOUS
<1>2. QED
  BY <1>1

\* Products grow with each factor.
LEMMA TimesMonotone ==
  ASSUME NEW a \in Nat, NEW b \in Nat, NEW c \in Nat, a <= b
  PROVE  a * c <= b * c /\ a * c \in Nat
OBVIOUS


\* What is in a sequence is what the sequence is of.
LEMMA ElementType ==
  ASSUME NEW S, NEW w \in Seq(S), NEW k \in DOMAIN w
  PROVE  w[k] \in S
OBVIOUS

\* What is in a sequence of packets has the number of a packet.
LEMMA WrittenType ==
  ASSUME NEW w \in Seq([ip : Nat, block : Nat \ {0}]), NEW k \in DOMAIN w
  PROVE  w[k] \in [ip : Nat, block : Nat \ {0}] /\ w[k].ip \in Nat
<1>1. w[k] \in [ip : Nat, block : Nat \ {0}]
  BY ElementType, ZenonT(30)
<1>2. QED
  BY <1>1
------------------------------------------------------------------------------
(* The inductive invariant.                                                *)

\* The IPv4 packets among the first n, and the packets that are looked at.
IpIn(n) == {j \in 1..n : source[j]}
Limit == Smaller(Len(source), MaxPackets)

Typed ==
  /\ source \in Seq(BOOLEAN) /\ target \in Nat \ {0} /\ numBlocks \in Nat \ {0}
  /\ pass \in {"count", "plan", "copy", "done"}
  /\ i \in Nat /\ i <= Limit /\ total \in Nat /\ seen \in Nat
  /\ blocks \in Seq(BlockType) /\ block \in 1..(Len(blocks) + 1)
  /\ written \in Seq([ip : Nat, block : Nat \ {0}])

\* The first pass counts, and the second one counts again.
Counted ==
  /\ pass = "count" => total = Cardinality(IpIn(i))
  /\ pass # "count" => total = Cardinality(IpIn(Limit))
  /\ pass = "plan" => total > 0
  /\ pass \in {"count", "plan"} => blocks = <<>> /\ written = <<>> /\ seen = 0 /\ block = 1
  /\ pass = "copy" => seen = Cardinality(IpIn(i)) /\ total > 0
  /\ pass = "done" =>
       \/ total = 0 /\ blocks = <<>> /\ written = <<>> /\ seen = 0
       \/ total > 0 /\ seen <= total /\ (seen = total \/ block > Len(blocks))

\* Every block starts at one of its starts.
Planning ==
  (pass \in {"copy", "done"} /\ total > 0) =>
    /\ Len(blocks) = BlockCount
    /\ \A b \in 1..BlockCount :
         blocks[b].start \in Starts(b) /\ blocks[b].end = blocks[b].start + BlockSize

IsPlanned(p) == \E b \in DOMAIN blocks : blocks[b].start <= p /\ p < blocks[b].end
IsCopied(p) == \E k \in DOMAIN written : written[k].ip = p
EndsABlock(p) == \E b \in 1..(Len(blocks) - 1) : p = blocks[b].end

\* The blocks before the current one are over, the current one is not.
Copying ==
  /\ \A b \in 1..(block - 1) : blocks[b].end < seen
  /\ block <= Len(blocks) => seen <= blocks[block].end
  /\ \A k \in DOMAIN written :
       /\ written[k].block \in DOMAIN blocks /\ written[k].ip < seen
       /\ blocks[written[k].block].start <= written[k].ip
       /\ written[k].ip < blocks[written[k].block].end
  /\ \A k \in 2..Len(written) : written[k - 1].ip < written[k].ip
  /\ \A p \in Nat : p < seen /\ IsPlanned(p) => IsCopied(p) \/ EndsABlock(p)

SamplerInv == Typed /\ Counted /\ Planning /\ Copying
------------------------------------------------------------------------------
(* Lemmas on the count.                                                    *)

\* The packets counted are finitely many, and one more packet adds one or none.
LEMMA CountFacts ==
  ASSUME source \in Seq(BOOLEAN), NEW n \in Nat, n <= Len(source)
  PROVE  /\ IsFiniteSet(IpIn(n)) /\ Cardinality(IpIn(n)) \in Nat /\ Cardinality(IpIn(n)) <= n
         /\ n < Len(source) =>
              Cardinality(IpIn(n + 1)) = Cardinality(IpIn(n)) + (IF source[n + 1] THEN 1 ELSE 0)
         /\ \A m \in Nat : m <= n => Cardinality(IpIn(m)) <= Cardinality(IpIn(n))
<1>1. IsFiniteSet(1..n) /\ Cardinality(1..n) = n
  BY FS_Interval
<1>2. IpIn(n) \subseteq 1..n
  BY DEF IpIn
<1>3. IsFiniteSet(IpIn(n)) /\ Cardinality(IpIn(n)) <= n
  BY <1>1, <1>2, FS_Subset
<1>4. Cardinality(IpIn(n)) \in Nat
  BY <1>3, FS_CardinalityType
<1>5. n < Len(source) =>
        Cardinality(IpIn(n + 1)) = Cardinality(IpIn(n)) + (IF source[n + 1] THEN 1 ELSE 0)
  <2>1. CASE source[n + 1]
    <3>1. IpIn(n + 1) = IpIn(n) \cup {n + 1} /\ n + 1 \notin IpIn(n)
      BY <2>1 DEF IpIn
    <3>2. QED
      BY <1>3, <2>1, <3>1, FS_AddElement
  <2>2. CASE ~ source[n + 1]
    <3>1. IpIn(n + 1) = IpIn(n)
      BY <2>2 DEF IpIn
    <3>2. QED
      BY <1>4, <2>2, <3>1
  <2>3. QED
    BY <2>1, <2>2
<1>6. ASSUME NEW m \in Nat, m <= n PROVE Cardinality(IpIn(m)) <= Cardinality(IpIn(n))
  <2>1. IpIn(m) \subseteq IpIn(n)
    BY <1>6 DEF IpIn
  <2>2. QED
    BY <1>3, <2>1, FS_Subset
<1>7. QED
  BY <1>3, <1>4, <1>5, <1>6

\* The end of a pass is at the limit.
LEMMA LimitFacts ==
  ASSUME Typed
  PROVE  /\ Limit \in Nat /\ Limit <= Len(source) /\ Len(source) \in Nat
         /\ AtEnd <=> i = Limit
BY DEF Typed, Limit, Smaller, AtEnd
------------------------------------------------------------------------------
(* Lemmas on the plan.                                                     *)

\* There is at least one block, of at least one packet, and the segments are
\* equal parts of the file.  No more packets are planned than asked for, or one
\* window for each block asked for.
LEMMA PlanNumbers ==
  ASSUME Typed, total > 0
  PROVE  /\ Take \in Nat \ {0} /\ Wanted \in Nat \ {0}
         /\ BlockSize \in Nat \ {0} /\ BlockCount \in Nat \ {0} /\ SegmentLen \in Nat \ {0}
         /\ SegmentLen * BlockCount <= total
         /\ BlockCount * BlockSize <= Take \/ (BlockCount = Wanted /\ BlockSize = WindowSize)
<1>1. Take \in Nat \ {0} /\ Take <= total
  BY DEF Typed, Take, Smaller
<1>2. Wanted \in Nat \ {0} /\ Wanted <= Take
  BY <1>1 DEF Typed, Wanted, AtLeastOne, Smaller
<1>3. \A n \in Nat : Windows(n) \in Nat /\ Windows(n) <= n /\ (n >= WindowSize => Windows(n) >= WindowSize)
  <2>1. SUFFICES ASSUME NEW n \in Nat
                 PROVE  Windows(n) \in Nat /\ Windows(n) <= n
                        /\ (n >= WindowSize => Windows(n) >= WindowSize)
    OBVIOUS
  <2>2. n \div WindowSize \in Nat /\ (n \div WindowSize) * WindowSize <= n
        /\ (n >= WindowSize => n \div WindowSize >= 1)
    BY DivFacts
  <2>3. n \div WindowSize >= 1 => 1 * WindowSize <= (n \div WindowSize) * WindowSize
    BY <2>2, TimesMonotone
  <2>4. (n \div WindowSize) * WindowSize \in Nat
    BY <2>2, TimesMonotone
  <2>5. QED
    BY <2>2, <2>3, <2>4 DEF Windows
<1>4. /\ Take \div Wanted \in Nat /\ (Take \div Wanted) * Wanted <= Take
      /\ Windows(Take \div Wanted) \in Nat /\ Windows(Take \div Wanted) <= Take \div Wanted
      /\ Windows(MaxBlock) \in Nat \ {0} /\ Windows(MaxBlock) <= MaxBlock
  BY <1>1, <1>2, <1>3, DivFacts
<1>5. Take \div Wanted <= Take
  BY <1>1, <1>2, DivFacts
<1>6. CASE TooBig
  <2>1. BlockSize = Windows(MaxBlock) /\ BlockSize \in Nat \ {0} /\ BlockSize <= Take
    BY <1>1, <1>4, <1>5, <1>6 DEF BlockSize, TooBig
  <2>2. Take \div BlockSize \in Nat /\ (Take \div BlockSize) * BlockSize <= Take
        /\ Take \div BlockSize >= 1
    BY <1>1, <2>1, DivFacts
  <2>3. BlockCount = Take \div BlockSize
    BY <1>6, <2>2 DEF BlockCount, AtLeastOne
  <2>4. BlockCount \in Nat \ {0} /\ BlockCount * BlockSize <= Take
    BY <2>2, <2>3
  <2>5. BlockCount <= Take
    BY <1>1, <2>1, <2>4, FactorAtMost
  <2>6. BlockCount <= total /\ total \in Nat
    BY <1>1, <2>4, <2>5 DEF Typed
  <2>7. SegmentLen \in Nat \ {0} /\ SegmentLen * BlockCount <= total
    BY <2>4, <2>6, DivFacts DEF SegmentLen
  <2>8. QED
    BY <1>1, <1>2, <2>1, <2>4, <2>7
<1>7. CASE ~ TooBig
  <2>1. BlockCount = Wanted /\ BlockSize \in Nat \ {0}
    BY <1>4, <1>7 DEF BlockCount, BlockSize
  <2>2. SegmentLen \in Nat \ {0} /\ SegmentLen * BlockCount <= total
    <3>1. total \in Nat /\ BlockCount \in Nat \ {0} /\ total >= BlockCount
      BY <1>1, <1>2, <2>1 DEF Typed
    <3>2. QED
      BY <3>1, DivFacts DEF SegmentLen
  <2>3. CASE Windows(Take \div Wanted) = 0
    <3>1. BlockSize = WindowSize
      BY <1>7, <2>3 DEF BlockSize
    <3>2. QED
      BY <1>1, <1>2, <2>1, <2>2, <3>1
  <2>4. ASSUME Windows(Take \div Wanted) # 0 PROVE Wanted * BlockSize <= Take
    <3> DEFINE q == Take \div Wanted
    <3>1. BlockSize = Windows(q)
      BY <1>7, <2>4 DEF BlockSize
    <3>2. q \in Nat /\ BlockSize <= q /\ q * Wanted <= Take
      BY <1>4, <3>1
    <3> HIDE DEF q
    <3>3. BlockSize * Wanted <= q * Wanted
      BY <1>2, <2>1, <3>2, TimesMonotone
    <3>4. QED
      BY <1>1, <1>2, <2>1, <3>2, <3>3
  <2>5. QED
    BY <1>1, <1>2, <2>1, <2>2, <2>3, <2>4
<1>8. QED
  BY <1>6, <1>7

\* A block starts in its own segment; if the segment is long enough it ends there.
LEMMA StartFacts ==
  ASSUME Typed, total > 0, NEW b \in 1..BlockCount, NEW s \in Starts(b)
  PROVE  /\ s \in Nat /\ (b - 1) * SegmentLen \in Nat /\ b * SegmentLen \in Nat
         /\ (b - 1) * SegmentLen <= s
         /\ b < BlockCount => s < b * SegmentLen
         /\ Roomy => s + BlockSize <= total
         /\ Roomy /\ b < BlockCount => s + BlockSize <= b * SegmentLen
<1> DEFINE from == (b - 1) * SegmentLen
           to == b * SegmentLen
           end == IF b = BlockCount THEN total ELSE to
<1>1. /\ BlockSize \in Nat \ {0} /\ BlockCount \in Nat \ {0} /\ SegmentLen \in Nat \ {0}
      /\ SegmentLen * BlockCount <= total /\ total \in Nat
  BY PlanNumbers DEF Typed
<1>2. from \in Nat /\ to \in Nat /\ to = from + SegmentLen
  BY <1>1
<1>3. to <= total
  <2>1. b * SegmentLen <= BlockCount * SegmentLen /\ BlockCount * SegmentLen = SegmentLen * BlockCount
        /\ SegmentLen * BlockCount \in Nat
    BY <1>1, TimesMonotone
  <2>2. QED
    BY <1>1, <1>2, <2>1
<1>4. Starts(b) = IF end - BlockSize > from THEN from..(end - BlockSize) ELSE {from}
  BY <1>2 DEF Starts, SegmentStart, SegmentEnd
<1>5. s \in IF end - BlockSize > from THEN from..(end - BlockSize) ELSE {from}
  BY <1>4
<1>6. end \in Nat /\ end >= to /\ end <= total /\ (b < BlockCount => end = to)
  BY <1>1, <1>2, <1>3
<1> HIDE DEF from, to, end
<1>7. s \in Nat /\ from <= s /\ (b < BlockCount => s < to)
  BY <1>1, <1>2, <1>5, <1>6
<1>8. Roomy => s + BlockSize <= end
  BY <1>1, <1>2, <1>5, <1>6 DEF Roomy
<1>9. (Roomy => s + BlockSize <= total) /\ (Roomy /\ b < BlockCount => s + BlockSize <= to)
  BY <1>1, <1>6, <1>7, <1>8
<1>10. QED
  BY <1>2, <1>7, <1>9 DEF from, to

\* The blocks are in the order of their numbers, and do not overlap where the
\* segments are long enough.
LEMMA BlocksInOrder ==
  ASSUME Typed, Planning, pass \in {"copy", "done"}, total > 0
  PROVE  /\ DOMAIN blocks = 1..Len(blocks) /\ Len(blocks) = BlockCount /\ Len(blocks) \in Nat \ {0}
         /\ \A b \in DOMAIN blocks :
              /\ blocks[b].start \in Nat /\ blocks[b].end \in Nat /\ blocks[b].start < blocks[b].end
              /\ Roomy => blocks[b].end <= total
         /\ \A a, b \in DOMAIN blocks : a < b =>
              /\ blocks[a].start < blocks[b].start /\ blocks[a].end < blocks[b].end
              /\ Roomy => blocks[a].end <= blocks[b].start
<1>1. DOMAIN blocks = 1..Len(blocks) /\ Len(blocks) = BlockCount
  BY DEF Planning, Typed
<1>2. BlockSize \in Nat \ {0} /\ BlockCount \in Nat \ {0} /\ SegmentLen \in Nat \ {0}
  BY PlanNumbers
<1>3. ASSUME NEW b \in DOMAIN blocks
      PROVE  /\ blocks[b].start \in Starts(b) /\ blocks[b].end = blocks[b].start + BlockSize
             /\ b \in 1..BlockCount
  BY <1>1 DEF Planning
<1>4. ASSUME NEW b \in DOMAIN blocks
      PROVE  /\ blocks[b].start \in Nat /\ blocks[b].end \in Nat /\ blocks[b].start < blocks[b].end
             /\ Roomy => blocks[b].end <= total
  BY <1>2, <1>3, StartFacts
<1>5. ASSUME NEW a \in DOMAIN blocks, NEW b \in DOMAIN blocks, a < b
      PROVE  /\ blocks[a].start < blocks[b].start /\ blocks[a].end < blocks[b].end
             /\ Roomy => blocks[a].end <= blocks[b].start
  <2> DEFINE cut == a * SegmentLen
             from == (b - 1) * SegmentLen
  <2>1. a \in Nat /\ b - 1 \in Nat /\ a <= b - 1 /\ a < BlockCount
    BY <1>1, <1>2, <1>5
  <2>2. cut <= from /\ cut \in Nat /\ from \in Nat
    BY <1>2, <2>1, TimesMonotone
  <2>3. blocks[a].start < cut /\ (Roomy => blocks[a].start + BlockSize <= cut)
    BY <1>3, <2>1, StartFacts
  <2>4. from <= blocks[b].start
    BY <1>3, StartFacts
  <2> HIDE DEF cut, from
  <2>5. QED
    BY <1>2, <1>3, <1>4, <2>2, <2>3, <2>4
<1>6. QED
  BY <1>1, <1>2, <1>4, <1>5
------------------------------------------------------------------------------
(* The invariant, step by step.                                            *)

\* What the first pass counted, and the arguments, decide the plan.
LEMMA PlanStable ==
  ASSUME UNCHANGED <<arguments, total>>
  PROVE  /\ BlockCount' = BlockCount /\ BlockSize' = BlockSize /\ Limit' = Limit
         /\ \A n : IpIn(n)' = IpIn(n)
         /\ \A b : Starts(b)' = Starts(b)
<1>1. source' = source /\ target' = target /\ numBlocks' = numBlocks /\ total' = total
  BY DEF arguments
<1>2. Take' = Take /\ Limit' = Limit /\ \A n : IpIn(n)' = IpIn(n)
  BY <1>1 DEF Take, Limit, IpIn, Smaller
<1>3. Wanted' = Wanted
  BY <1>1, <1>2 DEF Wanted, AtLeastOne, Smaller
<1>4. TooBig' = TooBig
  BY <1>2, <1>3 DEF TooBig, Windows
<1>5. BlockSize' = BlockSize
  BY <1>2, <1>3, <1>4 DEF BlockSize, Windows
<1>6. BlockCount' = BlockCount
  BY <1>2, <1>3, <1>4, <1>5 DEF BlockCount, AtLeastOne
<1>7. SegmentLen' = SegmentLen
  BY <1>1, <1>6 DEF SegmentLen
<1>8. \A b : SegmentStart(b)' = SegmentStart(b) /\ SegmentEnd(b)' = SegmentEnd(b)
  BY <1>1, <1>6, <1>7 DEF SegmentStart, SegmentEnd
<1>9. \A b : Starts(b)' = Starts(b)
  BY <1>5, <1>8 DEF Starts
<1>10. QED
  BY <1>2, <1>5, <1>6, <1>9

\* It holds before the first packet is read.
LEMMA InitSamplerInv == SamplerInit => SamplerInv
<1> SUFFICES ASSUME SamplerInit PROVE SamplerInv
  OBVIOUS
<1>1. source \in Seq(BOOLEAN) /\ Len(source) \in Nat
  BY DEF SamplerInit
<1>2. IpIn(0) = {}
  BY DEF IpIn
<1>3. Typed
  BY <1>1 DEF SamplerInit, Typed, Limit, Smaller
<1>4. Counted
  BY <1>2, FS_EmptySet DEF SamplerInit, Counted
<1>5. QED
  BY <1>3, <1>4 DEF SamplerInit, SamplerInv, Planning, Copying

\* The first pass.
LEMMA CountSamplerInv ==
  ASSUME SamplerInv, CountPacket \/ EndCount
  PROVE  SamplerInv'
<1>1. Typed /\ Counted /\ pass = "count" /\ blocks = <<>> /\ written = <<>> /\ seen = 0 /\ block = 1
  BY DEF SamplerInv, Counted, CountPacket, EndCount
<1>2. Limit \in Nat /\ Limit <= Len(source) /\ Len(source) \in Nat /\ (AtEnd <=> i = Limit)
  BY <1>1, LimitFacts
<1>3. source' = source /\ Limit' = Limit /\ \A n : IpIn(n)' = IpIn(n)
  BY DEF CountPacket, EndCount, arguments, Limit, Smaller, IpIn
<1>4. blocks' = <<>> /\ written' = <<>> /\ seen' = 0 /\ block' = 1
  BY <1>1 DEF CountPacket, EndCount
<1>5. Copying'
  BY <1>4 DEF Copying, IsPlanned
<1>6. CASE CountPacket
  <2>1. i \in Nat /\ i < Limit /\ i < Len(source) /\ i <= Len(source)
    BY <1>1, <1>2, <1>6 DEF CountPacket, Typed
  <2>2. total = Cardinality(IpIn(i)) /\ source \in Seq(BOOLEAN)
    BY <1>1 DEF Counted, Typed
  <2>3. Cardinality(IpIn(i + 1)) = Cardinality(IpIn(i)) + (IF source[i + 1] THEN 1 ELSE 0)
        /\ Cardinality(IpIn(i)) \in Nat
    BY <2>1, <2>2, CountFacts
  <2>4. total' = Cardinality(IpIn(i + 1)) /\ i' = i + 1 /\ total' \in Nat /\ pass' = "count"
    BY <1>1, <1>6, <2>2, <2>3 DEF CountPacket, IsIp
  <2>5. Typed'
    BY <1>1, <1>2, <1>3, <1>4, <1>6, <2>1, <2>4 DEF Typed, CountPacket, arguments
  <2>6. Counted'
    BY <1>3, <1>4, <2>4 DEF Counted
  <2>7. Planning'
    BY <2>4 DEF Planning
  <2>8. QED
    BY <1>5, <2>5, <2>6, <2>7 DEF SamplerInv
<1>7. CASE EndCount
  <2>1. i = Limit /\ total = Cardinality(IpIn(Limit))
    BY <1>1, <1>2, <1>7 DEF EndCount, Counted
  <2>2. UNCHANGED <<arguments, i, total>> /\ pass' = IF total = 0 THEN "done" ELSE "plan"
    BY <1>7 DEF EndCount
  <2>3. Typed'
    BY <1>1, <1>3, <1>4, <2>2 DEF Typed, arguments
  <2>4. Counted'
    BY <1>1, <1>3, <1>4, <2>1, <2>2 DEF Counted, Typed
  <2>5. Planning'
    BY <1>1, <2>2 DEF Planning, Typed
  <2>6. QED
    BY <1>5, <2>3, <2>4, <2>5 DEF SamplerInv
<1>8. QED
  BY <1>6, <1>7

\* The plan.
LEMMA PlanSamplerInv ==
  ASSUME SamplerInv, pass = "plan", NEW start \in StartChoices, PlanBlocks(start)
  PROVE  SamplerInv'
<1>1. /\ Typed /\ Counted /\ total > 0 /\ written = <<>> /\ seen = 0 /\ block = 1
      /\ total = Cardinality(IpIn(Limit)) /\ total \in Nat
  BY DEF SamplerInv, Counted, Typed
<1>2. /\ blocks' = [b \in 1..BlockCount |-> [start |-> start[b], end |-> start[b] + BlockSize]]
      /\ pass' = "copy" /\ i' = 0
      /\ UNCHANGED <<arguments, total, seen, block, written>>
  BY DEF PlanBlocks
<1>3. BlockSize \in Nat \ {0} /\ BlockCount \in Nat \ {0}
  BY <1>1, PlanNumbers
<1>4. \A b \in 1..BlockCount : start[b] \in Nat /\ start[b] \in Starts(b)
  BY <1>1 DEF StartChoices
<1>5. /\ BlockCount' = BlockCount /\ BlockSize' = BlockSize /\ Limit' = Limit
      /\ (\A n : IpIn(n)' = IpIn(n)) /\ \A b : Starts(b)' = Starts(b)
  BY <1>2, PlanStable
<1>6. blocks' \in Seq(BlockType) /\ Len(blocks') = BlockCount /\ DOMAIN blocks' = 1..BlockCount
  <2>1. \A b \in 1..BlockCount : [start |-> start[b], end |-> start[b] + BlockSize] \in BlockType
    BY <1>3, <1>4 DEF BlockType
  <2>2. blocks' \in [1..BlockCount -> BlockType]
    BY <1>2, <2>1
  <2>3. QED
    BY <1>3, <2>2
<1>7. Typed'
  BY <1>1, <1>2, <1>3, <1>5, <1>6, LimitFacts DEF Typed, arguments
<1>8. Counted'
  <2>1. IpIn(0) = {}
    BY DEF IpIn
  <2>2. QED
    BY <1>1, <1>2, <1>5, <2>1, FS_EmptySet DEF Counted
<1>9. Planning'
  BY <1>2, <1>4, <1>5, <1>6 DEF Planning
<1>10. Copying'
  <2>1. blocks'[1].end \in Nat
    <3>1. blocks'[1] \in BlockType
      BY <1>3, <1>6
    <3>2. QED
      BY <3>1 DEF BlockType
  <2>2. written' = <<>> /\ seen' = 0 /\ block' = 1
    BY <1>1, <1>2
  <2>3. QED
    BY <2>1, <2>2 DEF Copying
<1>11. QED
  BY <1>7, <1>8, <1>9, <1>10 DEF SamplerInv

\* While packets are copied the plan stays, and the count is behind the first one.
LEMMA CopyingFacts ==
  ASSUME SamplerInv, pass = "copy"
  PROVE  /\ Typed /\ Planning /\ Copying /\ total > 0 /\ total \in Nat
         /\ i \in Nat /\ i <= Limit /\ Limit \in Nat /\ Limit <= Len(source) /\ Len(source) \in Nat
         /\ source \in Seq(BOOLEAN) /\ (AtEnd <=> i = Limit)
         /\ seen = Cardinality(IpIn(i)) /\ total = Cardinality(IpIn(Limit)) /\ seen \in Nat
         /\ seen <= total
<1>1. Typed /\ Planning /\ Copying /\ Counted
  BY DEF SamplerInv
<1>2. /\ total > 0 /\ total \in Nat /\ i \in Nat /\ i <= Limit /\ source \in Seq(BOOLEAN)
      /\ seen = Cardinality(IpIn(i)) /\ total = Cardinality(IpIn(Limit)) /\ seen \in Nat
  BY <1>1 DEF Typed, Counted
<1>3. Limit \in Nat /\ Limit <= Len(source) /\ Len(source) \in Nat /\ (AtEnd <=> i = Limit)
  BY <1>1, LimitFacts
<1>4. seen <= total
  BY <1>2, <1>3, CountFacts
<1>5. QED
  BY <1>1, <1>2, <1>3, <1>4

\* A packet of the second pass that is not the last one, as far as the counts go.
LEMMA ReadKeepsCounts ==
  ASSUME SamplerInv, pass = "copy", ~ AtEnd, pass' = "copy", i' = i + 1,
         UNCHANGED <<arguments, total, blocks>>,
         seen' = seen + (IF IsIp THEN 1 ELSE 0),
         block' \in 1..(Len(blocks) + 1), written' \in Seq([ip : Nat, block : Nat \ {0}])
  PROVE  Typed' /\ Counted' /\ Planning'
<1>1. /\ Typed /\ Planning /\ total > 0 /\ total \in Nat
      /\ i \in Nat /\ i < Limit /\ Limit \in Nat /\ Limit <= Len(source) /\ Len(source) \in Nat
      /\ source \in Seq(BOOLEAN)
      /\ seen = Cardinality(IpIn(i)) /\ total = Cardinality(IpIn(Limit)) /\ seen \in Nat
  BY CopyingFacts
<1>2. /\ BlockCount' = BlockCount /\ BlockSize' = BlockSize /\ Limit' = Limit
      /\ (\A n : IpIn(n)' = IpIn(n)) /\ \A b : Starts(b)' = Starts(b)
  BY PlanStable
<1>3. seen' = Cardinality(IpIn(i + 1)) /\ seen' \in Nat
  <2>1. /\ Cardinality(IpIn(i + 1)) = Cardinality(IpIn(i)) + (IF source[i + 1] THEN 1 ELSE 0)
        /\ Cardinality(IpIn(i)) \in Nat
    <3>1. i <= Len(source) /\ i < Len(source)
      BY <1>1
    <3>2. QED
      BY <1>1, <3>1, CountFacts
  <2>2. QED
    BY <1>1, <2>1 DEF IsIp
<1>4. Typed'
  BY <1>1, <1>2, <1>3 DEF Typed, arguments
<1>5. Counted'
  BY <1>1, <1>2, <1>3 DEF Counted
<1>6. Planning'
  BY <1>1, <1>2 DEF Planning
<1>7. QED
  BY <1>4, <1>5, <1>6

\* A packet that is not IPv4.
LEMMA SkipSamplerInv ==
  ASSUME SamplerInv, SkipPacket
  PROVE  SamplerInv'
<1>1. Typed /\ Copying /\ pass = "copy" /\ seen \in Nat
  BY CopyingFacts DEF SkipPacket
<1>2. Typed' /\ Counted' /\ Planning'
  BY <1>1, ReadKeepsCounts DEF SkipPacket, Typed
<1>3. Copying'
  BY <1>1 DEF SkipPacket, Copying, IsPlanned, IsCopied, EndsABlock
<1>4. QED
  BY <1>2, <1>3 DEF SamplerInv

\* A packet of the current block is copied.
LEMMA CopySamplerInv ==
  ASSUME SamplerInv, CopyPacket
  PROVE  SamplerInv'
<1> DEFINE packet == [ip |-> seen, block |-> block]
<1>1. Typed /\ Copying /\ Planning /\ pass = "copy" /\ seen \in Nat /\ total > 0
  BY CopyingFacts DEF CopyPacket
<1>2. /\ written \in Seq([ip : Nat, block : Nat \ {0}]) /\ block \in 1..Len(blocks)
      /\ DOMAIN blocks = 1..Len(blocks) /\ Len(blocks) \in Nat
      /\ \A b \in DOMAIN blocks : blocks[b].start \in Nat /\ blocks[b].end \in Nat
  BY <1>1, BlocksInOrder DEF Typed, CopyPacket
<1>3. /\ written' = Append(written, packet) /\ seen' = seen + 1
      /\ blocks[block].start <= seen /\ seen < blocks[block].end
      /\ UNCHANGED <<blocks, block>>
  BY DEF CopyPacket, Inside
<1>4. packet \in [ip : Nat, block : Nat \ {0}]
  BY <1>1, <1>2
<1>5. /\ written' \in Seq([ip : Nat, block : Nat \ {0}])
      /\ Len(written') = Len(written) + 1 /\ written'[Len(written) + 1] = packet
      /\ Len(written) \in Nat /\ DOMAIN written = 1..Len(written) /\ DOMAIN written' = 1..(Len(written) + 1)
      /\ \A k \in 1..Len(written) : written'[k] = written[k]
  BY <1>2, <1>3, <1>4
<1>6. Typed' /\ Counted' /\ Planning'
  BY <1>1, <1>2, <1>3, <1>5, ReadKeepsCounts DEF CopyPacket
<1>7. Copying'
  <2>1. (\A b \in 1..(block - 1) : blocks[b].end < seen) /\ seen <= blocks[block].end
    BY <1>1, <1>2 DEF Copying
  <2>2. \A b \in 1..(block - 1) : blocks[b].end < seen + 1
    BY <1>1, <1>2, <2>1
  <2>3. ASSUME NEW k \in DOMAIN written'
        PROVE  /\ written'[k].block \in DOMAIN blocks /\ written'[k].ip < seen + 1
               /\ blocks[written'[k].block].start <= written'[k].ip
               /\ written'[k].ip < blocks[written'[k].block].end
    <3>1. CASE k = Len(written) + 1
      BY <1>1, <1>2, <1>3, <1>5, <3>1
    <3>2. CASE k \in DOMAIN written
      <4>1. /\ written[k].block \in DOMAIN blocks /\ written[k].ip < seen /\ written[k].ip \in Nat
            /\ blocks[written[k].block].start <= written[k].ip
            /\ written[k].ip < blocks[written[k].block].end
        <5>1. written[k] \in [ip : Nat, block : Nat \ {0}] /\ written[k].ip \in Nat
          BY <1>2, <3>2, WrittenType
        <5>2. QED
          BY <1>1, <3>2, <5>1 DEF Copying
      <4>2. QED
        BY <1>1, <1>5, <3>2, <4>1
    <3>3. QED
      BY <1>5, <2>3, <3>1, <3>2
  <2>4. ASSUME NEW k \in 2..Len(written') PROVE written'[k - 1].ip < written'[k].ip
    <3>1. CASE k = Len(written) + 1
      <4>1. written[k - 1].ip < seen
        <5>1. k - 1 \in DOMAIN written
          BY <1>5, <2>4, <3>1
        <5>2. QED
          BY <1>1, <5>1 DEF Copying
      <4>2. QED
        BY <1>5, <2>4, <3>1, <4>1
    <3>2. CASE k # Len(written) + 1
      <4>1. k \in 2..Len(written) /\ k - 1 \in 1..Len(written) /\ k \in 1..Len(written)
        BY <1>5, <2>4, <3>2, SMTT(30)
      <4>2. written[k - 1].ip < written[k].ip
        BY <1>1, <4>1 DEF Copying
      <4>3. QED
        BY <1>5, <4>1, <4>2
    <3>3. QED
      BY <3>1, <3>2
  <2>5. ASSUME NEW p \in Nat, p < seen + 1, IsPlanned(p)
        PROVE  IsCopied(p)' \/ EndsABlock(p)
    <3>1. CASE p < seen
      <4>1. IsCopied(p) \/ EndsABlock(p)
        BY <1>1, <2>5, <3>1 DEF Copying
      <4>2. IsCopied(p) => IsCopied(p)'
        BY <1>5 DEF IsCopied
      <4>3. QED
        BY <4>1, <4>2
    <3>2. CASE p = seen
      BY <1>5, <3>2 DEF IsCopied
    <3>3. QED
      BY <1>1, <2>5, <3>1, <3>2
  <2>6. (\A p : IsPlanned(p)' = IsPlanned(p)) /\ (\A p : EndsABlock(p)' = EndsABlock(p))
    BY <1>3 DEF IsPlanned, EndsABlock
  <2>7. block <= Len(blocks) => seen + 1 <= blocks[block].end
    BY <1>1, <1>2, <1>3
  <2>8. QED
    BY <1>3, <2>2, <2>3, <2>4, <2>5, <2>6, <2>7 DEF Copying
<1>8. QED
  BY <1>6, <1>7 DEF SamplerInv

\* A packet that is in no block, or right behind the current one, is left.
LEMMA LeaveSamplerInv ==
  ASSUME SamplerInv, LeavePacket
  PROVE  SamplerInv'
<1>1. Typed /\ Copying /\ Planning /\ pass = "copy" /\ seen \in Nat /\ total > 0
  BY CopyingFacts DEF LeavePacket
<1>2. /\ block \in 1..Len(blocks) /\ DOMAIN blocks = 1..Len(blocks) /\ Len(blocks) \in Nat
      /\ \A b \in DOMAIN blocks :
           blocks[b].start \in Nat /\ blocks[b].end \in Nat /\ blocks[b].start < blocks[b].end
      /\ \A a, b \in DOMAIN blocks : a < b =>
           blocks[a].start < blocks[b].start /\ blocks[a].end < blocks[b].end
  BY <1>1, BlocksInOrder, SMTT(30) DEF Typed, LeavePacket
<1>3. /\ seen' = seen + 1 /\ UNCHANGED <<blocks, written>>
      /\ ~ (blocks[block].start <= seen /\ seen < blocks[block].end)
      /\ block' = IF seen >= blocks[block].end THEN block + 1 ELSE block
  BY DEF LeavePacket, Inside
<1>4. Typed' /\ Counted' /\ Planning'
  <2>1. block' \in 1..(Len(blocks) + 1)
    BY <1>2, <1>3
  <2>2. QED
    BY <1>1, <2>1, ReadKeepsCounts DEF LeavePacket, Typed
<1>5. /\ \A b \in 1..(block - 1) : blocks[b].end < seen
      /\ seen <= blocks[block].end
  BY <1>1, <1>2 DEF Copying
<1>6. (\A b \in 1..(block' - 1) : blocks[b].end < seen + 1)
      /\ (block' <= Len(blocks) => seen + 1 <= blocks[block'].end)
  <2>1. CASE seen >= blocks[block].end
    <3>1. seen = blocks[block].end /\ block' = block + 1
      BY <1>1, <1>2, <1>3, <1>5, <2>1
    <3>2. ASSUME NEW b \in 1..(block' - 1) PROVE blocks[b].end < seen + 1
      BY <1>1, <1>2, <1>5, <3>1
    <3>3. ASSUME block' <= Len(blocks) PROVE seen + 1 <= blocks[block'].end
      <4>1. block' \in DOMAIN blocks /\ block < block' /\ block \in DOMAIN blocks
        BY <1>2, <3>1, <3>3
      <4>2. blocks[block].end < blocks[block'].end /\ blocks[block'].end \in Nat
        BY <1>2, <4>1
      <4>3. QED
        BY <1>1, <3>1, <4>2
    <3>4. QED
      BY <3>2, <3>3
  <2>2. CASE ~ (seen >= blocks[block].end)
    BY <1>1, <1>2, <1>3, <1>5, <2>2
  <2>3. QED
    BY <2>1, <2>2
<1>7. IsPlanned(seen) => EndsABlock(seen)
  <2>1. SUFFICES ASSUME NEW b \in DOMAIN blocks, blocks[b].start <= seen, seen < blocks[b].end
                 PROVE  EndsABlock(seen)
    BY DEF IsPlanned
  <2>2. ~ (b < block)
    BY <1>1, <1>2, <1>5, <2>1
  <2>3. b # block
    BY <1>3, <2>1
  <2>4. block < b
    BY <1>2, <2>2, <2>3
  <2>5. blocks[block].start < blocks[b].start
    BY <1>2, <2>4
  <2>6. blocks[block].start <= seen
    BY <1>1, <1>2, <2>1, <2>5
  <2>7. seen = blocks[block].end
    BY <1>1, <1>2, <1>3, <1>5, <2>6
  <2>8. block \in 1..(Len(blocks) - 1)
    BY <1>2, <2>4
  <2>9. QED
    BY <2>7, <2>8 DEF EndsABlock
<1>8. ASSUME NEW p \in Nat, p < seen + 1, IsPlanned(p)
      PROVE  IsCopied(p) \/ EndsABlock(p)
  <2>1. CASE p < seen
    BY <1>1, <1>8, <2>1 DEF Copying
  <2>2. CASE p = seen
    BY <1>7, <1>8, <2>2
  <2>3. QED
    BY <1>1, <1>8, <2>1, <2>2
<1>9. ASSUME NEW k \in DOMAIN written
      PROVE  /\ written[k].block \in DOMAIN blocks /\ written[k].ip < seen + 1
             /\ blocks[written[k].block].start <= written[k].ip
             /\ written[k].ip < blocks[written[k].block].end
  <2>1. written[k] \in [ip : Nat, block : Nat \ {0}] /\ written[k].ip \in Nat
    <3>1. written \in Seq([ip : Nat, block : Nat \ {0}])
      BY <1>1 DEF Typed
    <3>2. QED
      BY <1>9, <3>1, WrittenType
  <2>2. QED
    BY <1>1, <2>1 DEF Copying
<1>10. \A k \in 2..Len(written) : written[k - 1].ip < written[k].ip
  BY <1>1 DEF Copying
<1>11. Copying'
  <2>1. \A p : /\ IsPlanned(p)' = IsPlanned(p) /\ EndsABlock(p)' = EndsABlock(p)
               /\ IsCopied(p)' = IsCopied(p)
    BY <1>3 DEF IsPlanned, EndsABlock, IsCopied
  <2>2. QED
    BY <1>3, <1>6, <1>8, <1>9, <1>10, <2>1 DEF Copying
<1>12. QED
  BY <1>4, <1>11 DEF SamplerInv

\* The end of the second pass.
LEMMA EndCopySamplerInv ==
  ASSUME SamplerInv, EndCopy
  PROVE  SamplerInv'
<1>1. /\ Typed /\ Copying /\ Planning /\ pass = "copy" /\ seen \in Nat /\ total > 0 /\ seen <= total
      /\ (AtEnd <=> i = Limit) /\ seen = Cardinality(IpIn(i)) /\ total = Cardinality(IpIn(Limit))
  BY CopyingFacts DEF EndCopy
<1>2. pass' = "done" /\ UNCHANGED <<arguments, i, total, blocks, seen, block, written>>
      /\ (AtEnd \/ block > Len(blocks))
  BY DEF EndCopy
<1>3. /\ BlockCount' = BlockCount /\ BlockSize' = BlockSize /\ Limit' = Limit
      /\ (\A n : IpIn(n)' = IpIn(n)) /\ \A b : Starts(b)' = Starts(b)
  BY <1>2, PlanStable
<1>4. Typed'
  BY <1>1, <1>2, <1>3 DEF Typed, arguments
<1>5. Counted'
  BY <1>1, <1>2, <1>3 DEF Counted
<1>6. Planning'
  BY <1>1, <1>2, <1>3 DEF Planning
<1>7. Copying'
  BY <1>1, <1>2 DEF Copying, IsPlanned, IsCopied, EndsABlock
<1>8. QED
  BY <1>4, <1>5, <1>6, <1>7 DEF SamplerInv

\* It is an invariant.
LEMMA SpecSamplerInv == SamplerSpec => []SamplerInv
<1>1. ASSUME SamplerInv, [SamplerNext]_samplerVars PROVE SamplerInv'
  <2>1. CASE CountPacket \/ EndCount
    BY <1>1, <2>1, CountSamplerInv
  <2>2. CASE pass = "plan" /\ \E start \in StartChoices : PlanBlocks(start)
    BY <1>1, <2>2, PlanSamplerInv
  <2>3. CASE SkipPacket
    BY <1>1, <2>3, SkipSamplerInv
  <2>4. CASE CopyPacket
    BY <1>1, <2>4, CopySamplerInv
  <2>5. CASE LeavePacket
    BY <1>1, <2>5, LeaveSamplerInv
  <2>6. CASE EndCopy
    BY <1>1, <2>6, EndCopySamplerInv
  <2>7. CASE UNCHANGED samplerVars
    <3>1. UNCHANGED <<arguments, total>> /\ UNCHANGED <<pass, i, blocks, seen, block, written>>
      BY <2>7 DEF samplerVars, arguments
    <3>2. /\ BlockCount' = BlockCount /\ BlockSize' = BlockSize /\ Limit' = Limit
          /\ (\A n : IpIn(n)' = IpIn(n)) /\ \A b : Starts(b)' = Starts(b)
      BY <3>1, PlanStable
    <3>3. Typed' /\ Counted'
      BY <1>1, <3>1, <3>2 DEF SamplerInv, Typed, Counted, arguments
    <3>4. Planning'
      BY <1>1, <3>1, <3>2 DEF SamplerInv, Planning
    <3>5. Copying'
      BY <1>1, <3>1 DEF SamplerInv, Copying, IsPlanned, IsCopied, EndsABlock
    <3>6. QED
      BY <3>3, <3>4, <3>5 DEF SamplerInv
  <2>8. QED
    BY <1>1, <2>1, <2>2, <2>3, <2>4, <2>5, <2>6, <2>7 DEF SamplerNext
<1>2. QED
  BY <1>1, InitSamplerInv, PTL DEF SamplerSpec
------------------------------------------------------------------------------
(* The theorems.                                                           *)

\* The counts of both passes and the sample stay in their types.
THEOREM SamplerTypeCorrect == SamplerSpec => []SamplerTypeOK
<1>1. ASSUME SamplerInv PROVE SamplerTypeOK
  <2>1. Typed /\ Counted /\ Limit \in Nat /\ Limit <= Len(source) /\ Len(source) \in Nat
    BY <1>1, LimitFacts DEF SamplerInv
  <2>2. /\ source \in Seq(BOOLEAN) /\ i \in Nat /\ i <= Limit /\ i <= Len(source)
        /\ total \in Nat /\ seen \in Nat
    BY <2>1 DEF Typed
  <2>3. total <= Len(source)
    <3>1. Cardinality(IpIn(i)) <= i /\ Cardinality(IpIn(Limit)) <= Limit
          /\ Cardinality(IpIn(i)) \in Nat /\ Cardinality(IpIn(Limit)) \in Nat
      BY <2>1, <2>2, CountFacts
    <3>2. total = Cardinality(IpIn(i)) \/ total = Cardinality(IpIn(Limit))
      BY <2>1 DEF Counted
    <3>3. QED
      BY <2>1, <2>2, <3>1, <3>2
  <2>4. seen <= total
    <3>1. CASE pass = "copy"
      BY <1>1, <3>1, CopyingFacts
    <3>2. CASE pass # "copy"
      BY <2>1, <2>2, <3>2 DEF Counted, Typed
    <3>3. QED
      BY <3>1, <3>2
  <2>5. QED
    BY <2>1, <2>2, <2>3, <2>4 DEF SamplerTypeOK, Typed
<1>2. QED
  BY <1>1, SpecSamplerInv, PTL

\* For every capture, every request whose blocks fit their segments and every
\* draw: no packet is planned twice, none behind the end of the file, and no more
\* than are asked for, or one window for each block asked for.
THEOREM PlanAlwaysFits == SamplerSpec => []PlanFits
<1>1. ASSUME SamplerInv PROVE PlanFits
  <2>1. SUFFICES ASSUME pass \in {"copy", "done"}, total > 0, Roomy
                 PROVE  /\ \A b \in DOMAIN blocks : blocks[b].end <= total
                        /\ \A b \in 2..Len(blocks) : blocks[b - 1].end <= blocks[b].start
                        /\ \/ Len(blocks) * BlockSize <= Take
                           \/ Len(blocks) = Wanted /\ BlockSize = WindowSize
    BY DEF PlanFits
  <2>2. Typed /\ Planning
    BY <1>1 DEF SamplerInv
  <2>3. /\ DOMAIN blocks = 1..Len(blocks) /\ Len(blocks) = BlockCount /\ Len(blocks) \in Nat
        /\ \A b \in DOMAIN blocks : blocks[b].end <= total
        /\ \A a, b \in DOMAIN blocks : a < b => blocks[a].end <= blocks[b].start
    BY <2>1, <2>2, BlocksInOrder
  <2>4. ASSUME NEW b \in 2..Len(blocks) PROVE blocks[b - 1].end <= blocks[b].start
    <3>1. b - 1 \in DOMAIN blocks /\ b \in DOMAIN blocks /\ b - 1 < b
      BY <2>3, <2>4
    <3>2. QED
      BY <2>3, <3>1
  <2>5. BlockCount * BlockSize <= Take \/ (BlockCount = Wanted /\ BlockSize = WindowSize)
    BY <2>1, <2>2, PlanNumbers
  <2>6. QED
    BY <2>3, <2>4, <2>5
<1>2. QED
  BY <1>1, SpecSamplerInv, PTL

\* For every capture, every request and every draw: the sample is in the order of
\* the source, without repetition, and under the right blocks.
THEOREM SampleInOrder == SamplerSpec => []SampleIsInOrder
<1>1. ASSUME SamplerInv PROVE SampleIsInOrder
  BY <1>1 DEF SamplerInv, Copying, SampleIsInOrder
<1>2. QED
  BY <1>1, SpecSamplerInv, PTL

\* For every capture, every request and every draw: of the packets in the blocks
\* only those right behind a block are lost.
THEOREM LossIsAtBoundaries == SamplerSpec => []BoundaryLoss
<1>1. ASSUME SamplerInv PROVE BoundaryLoss
  <2>1. SUFFICES ASSUME pass = "done", NEW p \in Planned, p \notin Copied
                 PROVE  p \in {blocks[b].end : b \in 1..(Len(blocks) - 1)}
    BY DEF BoundaryLoss
  <2>2. /\ Typed /\ Counted /\ Planning /\ Copying /\ total \in Nat /\ seen \in Nat
    BY <1>1 DEF SamplerInv, Typed
  <2>3. p \in Nat /\ p < total /\ IsPlanned(p) /\ ~ IsCopied(p)
    BY <2>1, <2>2 DEF Planned, Copied, IsPlanned, IsCopied
  <2>4. total > 0 /\ (seen = total \/ block > Len(blocks))
    BY <2>1, <2>2, <2>3 DEF Counted
  <2>5. p < seen
    <3>1. CASE seen = total
      BY <2>3, <3>1
    <3>2. CASE block > Len(blocks)
      <4>1. PICK b \in DOMAIN blocks : blocks[b].start <= p /\ p < blocks[b].end
        BY <2>3 DEF IsPlanned
      <4>2. blocks[b].end \in Nat /\ b \in 1..Len(blocks) /\ Len(blocks) \in Nat
        BY <2>1, <2>2, <2>4, BlocksInOrder
      <4>3. block \in Nat /\ b \in 1..(block - 1)
        BY <2>2, <3>2, <4>2 DEF Typed
      <4>4. blocks[b].end < seen
        BY <2>2, <4>3 DEF Copying
      <4>5. QED
        BY <2>2, <2>3, <4>1, <4>2, <4>4
    <3>3. QED
      BY <2>4, <3>1, <3>2
  <2>6. EndsABlock(p)
    BY <2>2, <2>3, <2>5 DEF Copying
  <2>7. QED
    BY <2>6 DEF EndsABlock
<1>2. QED
  BY <1>1, SpecSamplerInv, PTL
==============================================================================
