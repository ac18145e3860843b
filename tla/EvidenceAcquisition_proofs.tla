---------------------- MODULE EvidenceAcquisition_proofs ----------------------
(* What TLAPS proves of EvidenceAcquisition for any labels, cooldown and      *)
(* number of windows, failures and kills: a custody entry is about a bundle   *)
(* that is there and stays as it was hashed, the logs name incidents that     *)
(* have an entry, the bundles implement the abstract store, a burst without   *)
(* evidence is explained, and every loss is paid for by a failure.            *)
EXTENDS EvidenceAcquisition, FiniteSetTheorems, TLAPS

Bundle == [files : Contents, listed : SUBSET Layers]
Entry == [incident : Nat, prev : Nat, files : Digests, label : Labels]

(* The elements of a sequence, and a sequence whose last one is replaced.     *)
LEMMA ElementOf ==
  ASSUME NEW T, NEW s \in Seq(T), NEW i \in 1..Len(s)
  PROVE  s[i] \in T
OBVIOUS

LEMMA LastReplaced ==
  ASSUME NEW T, NEW s \in Seq(T), NEW t, s # <<>> => t \in T
  PROVE  /\ [s EXCEPT ![Len(s)] = t] \in Seq(T)
         /\ s # <<>> => s[Len(s)] \in T
<1>1. CASE s = <<>>
  <2>1. [s EXCEPT ![Len(s)] = t] = s
    BY <1>1
  <2>2. QED
    BY <1>1, <2>1
<1>2. CASE s # <<>>
  BY <1>2
<1>3. QED
  BY <1>1, <1>2

(* What becomes of the bundles when a file of the last one is written.        *)
LEMMA PutFacts ==
  ASSUME bundles \in Seq(Bundle), bundles # <<>>, NEW f \in Files,
         NEW c \in {"none", "part", "whole"}, Put(f, c)
  PROVE  /\ bundles' \in Seq(Bundle) /\ Len(bundles') = Len(bundles)
         /\ \A i \in 1..Len(bundles) : i # Len(bundles) => bundles'[i] = bundles[i]
         /\ bundles'[Len(bundles)].files = [bundles[Len(bundles)].files EXCEPT ![f] = c]
         /\ bundles'[Len(bundles)].listed = bundles[Len(bundles)].listed
<1> DEFINE n == Len(bundles)
<1>1. n \in Nat /\ n \in 1..n /\ bundles[n] \in Bundle /\ DOMAIN bundles = 1..n
  OBVIOUS
<1>2. bundles' = [bundles EXCEPT ![n].files[f] = c]
  BY DEF Put, Incident
<1> HIDE DEF n
<1> DEFINE b == [bundles[n] EXCEPT !.files[f] = c]
<1>3. bundles' = [bundles EXCEPT ![n] = b]
  BY <1>2
<1>4. /\ b \in Bundle
      /\ b.files = [bundles[n].files EXCEPT ![f] = c] /\ b.listed = bundles[n].listed
  BY <1>1 DEF Bundle, Contents
<1> HIDE DEF b
<1>5. bundles' \in Seq(Bundle) /\ Len(bundles') = n
  BY <1>1, <1>3, <1>4 DEF n
<1>6. bundles'[n] = b /\ \A i \in 1..n : i # n => bundles'[i] = bundles[i]
  BY <1>1, <1>3
<1>7. QED
  BY <1>4, <1>5, <1>6 DEF n
-----------------------------------------------------------------------------
(* Types.                                                                     *)

(* Where a bundle is being made, a directory is there.                        *)
Busy == Layers \cup {"metadata", "hash", "append"}
Made == Busy \cup {"count", "timing"}

TypeInv == TypeOK /\ (pc \in Made => bundles # <<>>)

(* The next layer of a layer is a point of the acquisition.                   *)
LEMMA AfterLayerPoints ==
  ASSUME NEW layer \in Layers
  PROVE  AfterLayer[layer] \in Layers \cup {"metadata"}
BY DEF Layers, AfterLayer

(* An entry that is appended has its type, whatever the log ends with.        *)
LEMMA EntryType ==
  ASSUME TypeOK, ~ torn
  PROVE  HeadOf(Lines, torn) \in Nat
<1>1. /\ entries \in Seq(Entry)
      /\ Lines = [k \in 1..Len(entries) |-> LineOf(entries[k])]
  BY DEF TypeOK, Entry, Lines
<1>2. ASSUME NEW e \in Entry PROVE LineOf(e) \in [id : Nat, prev : Nat, sig : Nat]
  <2>1. e.incident \in Nat /\ e.prev \in Nat
    BY DEF Entry
  <2>2. QED
    BY <2>1 DEF LineOf, NoKey
<1>3. \A k \in 1..Len(entries) : LineOf(entries[k]) \in [id : Nat, prev : Nat, sig : Nat]
  BY <1>1, <1>2
<1>4. Lines \in Seq([id : Nat, prev : Nat, sig : Nat]) /\ Len(Lines) = Len(entries)
  BY <1>1, <1>3
<1>5. CASE Lines = <<>>
  BY <1>5 DEF HeadOf, Genesis
<1>6. CASE Lines # <<>>
  <2>1. Len(Lines) \in 1..Len(Lines)
    BY <1>4, <1>6
  <2>2. Lines[Len(Lines)] \in [id : Nat, prev : Nat, sig : Nat]
    BY <1>4, <2>1, ElementOf
  <2>3. QED
    BY <1>6, <2>2 DEF HeadOf
<1>7. QED
  BY <1>5, <1>6

LEMMA InitType == Init => TypeInv
<1> SUFFICES ASSUME Init PROVE TypeInv
  OBVIOUS
<1>1. LongAgo \in Int
  BY CooldownAssumption DEF LongAgo
<1>2. Blank \in Digests /\ NoWindow \in Window /\ NoIncident \in Nat
  BY LabelAssumption DEF Blank, Digests, NoWindow, Window, NoIncident
<1>3. TypeOK
  <2>1. last \in [Labels -> Int]
    BY <1>1 DEF Init
  <2>2. pc \in Points /\ now \in Nat /\ faults \in Nat /\ kills \in Nat /\ predictions \in Nat
    BY DEF Init, Points
  <2>3. hand \in Window /\ paths \in SUBSET Layers /\ hash \in Digests /\ answer \in Nat
    BY <1>2 DEF Init
  <2>4. bundles = <<>> /\ entries = <<>> /\ timing = <<>> /\ items = <<>> /\ triggers = <<>> /\ torn = FALSE
    BY DEF Init
  <2>5. QED
    BY <2>1, <2>2, <2>3, <2>4, \A T : <<>> \in Seq(T) DEF TypeOK
<1>4. pc \notin Made
  BY DEF Init, Made, Busy, Layers
<1>5. QED
  BY <1>3, <1>4 DEF TypeInv

(* The steps that leave bundles and custody log alone.                        *)
LEMMA TypeOfQuietSteps ==
  ASSUME TypeInv,
         \/ \E label \in Labels, sure, joined \in BOOLEAN : Classify(label, sure, joined)
         \/ LogPrediction \/ NoTrigger \/ Trigger \/ WriteTiming \/ WriteItems
         \/ HashBundle \/ CollectReturns \/ CountRaises
         \/ \E missed \in Unreadable : HashSkips(missed)
         \/ RowFails \/ Kill \/ Restart \/ Tick \/ UNCHANGED vars
  PROVE  TypeInv'
<1> USE DEF TypeInv, TypeOK, Points
<1>c. bundles \in Seq(Bundle) /\ triggers \in Seq([label : Labels, at : Nat, incident : Nat])
  BY DEF Bundle
<1>a. NoWindow \in Window /\ Blank \in Digests /\ NoIncident \in Nat
  BY LabelAssumption DEF NoWindow, Window, Blank, Digests, NoIncident
<1>b. bundles' = bundles
  BY DEF Classify, LogPrediction, NoTrigger, Trigger, WriteTiming, WriteItems, HashBundle,
         CollectReturns, CountRaises, HashSkips, RowFails, Kill, Restart, Tick, vars
<1>1. ASSUME NEW label \in Labels, NEW sure \in BOOLEAN, NEW joined \in BOOLEAN,
             Classify(label, sure, joined)
      PROVE  TypeInv'
  <2>1. hand' \in Window
    BY <1>1 DEF Classify, Window
  <2>2. QED
    BY <1>1, <2>1 DEF Classify, Goto, custody, logs, bounds, Made, Busy, Layers
<1>2. CASE LogPrediction
  <2>1. hand' \in Window
    BY <1>2 DEF LogPrediction, Window
  <2>2. QED
    BY <1>2, <2>1 DEF LogPrediction, Goto, custody, bounds, Made, Busy, Layers
<1>3. CASE NoTrigger
  BY <1>3 DEF NoTrigger, Goto, local, custody, logs, bounds, Made, Busy, Layers
<1>4. CASE Trigger
  <2>1. hand.label \in Labels
    BY DEF Window
  <2>2. triggers' \in Seq([label : Labels, at : Nat, incident : Nat])
    BY <1>4, <1>a, <2>1 DEF Trigger
  <2>3. last' \in [Labels -> Int]
    BY <1>4, <2>1 DEF Trigger
  <2>4. QED
    BY <1>4, <2>2, <2>3 DEF Trigger, Goto, local, custody, logs, bounds, Made, Busy, Layers
<1>5. CASE WriteTiming
  BY <1>5 DEF WriteTiming, Goto, local, custody, bounds, Made, Busy, Layers
<1>6. CASE WriteItems
  <2>1. items' \in Seq([label : Labels, sure : BOOLEAN, joined : BOOLEAN, ts : Nat, incident : Nat])
    BY <1>6 DEF WriteItems, Window
  <2>2. QED
    BY <1>6, <1>a, <2>1 DEF WriteItems, Goto, custody, bounds, Made, Busy, Layers
<1>7. CASE HashBundle
  <2>1. Len(bundles) \in 1..Len(bundles)
    BY <1>7 DEF HashBundle, Made, Busy
  <2>2. bundles[Incident].files \in Contents
    <3>1. bundles[Len(bundles)] \in Bundle
      BY <1>c, <2>1
    <3>2. QED
      BY <3>1 DEF Incident, Bundle
  <2>3. hash' \in Digests
    BY <1>7, <2>2 DEF HashBundle, Contents, Digests
  <2>4. QED
    BY <1>7, <2>3 DEF HashBundle, Goto, custody, logs, bounds, Made, Busy
<1>8. CASE CollectReturns
  <2>1. Incident \in Nat
    BY DEF Incident
  <2>2. triggers' \in Seq([label : Labels, at : Nat, incident : Nat])
    <3> DEFINE Record == [label : Labels, at : Nat, incident : Nat]
               n == Len(triggers)
               t == [triggers[n] EXCEPT !.incident = Incident]
    <3>1. triggers \in Seq(Record)
      OBVIOUS
    <3>2. triggers' = [triggers EXCEPT ![n] = t]
      BY <1>8 DEF CollectReturns
    <3>3. ASSUME triggers # <<>> PROVE t \in Record
      <4>1. triggers[n] \in Record
        <5> HIDE DEF Record
        <5>1. QED
          BY <3>1, <3>3, LastReplaced
      <4>2. QED
        BY <2>1, <4>1
    <3> HIDE DEF t, Record
    <3>4. triggers' \in Seq(Record)
      BY <3>1, <3>2, <3>3, LastReplaced
    <3>5. QED
      BY <3>4 DEF Record
  <2>3. QED
    BY <1>8, <2>1, <2>2 DEF CollectReturns, Goto, custody, logs, bounds, Made, Busy
<1>9. CASE CountRaises
  BY <1>9 DEF CountRaises, Goto, local, custody, logs, bounds, Made, Busy, Layers
<1>10. CASE RowFails
  BY <1>10, <1>a DEF RowFails, Gone, Goto, custody, logs, Made, Busy, Layers
<1>11. CASE Kill
  BY <1>11, <1>a DEF Kill, Gone, Goto, custody, logs, Made, Busy, Layers
<1>12. CASE Restart
  <2>1. last' \in [Labels -> Int]
    BY <1>12, CooldownAssumption DEF Restart, LongAgo
  <2>2. QED
    BY <1>12, <2>1 DEF Restart, Goto, local, custody, logs, bounds, Made, Busy, Layers
<1>13. CASE Tick
  BY <1>13 DEF Tick, local, custody, logs, bounds
<1>14. CASE UNCHANGED vars
  BY <1>14 DEF vars, local, custody, logs, bounds
<1>15. ASSUME NEW missed \in Unreadable, HashSkips(missed) PROVE TypeInv'
  <2>1. hash' \in Digests
    BY <1>15 DEF HashSkips, Digests
  <2>2. QED
    BY <1>15, <2>1 DEF HashSkips, custody, logs, Made, Busy
<1>16. QED
  BY <1>1, <1>2, <1>3, <1>4, <1>5, <1>6, <1>7, <1>8, <1>9, <1>10, <1>11, <1>12, <1>13, <1>14, <1>15

(* The steps that write a bundle or the custody log.                          *)
LEMMA TypeOfWrites ==
  ASSUME TypeInv,
         \/ MakeDirectory \/ WriteMetadata \/ AppendEntry \/ AppendFails
         \/ \E layer \in Layers : SaveLayer(layer)
         \/ \E layer \in Layers, left \in {"none", "part"} : LayerFails(layer, left)
         \/ \E left \in {"none", "part"} : CollectRaises(left)
  PROVE  TypeInv'
<1> USE DEF TypeInv, TypeOK, Points
<1>a. bundles \in Seq(Bundle) /\ Blank \in Contents
  BY DEF Bundle, Blank, Contents
<1>1. CASE MakeDirectory
  <2> DEFINE b == [files |-> Blank, listed |-> {}]
  <2>a. b \in Bundle /\ bundles' = Append(bundles, b)
    BY <1>1, <1>a DEF MakeDirectory, Bundle
  <2> HIDE DEF b
  <2>1. bundles' \in Seq(Bundle) /\ Len(bundles') = Len(bundles) + 1 /\ Len(bundles) \in Nat
    BY <1>a, <2>a
  <2>2. bundles' # <<>>
    BY <2>1
  <2>3. QED
    BY <1>1, <2>1, <2>2 DEF MakeDirectory, Goto, local, custody, logs, bounds, Bundle
<1>2. CASE WriteMetadata
  <2>1. pc \in Made
    BY <1>2 DEF WriteMetadata, Made, Busy
  <2>2. Incident \in 1..Len(bundles) /\ bundles[Incident] \in Bundle
    BY <1>a, <2>1 DEF Incident
  <2> DEFINE b == [files |-> [bundles[Incident].files EXCEPT !["metadata"] = "whole"], listed |-> paths]
  <2>3. bundles' = [bundles EXCEPT ![Incident] = b]
    BY <1>2 DEF WriteMetadata
  <2>4. b \in Bundle
    BY <2>2 DEF Bundle, Contents
  <2> HIDE DEF b
  <2>5. bundles' \in Seq(Bundle) /\ bundles' # <<>>
    BY <1>a, <2>2, <2>3, <2>4
  <2>6. QED
    BY <1>2, <2>5 DEF WriteMetadata, Goto, local, custody, logs, bounds, Bundle
<1>3. CASE AppendEntry
  <2>1. HeadOf(Lines, torn) \in Nat \/ torn
    BY EntryType
  <2>2. Incident \in Nat /\ hand.label \in Labels /\ DamagedEntry \in Entry
    <3>1. Blank \in Digests
      BY DEF Blank, Digests
    <3>2. Incident \in Nat /\ hand.label \in Labels
      BY <1>a DEF Incident, Window
    <3>3. QED
      BY <3>1, <3>2, LabelAssumption DEF DamagedEntry, Entry, NoIncident, Genesis
  <2> DEFINE e == IF torn THEN DamagedEntry
                  ELSE [incident |-> Incident, prev |-> HeadOf(Lines, torn), files |-> hash,
                        label |-> hand.label]
  <2>3. e \in Entry
    BY <2>1, <2>2 DEF Entry
  <2>4. entries' = Append(entries, e)
    BY <1>3 DEF AppendEntry
  <2> HIDE DEF e
  <2>5. entries' \in Seq(Entry)
    BY <2>3, <2>4 DEF Entry
  <2>6. QED
    BY <1>3, <2>5 DEF AppendEntry, Goto, local, logs, bounds, Entry, Made, Busy
<1>4. CASE AppendFails
  BY <1>4 DEF AppendFails, Goto, local, logs, Made, Busy, Layers
<1>5. ASSUME NEW layer \in Layers, SaveLayer(layer) PROVE TypeInv'
  <2>1. bundles # <<>> /\ layer \in Files /\ Put(layer, "whole")
    BY <1>5 DEF SaveLayer, Made, Busy, Files
  <2>2. bundles' \in Seq(Bundle) /\ bundles' # <<>>
    <3>1. bundles' \in Seq(Bundle) /\ Len(bundles') = Len(bundles)
      BY <1>a, <2>1, PutFacts
    <3>2. QED
      BY <1>a, <2>1, <3>1
  <2>3. pc' \in Points
    BY <1>5, AfterLayerPoints DEF SaveLayer, Goto, Layers
  <2>4. QED
    BY <1>5, <2>2, <2>3 DEF SaveLayer, custody, logs, bounds, Bundle
<1>6. ASSUME NEW layer \in Layers, NEW left \in {"none", "part"}, LayerFails(layer, left)
      PROVE  TypeInv'
  <2>1. bundles # <<>> /\ layer \in Files /\ Put(layer, left)
    BY <1>6 DEF LayerFails, Made, Busy, Files
  <2>2. bundles' \in Seq(Bundle) /\ bundles' # <<>>
    <3>1. left \in {"none", "part", "whole"}
      OBVIOUS
    <3>2. bundles' \in Seq(Bundle) /\ Len(bundles') = Len(bundles)
      BY <1>a, <2>1, <3>1, PutFacts
    <3>3. QED
      BY <1>a, <2>1, <3>2
  <2>3. pc' \in Points
    BY <1>6, AfterLayerPoints DEF LayerFails, Goto, Layers
  <2>4. QED
    BY <1>6, <2>2, <2>3 DEF LayerFails, local, custody, logs, Bundle
<1>7. ASSUME NEW left \in {"none", "part"}, CollectRaises(left) PROVE TypeInv'
  <2>1. bundles' \in Seq(Bundle)
    <3>1. CASE pc = "metadata"
      <4>1. pc \in Made /\ "metadata" \in Files /\ Put("metadata", left)
        BY <1>7, <3>1 DEF CollectRaises, Made, Busy, Files
      <4>2. QED
        BY <1>a, <4>1, PutFacts
    <3>2. CASE pc # "metadata"
      BY <1>7, <1>a, <3>2 DEF CollectRaises
    <3>3. QED
      BY <3>1, <3>2
  <2>2. QED
    BY <1>7, <2>1 DEF CollectRaises, Goto, local, custody, logs, Bundle, Made, Busy, Layers
<1>8. QED
  BY <1>1, <1>2, <1>3, <1>4, <1>5, <1>6, <1>7

LEMMA NextType == TypeInv /\ [Next]_vars => TypeInv'
<1> SUFFICES ASSUME TypeInv, [Next]_vars PROVE TypeInv'
  OBVIOUS
<1>1. CASE \/ Classify(Benign, TRUE, TRUE)
           \/ \E label \in Labels \ {Benign}, sure, joined \in BOOLEAN : Classify(label, sure, joined)
           \/ Kill \/ Restart \/ Tick \/ UNCHANGED vars
  BY <1>1, LabelAssumption, TypeOfQuietSteps
<1>2. CASE Handle
  BY <1>2, TypeOfQuietSteps, TypeOfWrites DEF Handle
<1>3. CASE Fail
  BY <1>3, TypeOfQuietSteps, TypeOfWrites DEF Fail
<1>4. QED
  BY <1>1, <1>2, <1>3 DEF Next

LEMMA TypeAlways == Spec => []TypeInv
BY InitType, NextType, PTL DEF Spec

(* The handler, the bundles and the logs stay in their types.                 *)
THEOREM AcquisitionTypeCorrect == Spec => []TypeOK
<1>1. TypeInv => TypeOK
  BY DEF TypeInv
<1>2. QED
  BY <1>1, TypeAlways, PTL
-----------------------------------------------------------------------------
(* The inductive invariant of the bundles: the layers that were saved are the *)
(* whole files of the bundle in hand, a layer is written once, and the bundle *)
(* has no entry before it is complete.                                        *)
Whole(i) == {l \in Layers : bundles[i].files[l] = "whole"}

(* The layers that are still to be saved.                                     *)
Remaining(point) ==
  CASE point = "network" -> Layers
    [] point = "processes" -> {"processes", "memory", "syslog"}
    [] point = "memory" -> {"memory", "syslog"}
    [] point = "syslog" -> {"syslog"}

InHand ==
  /\ pc \in {"idle", "prediction", "trigger", "directory", "down"} => paths = {}
  /\ pc \in Layers => paths \cap Remaining(pc) = {}
  /\ pc \in Layers \cup {"metadata"} => paths = Whole(Incident)
  /\ pc \in {"hash", "append"} =>
       /\ bundles[Incident].files["metadata"] = "whole"
       /\ bundles[Incident].listed = Whole(Incident)
  /\ pc = "append" => \A f \in Files : hash[f] \in {bundles[Incident].files[f], "unread"}

Unsealed == pc \in Busy => \A k \in DOMAIN entries : entries[k].incident # Incident

StoreInv == TypeInv /\ InHand /\ BundlesStand /\ Unsealed

(* What the types say of the bundles.                                         *)
LEMMA BundleTypes ==
  ASSUME TypeInv
  PROVE  /\ bundles \in Seq(Bundle) /\ entries \in Seq(Entry)
         /\ Incident = Len(bundles) /\ Incident \in Nat /\ DOMAIN bundles = 1..Incident
         /\ pc \in Made => Incident \in 1..Incident /\ bundles[Incident] \in Bundle
<1>1. bundles \in Seq(Bundle) /\ entries \in Seq(Entry)
  BY DEF TypeInv, TypeOK, Bundle, Entry
<1>2. pc \in Made => bundles # <<>>
  BY DEF TypeInv
<1>3. pc \in Made => Incident \in 1..Incident /\ bundles[Incident] \in Bundle
  BY <1>1, <1>2 DEF Incident
<1>4. QED
  BY <1>1, <1>3 DEF Incident

(* Entries stand as long as only the bundle in hand is written to.            *)
LEMMA BundlesStandOn ==
  ASSUME StoreInv, TypeInv', entries' = entries, Len(bundles) <= Len(bundles'),
         \A i \in 1..Len(bundles) : i # Incident \/ pc \notin Busy => bundles'[i] = bundles[i]
  PROVE  BundlesStand'
<1>1. /\ bundles \in Seq(Bundle) /\ Incident = Len(bundles) /\ DOMAIN bundles = 1..Incident
      /\ Incident \in Nat
  BY BundleTypes DEF StoreInv
<1>2. bundles' \in Seq(Bundle)
  BY DEF TypeInv, TypeOK, Bundle
<1> SUFFICES ASSUME NEW k \in DOMAIN entries, entries[k] # DamagedEntry
             PROVE  LET i == entries[k].incident IN
                      /\ i \in DOMAIN bundles'
                      /\ \A f \in Files : entries[k].files[f] \in {bundles'[i].files[f], "unread"}
                      /\ bundles'[i].files["metadata"] = "whole"
                      /\ bundles'[i].listed = {l \in Layers : bundles'[i].files[l] = "whole"}
  BY DEF BundlesStand, DamagedEntry
<1> DEFINE i == entries[k].incident
<1>3. /\ i \in DOMAIN bundles
      /\ \A f \in Files : entries[k].files[f] \in {bundles[i].files[f], "unread"}
      /\ bundles[i].files["metadata"] = "whole"
      /\ bundles[i].listed = {l \in Layers : bundles[i].files[l] = "whole"}
  BY DEF StoreInv, BundlesStand
<1>4. i # Incident \/ pc \notin Busy
  BY DEF StoreInv, Unsealed
<1> HIDE DEF i
<1>5. bundles'[i] = bundles[i] /\ i \in DOMAIN bundles'
  BY <1>1, <1>2, <1>3, <1>4
<1>6. QED
  BY <1>3, <1>5 DEF i

(* The invariant holds at the start.                                          *)
LEMMA InitStore == Init => StoreInv
<1> SUFFICES ASSUME Init PROVE StoreInv
  OBVIOUS
<1>1. TypeInv
  BY InitType
<1>2. InHand
  BY DEF Init, InHand, Layers
<1>3. BundlesStand /\ Unsealed
  BY DEF Init, BundlesStand, Unsealed
<1>4. QED
  BY <1>1, <1>2, <1>3 DEF StoreInv

(* The steps that leave bundles and entries alone.                            *)
LEMMA StoreOfQuietSteps ==
  ASSUME StoreInv,
         \/ \E label \in Labels, sure, joined \in BOOLEAN : Classify(label, sure, joined)
         \/ LogPrediction \/ NoTrigger \/ Trigger \/ WriteTiming \/ WriteItems
         \/ HashBundle \/ CollectReturns \/ CountRaises \/ AppendFails
         \/ \E missed \in Unreadable : HashSkips(missed)
         \/ RowFails \/ Kill \/ Restart \/ Tick \/ UNCHANGED vars
  PROVE  StoreInv' /\ UNCHANGED <<bundles, entries>>
<1>1. TypeInv'
  BY TypeOfQuietSteps, TypeOfWrites DEF StoreInv
<1>2. UNCHANGED <<bundles, entries>>
  BY DEF Classify, LogPrediction, NoTrigger, Trigger, WriteTiming, WriteItems, HashBundle,
         CollectReturns, CountRaises, AppendFails, HashSkips, RowFails, Kill, Restart, Tick, vars, custody
<1>3. BundlesStand'
  BY <1>2 DEF StoreInv, BundlesStand, DamagedEntry
<1>4. InHand' /\ Unsealed'
  <2> USE <1>2 DEF StoreInv, InHand, Unsealed, Busy, Layers, Whole, Incident
  <2>1. ASSUME NEW label \in Labels, NEW sure \in BOOLEAN, NEW joined \in BOOLEAN,
               Classify(label, sure, joined)
        PROVE  InHand' /\ Unsealed'
    BY <2>1 DEF Classify, Goto
  <2>2. CASE LogPrediction
    BY <2>2 DEF LogPrediction, Goto
  <2>3. CASE NoTrigger
    BY <2>3 DEF NoTrigger, Goto, local
  <2>4. CASE Trigger
    BY <2>4 DEF Trigger, Goto, local
  <2>5. CASE WriteTiming
    BY <2>5 DEF WriteTiming, Goto, local
  <2>6. CASE WriteItems
    BY <2>6 DEF WriteItems, Goto
  <2>7. CASE HashBundle
    BY <2>7 DEF HashBundle, Goto
  <2>8. CASE CollectReturns
    BY <2>8 DEF CollectReturns, Goto
  <2>9. CASE CountRaises
    BY <2>9 DEF CountRaises, Goto, local
  <2>10. CASE AppendFails
    BY <2>10 DEF AppendFails, Goto, local
  <2>11. CASE RowFails \/ Kill
    BY <2>11 DEF RowFails, Kill, Gone, Goto
  <2>12. CASE Restart
    BY <2>12 DEF Restart, Goto, local
  <2>13. CASE Tick \/ UNCHANGED vars
    <3>1. UNCHANGED <<pc, paths, hash>>
      BY <2>13 DEF Tick, vars, local
    <3>2. QED
      BY <3>1
  <2>14. ASSUME NEW missed \in Unreadable, HashSkips(missed) PROVE InHand' /\ Unsealed'
    <3>1. UNCHANGED <<pc, paths>> /\ pc = "hash"
      BY <2>14 DEF HashSkips
    <3>2. QED
      BY <3>1
  <2>15. QED
    BY <2>1, <2>2, <2>3, <2>4, <2>5, <2>6, <2>7, <2>8, <2>9, <2>10, <2>11, <2>12, <2>13, <2>14
<1>5. QED
  BY <1>1, <1>2, <1>3, <1>4 DEF StoreInv

(* The steps that write the bundle in hand: a layer or the metadata.          *)
LEMMA StoreOfPut ==
  ASSUME StoreInv, TypeInv', NEW f \in Files, NEW c \in {"none", "part", "whole"},
         pc \in Busy, Put(f, c), entries' = entries
  PROVE  /\ BundlesStand' /\ Incident' = Incident
         /\ bundles'[Incident].files = [bundles[Incident].files EXCEPT ![f] = c]
         /\ bundles'[Incident].files[f] = c
         /\ \A g \in Files \ {f} : bundles'[Incident].files[g] = bundles[Incident].files[g]
         /\ bundles'[Incident].listed = bundles[Incident].listed
         /\ \A g \in Layers : g \in Whole(Incident)' <=> IF g = f THEN c = "whole" ELSE g \in Whole(Incident)
<1>1. /\ bundles \in Seq(Bundle) /\ Incident = Len(bundles) /\ Incident \in Nat
      /\ Incident \in 1..Incident /\ bundles[Incident] \in Bundle
  BY BundleTypes DEF StoreInv, Made
<1>2. bundles # <<>>
  BY <1>1
<1>3. /\ bundles' \in Seq(Bundle) /\ Len(bundles') = Len(bundles)
      /\ \A i \in 1..Len(bundles) : i # Len(bundles) => bundles'[i] = bundles[i]
      /\ bundles'[Incident].files = [bundles[Incident].files EXCEPT ![f] = c]
      /\ bundles'[Incident].listed = bundles[Incident].listed
  BY <1>1, <1>2, PutFacts
<1>4. BundlesStand'
  BY <1>1, <1>3, BundlesStandOn
<1>5. Incident' = Incident
  BY <1>1, <1>3 DEF Incident
<1>6. bundles[Incident].files \in [Files -> {"none", "part", "whole"}]
  BY <1>1 DEF Bundle, Contents
<1>7. /\ bundles'[Incident].files[f] = c
      /\ \A g \in Files \ {f} : bundles'[Incident].files[g] = bundles[Incident].files[g]
  BY <1>3, <1>6
<1>8. \A g \in Layers : g \in Whole(Incident)' <=> bundles'[Incident].files[g] = "whole"
  BY <1>5 DEF Whole
<1>9. \A g \in Layers : g \in Whole(Incident) <=> bundles[Incident].files[g] = "whole"
  BY DEF Whole
<1>10. \A g \in Layers : g \in Whole(Incident)' <=> IF g = f THEN c = "whole" ELSE g \in Whole(Incident)
  BY <1>7, <1>8, <1>9 DEF Files
<1>11. QED
  BY <1>3, <1>4, <1>5, <1>7, <1>10

(* Where the next layer leads, and that it does not come again.               *)
LEMMA RemainingFacts ==
  ASSUME NEW layer \in Layers
  PROVE  /\ layer \in Remaining(layer)
         /\ AfterLayer[layer] \in Layers =>
              /\ Remaining(AfterLayer[layer]) \subseteq Remaining(layer)
              /\ layer \notin Remaining(AfterLayer[layer])
BY DEF Layers, Remaining, AfterLayer

LEMMA StoreOfLayers ==
  ASSUME StoreInv, NEW layer \in Layers,
         \/ SaveLayer(layer)
         \/ \E left \in {"none", "part"} : LayerFails(layer, left)
  PROVE  StoreInv' /\ entries' = entries /\ pc \in Busy /\ Incident' = Incident
         /\ \E c \in {"none", "part", "whole"} : Put(layer, c)
<1>1. TypeInv' /\ paths \in SUBSET Layers
  BY TypeOfWrites DEF StoreInv, TypeInv, TypeOK
<1>2. PICK c \in {"none", "part", "whole"} :
        /\ Put(layer, c) /\ pc = layer /\ entries' = entries
        /\ pc' = AfterLayer[layer]
        /\ paths' = IF c = "whole" THEN paths \cup {layer} ELSE paths
  BY DEF SaveLayer, LayerFails, Goto, custody, local
<1>3. layer \in Files /\ pc \in Busy
  BY <1>2 DEF Files, Busy
<1>4. /\ BundlesStand' /\ Incident' = Incident
      /\ \A g \in Layers : g \in Whole(Incident)' <=>
            IF g = layer THEN c = "whole" ELSE g \in Whole(Incident)
  BY <1>1, <1>2, <1>3, StoreOfPut
<1>5. paths = Whole(Incident) /\ paths \cap Remaining(layer) = {} /\ layer \notin paths
  BY <1>2, RemainingFacts DEF StoreInv, InHand
<1>6. paths' = Whole(Incident)' /\ paths' \in SUBSET Layers
  <2>1. Whole(Incident)' \in SUBSET Layers
    BY DEF Whole
  <2>2. \A g \in Layers : g \in paths' <=> g \in Whole(Incident)'
    BY <1>2, <1>4, <1>5
  <2>3. paths' \in SUBSET Layers
    BY <1>1, <1>2
  <2>4. QED
    BY <2>1, <2>2, <2>3
<1>7. AfterLayer[layer] \in Layers \cup {"metadata"}
  BY AfterLayerPoints
<1>8. pc' \in Layers => paths' \cap Remaining(pc') = {}
  BY <1>2, <1>5, RemainingFacts
<1>9. InHand'
  BY <1>2, <1>6, <1>7, <1>8 DEF InHand, Layers
<1>10. Unsealed'
  BY <1>2, <1>3, <1>4 DEF StoreInv, Unsealed
<1>11. QED
  BY <1>1, <1>2, <1>3, <1>4, <1>9, <1>10 DEF StoreInv

LEMMA StoreOfMetadata ==
  ASSUME StoreInv, WriteMetadata
  PROVE  /\ StoreInv' /\ entries' = entries /\ pc \in Busy /\ Incident' = Incident
         /\ bundles' \in Seq(Bundle) /\ Len(bundles') = Len(bundles)
         /\ \A i \in 1..Len(bundles) : i # Incident => bundles'[i] = bundles[i]
<1>1. TypeInv' /\ pc = "metadata" /\ pc \in Busy /\ entries' = entries /\ pc' = "hash" /\ paths' = paths
  BY TypeOfWrites DEF StoreInv, WriteMetadata, Busy, Goto, custody, local
<1>2. /\ bundles \in Seq(Bundle) /\ Incident = Len(bundles) /\ Incident \in Nat
      /\ DOMAIN bundles = 1..Incident
      /\ Incident \in 1..Incident /\ bundles[Incident] \in Bundle
  BY <1>1, BundleTypes DEF StoreInv, Made
<1> DEFINE b == [files |-> [bundles[Incident].files EXCEPT !["metadata"] = "whole"], listed |-> paths]
<1>3. bundles' = [bundles EXCEPT ![Incident] = b]
  BY DEF WriteMetadata
<1>4. /\ bundles[Incident].files \in [Files -> {"none", "part", "whole"}]
      /\ "metadata" \in Files /\ \A g \in Layers : g \in Files /\ g # "metadata"
  BY <1>2 DEF Bundle, Contents, Files, Layers
<1>5. /\ b.files["metadata"] = "whole" /\ b.listed = paths
      /\ \A g \in Layers : b.files[g] = bundles[Incident].files[g]
  BY <1>4
<1> HIDE DEF b
<1>6. /\ Len(bundles') = Len(bundles) /\ bundles' \in Seq(Bundle)
      /\ bundles'[Incident] = b
      /\ \A i \in 1..Len(bundles) : i # Incident => bundles'[i] = bundles[i]
  <2>1. bundles' \in Seq(Bundle)
    BY <1>1 DEF TypeInv, TypeOK, Bundle
  <2>2. QED
    BY <1>2, <1>3, <2>1
<1>7. BundlesStand'
  BY <1>1, <1>2, <1>6, BundlesStandOn
<1>8. Incident' = Incident
  BY <1>2, <1>6 DEF Incident
<1>9. Whole(Incident)' = Whole(Incident)
  BY <1>5, <1>6, <1>8 DEF Whole
<1>10. paths = Whole(Incident)
  BY <1>1 DEF StoreInv, InHand
<1>11. InHand'
  BY <1>1, <1>5, <1>6, <1>8, <1>9, <1>10 DEF InHand, Layers
<1>12. Unsealed'
  BY <1>1, <1>8 DEF StoreInv, Unsealed
<1>13. QED
  BY <1>1, <1>6, <1>7, <1>8, <1>11, <1>12 DEF StoreInv

LEMMA StoreOfDirectory ==
  ASSUME StoreInv, MakeDirectory
  PROVE  StoreInv' /\ entries' = entries
<1>1. /\ TypeInv' /\ pc = "directory" /\ pc \notin Busy /\ entries' = entries /\ pc' = "network"
      /\ paths' = paths /\ bundles' = Append(bundles, [files |-> Blank, listed |-> {}])
  BY TypeOfWrites DEF StoreInv, MakeDirectory, Busy, Layers, Goto, custody, local
<1>2. /\ bundles \in Seq(Bundle) /\ entries \in Seq(Entry)
      /\ Incident = Len(bundles) /\ Incident \in Nat /\ DOMAIN bundles = 1..Incident
  BY BundleTypes DEF StoreInv
<1>3. [files |-> Blank, listed |-> {}] \in Bundle
  BY DEF Bundle, Blank, Contents
<1> DEFINE b == [files |-> Blank, listed |-> {}]
<1>4. /\ Len(bundles') = Len(bundles) + 1 /\ bundles'[Incident + 1].files = Blank
      /\ \A i \in 1..Len(bundles) : bundles'[i] = bundles[i]
  <2>1. b.files = Blank /\ b \in Bundle /\ bundles' = Append(bundles, b)
    BY <1>1, <1>3
  <2> HIDE DEF b
  <2>2. QED
    BY <1>2, <2>1
<1>5. Incident' = Incident + 1
  BY <1>2, <1>4 DEF Incident
<1>6. BundlesStand'
  BY <1>1, <1>2, <1>4, BundlesStandOn
<1>7. Whole(Incident)' = {}
  BY <1>4, <1>5 DEF Whole, Blank, Files
<1>8. InHand'
  BY <1>1, <1>7 DEF StoreInv, InHand, Layers
<1>9. Unsealed'
  <2>1. ASSUME NEW k \in DOMAIN entries PROVE entries[k].incident # Incident + 1
    <3>1. CASE entries[k] = DamagedEntry
      BY <1>2, <3>1 DEF DamagedEntry, NoIncident
    <3>2. CASE entries[k] # DamagedEntry
      BY <1>2, <3>2 DEF StoreInv, BundlesStand
    <3>3. QED
      BY <3>1, <3>2
  <2>2. QED
    BY <1>1, <1>5, <2>1 DEF Unsealed
<1>10. QED
  BY <1>1, <1>6, <1>8, <1>9 DEF StoreInv

(* The step that appends the entry.                                           *)
EntryInHand ==
  [incident |-> Incident, prev |-> HeadOf(Lines, torn), files |-> hash, label |-> hand.label]

LEMMA StoreOfAppend ==
  ASSUME StoreInv, AppendEntry
  PROVE  /\ StoreInv' /\ bundles' = bundles /\ pc = "append"
         /\ Incident \in 1..Incident
         /\ \A f \in Files : hash[f] \in {bundles[Incident].files[f], "unread"}
         /\ entries' = Append(entries, IF torn THEN DamagedEntry ELSE EntryInHand)
<1>1. /\ TypeInv' /\ pc = "append" /\ pc' = "count" /\ bundles' = bundles
      /\ entries' = Append(entries, IF torn THEN DamagedEntry ELSE EntryInHand)
  BY TypeOfWrites DEF StoreInv, AppendEntry, Goto, EntryInHand
<1>2. /\ bundles \in Seq(Bundle) /\ entries \in Seq(Entry)
      /\ DOMAIN bundles = 1..Incident /\ Incident \in 1..Incident
  BY <1>1, BundleTypes DEF StoreInv, Made, Busy
<1>3. /\ \A f \in Files : hash[f] \in {bundles[Incident].files[f], "unread"}
      /\ bundles[Incident].files["metadata"] = "whole"
      /\ bundles[Incident].listed = Whole(Incident)
  BY <1>1 DEF StoreInv, InHand
<1> DEFINE e == IF torn THEN DamagedEntry ELSE EntryInHand
           Stands(x) == x # DamagedEntry =>
             LET i == x.incident IN
               /\ i \in DOMAIN bundles
               /\ \A f \in Files : x.files[f] \in {bundles[i].files[f], "unread"}
               /\ bundles[i].files["metadata"] = "whole"
               /\ bundles[i].listed = {l \in Layers : bundles[i].files[l] = "whole"}
<1>4. Stands(e)
  BY <1>2, <1>3 DEF EntryInHand, Whole
<1>5. \A k \in DOMAIN entries : Stands(entries[k])
  BY DEF StoreInv, BundlesStand
<1>6. entries' = Append(entries, e)
  BY <1>1
<1> HIDE DEF e, Stands
<1>7. \A k \in DOMAIN entries' : Stands(entries'[k])
  <2>1. ASSUME NEW k \in DOMAIN entries' PROVE k \in DOMAIN entries \/ entries'[k] = e
    BY <1>2, <1>6
  <2>2. ASSUME NEW k \in DOMAIN entries PROVE entries'[k] = entries[k]
    BY <1>2, <1>6
  <2>3. QED
    BY <1>4, <1>5, <2>1, <2>2
<1>8. BundlesStand'
  BY <1>1, <1>7 DEF BundlesStand, Stands, DamagedEntry
<1>9. InHand' /\ Unsealed'
  BY <1>1 DEF InHand, Unsealed, Busy, Layers
<1>10. QED
  BY <1>1, <1>2, <1>3, <1>8, <1>9 DEF StoreInv

(* The step that gives up.                                                    *)
LEMMA StoreOfRaise ==
  ASSUME StoreInv, NEW left \in {"none", "part"}, CollectRaises(left)
  PROVE  /\ StoreInv' /\ entries' = entries
         /\ \/ bundles' = bundles
            \/ pc \in Busy /\ Incident' = Incident /\ Put("metadata", left)
<1>1. TypeInv' /\ entries' = entries /\ pc' = "items"
  BY TypeOfWrites DEF StoreInv, CollectRaises, Goto, custody
<1>2. InHand' /\ Unsealed'
  BY <1>1 DEF InHand, Unsealed, Busy, Layers
<1>3. CASE bundles' = bundles
  <2>1. BundlesStand'
    BY <1>1, <1>3 DEF StoreInv, BundlesStand, DamagedEntry
  <2>2. QED
    BY <1>1, <1>2, <1>3, <2>1 DEF StoreInv
<1>4. CASE bundles' # bundles
  <2>1. pc \in Busy /\ Put("metadata", left) /\ "metadata" \in Files /\ left \in {"none", "part", "whole"}
    BY <1>4 DEF CollectRaises, Busy, Files
  <2>2. BundlesStand' /\ Incident' = Incident
    BY <1>1, <2>1, StoreOfPut
  <2>3. QED
    BY <1>1, <1>2, <2>1, <2>2 DEF StoreInv
<1>5. QED
  BY <1>3, <1>4

LEMMA NextStore == StoreInv /\ [Next]_vars => StoreInv'
<1> SUFFICES ASSUME StoreInv, [Next]_vars PROVE StoreInv'
  OBVIOUS
<1>1. CASE \/ Classify(Benign, TRUE, TRUE)
           \/ \E label \in Labels \ {Benign}, sure, joined \in BOOLEAN : Classify(label, sure, joined)
           \/ Kill \/ Restart \/ Tick \/ UNCHANGED vars
  BY <1>1, LabelAssumption, StoreOfQuietSteps
<1>2. CASE Handle
  BY <1>2, StoreOfQuietSteps, StoreOfLayers, StoreOfMetadata, StoreOfDirectory, StoreOfAppend DEF Handle
<1>3. CASE Fail
  BY <1>3, StoreOfQuietSteps, StoreOfLayers, StoreOfRaise DEF Fail
<1>4. QED
  BY <1>1, <1>2, <1>3 DEF Next

LEMMA StoreAlways == Spec => []StoreInv
BY InitStore, NextStore, PTL DEF Spec

(* What a read that failed costs: no more bundles look changed than calls have *)
(* failed, the one that is being hashed included.                             *)
Changed == {k \in DOMAIN entries : LooksChanged(k)}
Skipped == IF pc \in {"hash", "append"} /\ \E f \in Files : hash[f] = "unread" THEN 1 ELSE 0

SkipInv ==
  /\ pc \notin {"hash", "append", "count", "timing", "items"} => hash = Blank
  /\ Cardinality(Changed) + Skipped <= faults

LEMMA ChangedFacts ==
  ASSUME TypeInv
  PROVE  IsFiniteSet(Changed) /\ Cardinality(Changed) \in Nat
<1>1. entries \in Seq(Entry) /\ DOMAIN entries = 1..Len(entries) /\ Len(entries) \in Nat
  BY BundleTypes
<1>2. IsFiniteSet(1..Len(entries)) /\ Changed \subseteq 1..Len(entries)
  BY <1>1, FS_Interval DEF Changed
<1>3. QED
  BY <1>2, FS_Subset, FS_CardinalityType

LEMMA InitSkip == Init => SkipInv
<1> SUFFICES ASSUME Init PROVE SkipInv
  OBVIOUS
<1>1. Changed = {} /\ Skipped = 0 /\ faults = 0 /\ hash = Blank
  BY DEF Init, Changed, Skipped
<1>2. Cardinality(Changed) = 0
  BY <1>1, FS_EmptySet
<1>3. QED
  BY <1>1, <1>2 DEF SkipInv

(* The steps after which no more is unread than before.                       *)
LEMMA SkipStays ==
  ASSUME TypeInv, TypeInv', SkipInv, entries' = entries, faults' \in {faults, faults + 1},
         pc' \notin {"hash", "append", "count", "timing", "items"} => hash' = Blank,
         \/ Skipped' = Skipped
         \/ Skipped' = 0
         \/ faults' = faults + 1
  PROVE  SkipInv'
<1>1. Changed' = Changed
  BY DEF Changed, LooksChanged
<1>2. Cardinality(Changed) \in Nat /\ faults \in Nat
  BY ChangedFacts DEF TypeInv, TypeOK
<1>3. Skipped \in {0, 1} /\ Skipped' \in {0, 1}
  BY DEF Skipped
<1>4. QED
  BY <1>1, <1>2, <1>3 DEF SkipInv

LEMMA SkipOfQuietSteps ==
  ASSUME StoreInv, StoreInv', SkipInv,
         \/ \E label \in Labels, sure, joined \in BOOLEAN : Classify(label, sure, joined)
         \/ LogPrediction \/ NoTrigger \/ Trigger \/ WriteTiming \/ WriteItems
         \/ CollectReturns \/ CountRaises
         \/ RowFails \/ Kill \/ Restart \/ Tick \/ UNCHANGED vars
  PROVE  SkipInv'
<1> USE DEF StoreInv, Skipped
<1>1. ASSUME NEW label \in Labels, NEW sure \in BOOLEAN, NEW joined \in BOOLEAN,
             Classify(label, sure, joined)
      PROVE  SkipInv'
  BY <1>1, SkipStays DEF Classify, Goto, custody, bounds, SkipInv
<1>2. CASE LogPrediction \/ NoTrigger \/ Trigger \/ WriteTiming
  BY <1>2, SkipStays DEF LogPrediction, NoTrigger, Trigger, WriteTiming, Goto, local, custody, bounds, SkipInv
<1>3. CASE WriteItems
  BY <1>3, SkipStays DEF WriteItems, Goto, custody, bounds, SkipInv
<1>4. CASE CollectReturns \/ CountRaises
  BY <1>4, SkipStays DEF CollectReturns, CountRaises, Goto, local, custody, bounds, SkipInv
<1>5. CASE RowFails \/ Kill
  BY <1>5, SkipStays DEF RowFails, Kill, Gone, Goto, custody, bounds, SkipInv
<1>6. CASE Restart
  BY <1>6, SkipStays DEF Restart, Goto, local, custody, bounds, SkipInv
<1>7. CASE Tick \/ UNCHANGED vars
  <2>1. UNCHANGED <<pc, hash, entries, faults>>
    BY <1>7 DEF Tick, vars, local, custody, bounds
  <2>2. QED
    BY <2>1, SkipStays DEF SkipInv
<1>8. QED
  BY <1>1, <1>2, <1>3, <1>4, <1>5, <1>6, <1>7

LEMMA SkipOfAcquisition ==
  ASSUME StoreInv, StoreInv', SkipInv,
         \/ MakeDirectory \/ WriteMetadata \/ AppendFails
         \/ \E layer \in Layers : SaveLayer(layer)
         \/ \E layer \in Layers, left \in {"none", "part"} : LayerFails(layer, left)
         \/ \E left \in {"none", "part"} : CollectRaises(left)
  PROVE  SkipInv'
<1>1. /\ entries' = entries /\ hash' = hash /\ faults' \in {faults, faults + 1}
      /\ pc' \in {"hash", "items", "network", "metadata"} \cup Layers
      /\ pc' = "hash" => pc = "metadata"
      /\ pc' # "items" => pc \notin {"hash", "append", "count", "timing", "items"}
  BY AfterLayerPoints DEF MakeDirectory, WriteMetadata, AppendFails, SaveLayer, LayerFails,
     CollectRaises, Goto, local, custody, bounds, Layers
<1>2. pc' = "hash" => hash' = Blank
  BY <1>1 DEF SkipInv
<1>3. Skipped' = 0
  BY <1>1, <1>2 DEF Skipped, Blank, Layers
<1>4. pc' \notin {"hash", "append", "count", "timing", "items"} => hash' = Blank
  BY <1>1 DEF SkipInv
<1>5. QED
  BY <1>1, <1>3, <1>4, SkipStays DEF StoreInv

LEMMA SkipOfHash ==
  ASSUME StoreInv, StoreInv', SkipInv, HashBundle \/ \E missed \in Unreadable : HashSkips(missed)
  PROVE  SkipInv'
<1>1. /\ entries' = entries /\ pc = "hash" /\ pc' \in {"hash", "append"}
      /\ faults' \in {faults, faults + 1}
  BY DEF HashBundle, HashSkips, Goto, custody, bounds
<1>2. CASE HashBundle
  <2>1. bundles[Incident] \in Bundle
    BY <1>1, BundleTypes DEF StoreInv, Made, Busy
  <2>2. \A f \in Files : bundles[Incident].files[f] # "unread"
    BY <2>1 DEF Bundle, Contents
  <2>3. \A f \in Files : hash'[f] = "unread" <=> hash[f] = "unread"
    BY <1>2, <2>2 DEF HashBundle
  <2>4. Skipped' = Skipped
    BY <1>1, <2>3 DEF Skipped
  <2>5. QED
    BY <1>1, <2>4, SkipStays DEF StoreInv
<1>3. CASE \E missed \in Unreadable : HashSkips(missed)
  BY <1>1, <1>3, SkipStays DEF StoreInv, HashSkips
<1>4. QED
  BY <1>2, <1>3

LEMMA SkipOfAppend ==
  ASSUME StoreInv, StoreInv', SkipInv, AppendEntry
  PROVE  SkipInv'
<1>1. /\ pc = "append" /\ pc' = "count" /\ faults' = faults
      /\ entries' = Append(entries, IF torn THEN DamagedEntry ELSE EntryInHand)
  BY StoreOfAppend DEF AppendEntry, Goto, bounds
<1>2. /\ entries \in Seq(Entry) /\ Len(entries) \in Nat
      /\ IsFiniteSet(Changed) /\ Cardinality(Changed) \in Nat /\ faults \in Nat
  <2>1. TypeInv /\ entries \in Seq(Entry) /\ faults \in Nat
    BY BundleTypes DEF StoreInv, TypeInv, TypeOK
  <2>2. Len(entries) \in Nat
    BY <2>1
  <2>3. QED
    BY <2>1, <2>2, ChangedFacts
<1> DEFINE n == Len(entries)
           e == IF torn THEN DamagedEntry ELSE EntryInHand
<1>3. (\E f \in Files : e.files[f] = "unread") => Skipped = 1
  BY <1>1 DEF Skipped, DamagedEntry, EntryInHand, Blank
<1>4. entries' = Append(entries, e)
  BY <1>1
<1> HIDE DEF e
<1>5. /\ DOMAIN entries = 1..n /\ DOMAIN entries' = 1..(n + 1)
      /\ \A k \in 1..n : entries'[k] = entries[k]
      /\ entries'[n + 1] = e
  BY <1>2, <1>4
<1>6. Changed' \subseteq Changed \cup {n + 1} /\ n + 1 \notin Changed
  BY <1>2, <1>5 DEF Changed, LooksChanged
<1>7. Skipped' = 0 /\ Skipped \in {0, 1}
  BY <1>1 DEF Skipped
<1>8. CASE Skipped = 1
  <2>1. IsFiniteSet(Changed \cup {n + 1}) /\ Cardinality(Changed \cup {n + 1}) = Cardinality(Changed) + 1
    BY <1>2, <1>6, FS_AddElement
  <2>2. Cardinality(Changed') <= Cardinality(Changed) + 1 /\ Cardinality(Changed') \in Nat
    BY <1>6, <2>1, FS_Subset, FS_CardinalityType
  <2>3. QED
    BY <1>1, <1>2, <1>7, <1>8, <2>2 DEF SkipInv
<1>9. CASE Skipped = 0
  <2>1. Changed' \subseteq Changed
    BY <1>3, <1>5, <1>6, <1>9 DEF Changed, LooksChanged
  <2>2. Cardinality(Changed') <= Cardinality(Changed) /\ Cardinality(Changed') \in Nat
    BY <1>2, <2>1, FS_Subset, FS_CardinalityType
  <2>3. QED
    BY <1>1, <1>2, <1>7, <1>9, <2>2 DEF SkipInv
<1>10. QED
  BY <1>7, <1>8, <1>9

LEMMA NextSkip == StoreInv /\ SkipInv /\ [Next]_vars => SkipInv'
<1> SUFFICES ASSUME StoreInv, SkipInv, [Next]_vars PROVE SkipInv'
  OBVIOUS
<1>a. StoreInv'
  BY NextStore
<1>1. CASE \/ Classify(Benign, TRUE, TRUE)
           \/ \E label \in Labels \ {Benign}, sure, joined \in BOOLEAN : Classify(label, sure, joined)
           \/ Kill \/ Restart \/ Tick \/ UNCHANGED vars
  BY <1>a, <1>1, LabelAssumption, SkipOfQuietSteps
<1>2. CASE Handle
  BY <1>a, <1>2, SkipOfQuietSteps, SkipOfAcquisition, SkipOfHash, SkipOfAppend DEF Handle
<1>3. CASE Fail
  BY <1>a, <1>3, SkipOfQuietSteps, SkipOfAcquisition, SkipOfHash DEF Fail
<1>4. QED
  BY <1>1, <1>2, <1>3 DEF Next

(* A custody entry is about a bundle that is there, with its metadata, and    *)
(* that holds what was hashed of it; the verifier finds an untouched bundle   *)
(* changed only where a read failed, one for one failure at most.             *)
THEOREM EntriesAlwaysStand == Spec => []EntriesStand
<1>1. StoreInv /\ SkipInv => EntriesStand
  <2> SUFFICES ASSUME StoreInv, SkipInv PROVE EntriesStand
    OBVIOUS
  <2>1. Cardinality(Changed) \in Nat /\ faults \in Nat /\ Skipped \in {0, 1}
    BY ChangedFacts DEF StoreInv, TypeInv, TypeOK, Skipped
  <2>2. Cardinality(Changed) <= faults
    BY <2>1 DEF SkipInv
  <2>3. QED
    BY <2>2 DEF StoreInv, EntriesStand, Changed
<1>2. QED
  BY <1>1, StoreAlways, InitSkip, NextSkip, PTL DEF Spec
-----------------------------------------------------------------------------
(* The refinement: opening, saving and sealing are steps of the store.        *)
Held == [i \in DOMAIN bundles |-> bundles[i].files]
SealedEntries ==
  {[incident |-> entries[k].incident, files |-> entries[k].files] :
     k \in {k \in DOMAIN entries : entries[k] # DamagedEntry}}

(* What the store sees of the bundles.                                        *)
LEMMA FilesOfBundles ==
  ASSUME NEW b \in Seq(Bundle), NEW h, h = [i \in DOMAIN b |-> b[i].files]
  PROVE  /\ h \in Seq(Contents) /\ Len(h) = Len(b) /\ Len(b) \in Nat
         /\ \A i \in 1..Len(b) : h[i] = b[i].files
<1>1. ASSUME NEW i \in 1..Len(b) PROVE b[i].files \in Contents
  <2>1. b[i] \in Bundle
    BY ElementOf
  <2>2. QED
    BY <2>1 DEF Bundle
<1>2. DOMAIN b = 1..Len(b) /\ Len(b) \in Nat
  OBVIOUS
<1>3. h \in [1..Len(b) -> Contents]
  BY <1>1, <1>2
<1>4. h \in Seq(Contents) /\ Len(h) = Len(b)
  BY <1>2, <1>3
<1>5. QED
  BY <1>2, <1>4

LEMMA HeldFacts ==
  ASSUME StoreInv
  PROVE  /\ Held \in Seq(Contents) /\ Len(Held) = Incident /\ Incident \in Nat
         /\ \A i \in 1..Incident : Held[i] = bundles[i].files
         /\ pc \in Busy =>
              /\ Held # <<>>
              /\ ~ \E s \in SealedEntries : s.incident = Incident
<1>1. /\ bundles \in Seq(Bundle) /\ Incident = Len(bundles)
      /\ pc \in Busy => Incident \in 1..Incident
  BY BundleTypes DEF StoreInv, Made
<1>2. /\ Held \in Seq(Contents) /\ Len(Held) = Incident /\ Incident \in Nat
      /\ \A i \in 1..Incident : Held[i] = bundles[i].files
  BY <1>1, FilesOfBundles DEF Held
<1>3. pc \in Busy => ~ \E s \in SealedEntries : s.incident = Incident
  BY DEF StoreInv, Unsealed, SealedEntries
<1>4. QED
  BY <1>1, <1>2, <1>3

LEMMA SealedStays ==
  ASSUME entries' = entries
  PROVE  SealedEntries' = SealedEntries
BY DEF SealedEntries, DamagedEntry

(* Writing the bundle in hand is saving.                                      *)
LEMMA WriteIsSave ==
  ASSUME StoreInv, StoreInv', pc \in Busy, entries' = entries, Incident' = Incident,
         \A i \in 1..Incident : i # Incident => bundles'[i] = bundles[i]
  PROVE  Store!Save
<1>1. /\ Held \in Seq(Contents) /\ Len(Held) = Incident /\ Incident \in Nat /\ Held # <<>>
      /\ \A i \in 1..Incident : Held[i] = bundles[i].files
      /\ ~ \E s \in SealedEntries : s.incident = Incident
  BY HeldFacts
<1>2. /\ Held' \in Seq(Contents) /\ Len(Held') = Incident
      /\ \A i \in 1..Incident : Held'[i] = bundles'[i].files
  <2>1. bundles' \in Seq(Bundle) /\ Len(bundles') = Incident
    BY DEF StoreInv, TypeInv, TypeOK, Bundle, Incident
  <2>2. Held' = [i \in DOMAIN bundles' |-> bundles'[i].files]
    BY DEF Held
  <2>3. QED
    BY <2>1, <2>2, FilesOfBundles
<1>3. Held' = [Held EXCEPT ![Incident] = Held'[Incident]]
  BY <1>1, <1>2
<1>4. SealedEntries' = SealedEntries
  BY SealedStays
<1>5. QED
  BY <1>1, <1>3, <1>4 DEF Store!Save, Store!IsSealed, Store!Latest, Held, SealedEntries

(* A new directory is opening, an entry is sealing.                           *)
LEMMA DirectoryIsOpen ==
  ASSUME StoreInv, MakeDirectory
  PROVE  Store!Open
<1>1. /\ StoreInv' /\ entries' = entries
      /\ bundles' = Append(bundles, [files |-> Blank, listed |-> {}])
  BY StoreOfDirectory DEF MakeDirectory
<1>2. bundles \in Seq(Bundle) /\ bundles' \in Seq(Bundle)
  BY <1>1, BundleTypes DEF StoreInv, TypeInv, TypeOK, Bundle
<1>3. /\ Len(bundles') = Len(bundles) + 1
      /\ \A i \in 1..Len(bundles) : bundles'[i] = bundles[i]
      /\ bundles'[Len(bundles) + 1].files = Blank
  <2> DEFINE b == [files |-> Blank, listed |-> {}]
  <2>1. b.files = Blank /\ bundles' = Append(bundles, b)
    BY <1>1
  <2> HIDE DEF b
  <2>2. QED
    BY <1>2, <2>1
<1>4. Held = [i \in DOMAIN bundles |-> bundles[i].files] /\ Held' = [i \in DOMAIN bundles' |-> bundles'[i].files]
  BY DEF Held
<1>5. /\ Held \in Seq(Contents) /\ Len(Held) = Len(bundles) /\ Len(bundles) \in Nat
      /\ \A i \in 1..Len(bundles) : Held[i] = bundles[i].files
  BY <1>2, <1>4, FilesOfBundles
<1>6. /\ Held' \in Seq(Contents) /\ Len(Held') = Len(bundles')
      /\ \A i \in 1..Len(bundles') : Held'[i] = bundles'[i].files
  BY <1>2, <1>4, FilesOfBundles
<1> DEFINE n == Len(bundles)
<1>7. /\ n \in Nat /\ Len(Held') = n + 1 /\ Len(Held) = n
      /\ \A i \in 1..n : Held'[i] = Held[i]
      /\ Held'[n + 1] = Blank
  BY <1>3, <1>5, <1>6
<1> HIDE DEF n
<1>8. Held' = Append(Held, Blank)
  <2>1. Blank \in Contents
    BY DEF Blank, Contents
  <2>2. Append(Held, Blank) \in Seq(Contents) /\ Len(Append(Held, Blank)) = n + 1
    BY <1>5, <1>7, <2>1
  <2>3. \A i \in 1..(n + 1) : Append(Held, Blank)[i] = Held'[i]
    BY <1>5, <1>7
  <2>4. QED
    BY <1>6, <1>7, <2>2, <2>3
<1>9. SealedEntries' = SealedEntries
  BY <1>1, SealedStays
<1>10. QED
  BY <1>8, <1>9 DEF Store!Open, Held, SealedEntries

LEMMA AppendIsSeal ==
  ASSUME StoreInv, AppendEntry
  PROVE  Store!Seal \/ UNCHANGED <<Held, SealedEntries>>
<1>1. /\ bundles' = bundles /\ pc \in Busy /\ Incident \in 1..Incident
      /\ \A f \in Files : hash[f] \in {bundles[Incident].files[f], "unread"}
      /\ entries' = Append(entries, IF torn THEN DamagedEntry ELSE EntryInHand)
  BY StoreOfAppend DEF Busy
<1>2. Held' = Held
  BY <1>1 DEF Held
<1>3. /\ Len(Held) = Incident /\ Held # <<>>
      /\ Held[Incident] = bundles[Incident].files
      /\ Held[Incident] \in Contents /\ hash \in Digests
      /\ ~ \E s \in SealedEntries : s.incident = Incident
  <2>1. Len(Held) = Incident /\ Held \in Seq(Contents) /\ Held[Incident] = bundles[Incident].files
    BY <1>1, HeldFacts
  <2>2. Held[Incident] \in Contents
    BY <1>1, <2>1, ElementOf
  <2>3. QED
    BY <1>1, <2>1, <2>2, HeldFacts DEF StoreInv, TypeInv, TypeOK
<1>4. entries \in Seq(Entry) /\ Len(entries) \in Nat /\ DOMAIN entries = 1..Len(entries)
  BY BundleTypes DEF StoreInv
<1> DEFINE e == IF torn THEN DamagedEntry ELSE EntryInHand
           n == Len(entries)
           Seal(x) == [incident |-> x.incident, files |-> x.files]
<1> HIDE DEF e, n
<1>5. entries' = Append(entries, e)
  BY <1>1 DEF e
<1>6. /\ n \in Nat /\ DOMAIN entries = 1..n /\ DOMAIN entries' = 1..(n + 1)
      /\ \A k \in 1..n : entries'[k] = entries[k]
      /\ entries'[n + 1] = e
  BY <1>4, <1>5 DEF n
<1>7. /\ SealedEntries = {Seal(entries[k]) : k \in {k \in 1..n : entries[k] # DamagedEntry}}
      /\ SealedEntries' = {Seal(entries'[k]) : k \in {k \in 1..(n + 1) : entries'[k] # DamagedEntry}}
  BY <1>6 DEF SealedEntries, DamagedEntry
<1>8. 1..(n + 1) = 1..n \cup {n + 1}
  BY <1>6
<1> HIDE DEF Seal
<1>9. SealedEntries' = SealedEntries \cup (IF e = DamagedEntry THEN {} ELSE {Seal(e)})
  BY <1>6, <1>7, <1>8
<1>10. CASE torn
  BY <1>2, <1>9, <1>10 DEF e
<1>11. CASE ~ torn
  <2>1. e # DamagedEntry /\ Seal(e) = [incident |-> Incident, files |-> hash]
    BY <1>1, <1>11 DEF e, Seal, EntryInHand, DamagedEntry, NoIncident
  <2> DEFINE missed == {f \in Files : hash[f] = "unread"}
  <2>2. DOMAIN Held[Incident] = Files /\ missed \subseteq Files
    BY <1>3 DEF Contents
  <2>3. hash = [f \in Files |-> IF f \in missed THEN "unread" ELSE Held[Incident][f]]
    BY <1>1, <1>3 DEF Digests
  <2>4. hash = Store!Without(Held[Incident], missed)
    BY <2>2, <2>3 DEF Store!Without
  <2>5. SealedEntries' = SealedEntries \cup {[incident |-> Incident, files |-> Store!Without(Held[Incident], missed)]}
    BY <1>9, <2>1, <2>4
  <2>6. QED
    BY <1>2, <1>3, <2>2, <2>5 DEF Store!Seal, Store!IsSealed, Store!Latest, Held, SealedEntries
<1>12. QED
  BY <1>10, <1>11

LEMMA StepRefines ==
  ASSUME StoreInv, [Next]_vars
  PROVE  Store!Next \/ UNCHANGED <<Held, SealedEntries>>
<1>a. StoreInv'
  BY NextStore
<1>b. ASSUME UNCHANGED <<bundles, entries>> PROVE UNCHANGED <<Held, SealedEntries>>
  BY <1>b, SealedStays DEF Held
<1>c. /\ bundles \in Seq(Bundle) /\ Incident = Len(bundles)
      /\ pc \in Busy => Incident \in 1..Incident
  BY BundleTypes DEF StoreInv, Made
<1>d. ASSUME pc \in Busy, entries' = entries, Incident' = Incident,
             NEW f \in Files, NEW c \in {"none", "part", "whole"}, Put(f, c)
      PROVE  Store!Save
  <2>1. bundles # <<>>
    BY <1>c, <1>d
  <2>2. \A i \in 1..Len(bundles) : i # Len(bundles) => bundles'[i] = bundles[i]
    BY <1>c, <1>d, <2>1, PutFacts
  <2>3. QED
    BY <1>a, <1>c, <1>d, <2>2, WriteIsSave
<1>1. CASE MakeDirectory
  BY <1>1, DirectoryIsOpen DEF Store!Next
<1>2. CASE AppendEntry
  BY <1>2, AppendIsSeal DEF Store!Next
<1>3. CASE WriteMetadata
  <2>1. Store!Save
    BY <1>3, <1>a, <1>c, StoreOfMetadata, WriteIsSave
  <2>2. QED
    BY <2>1 DEF Store!Next
<1>4. ASSUME NEW layer \in Layers,
             SaveLayer(layer) \/ \E left \in {"none", "part"} : LayerFails(layer, left)
      PROVE  Store!Next
  <2>1. layer \in Files
    BY DEF Files
  <2>2. Store!Save
    BY <1>4, <1>d, <2>1, StoreOfLayers
  <2>3. QED
    BY <2>2 DEF Store!Next
<1>5. ASSUME NEW left \in {"none", "part"}, CollectRaises(left)
      PROVE  Store!Next \/ UNCHANGED <<Held, SealedEntries>>
  <2>1. /\ entries' = entries
        /\ \/ bundles' = bundles
           \/ pc \in Busy /\ Incident' = Incident /\ Put("metadata", left)
    BY <1>5, StoreOfRaise
  <2>2. "metadata" \in Files /\ left \in {"none", "part", "whole"}
    BY DEF Files
  <2>3. CASE bundles' = bundles
    BY <1>b, <2>1, <2>3
  <2>4. CASE bundles' # bundles
    BY <1>d, <2>1, <2>2, <2>4 DEF Store!Next
  <2>5. QED
    BY <2>3, <2>4
<1>6. CASE \/ Classify(Benign, TRUE, TRUE)
           \/ \E label \in Labels \ {Benign}, sure, joined \in BOOLEAN : Classify(label, sure, joined)
           \/ Kill \/ Restart \/ Tick \/ UNCHANGED vars
  BY <1>6, <1>b, LabelAssumption, StoreOfQuietSteps
<1>7. CASE Handle
  BY <1>1, <1>2, <1>3, <1>4, <1>7, <1>b, StoreOfQuietSteps DEF Handle
<1>8. CASE Fail
  BY <1>4, <1>5, <1>8, <1>b, StoreOfQuietSteps DEF Fail
<1>9. QED
  BY <1>6, <1>7, <1>8 DEF Next

(* The bundles behave like the abstract store, for any number of windows,     *)
(* failures and kills: only the latest bundle is written to, and a sealed one *)
(* stays as it was sealed.                                                    *)
THEOREM AcquisitionRefinesStore == Spec => ImplementsStore
<1>1. Init => Store!Init
  <2> SUFFICES ASSUME Init PROVE Store!Init
    OBVIOUS
  <2>1. bundles = <<>> /\ entries = <<>>
    BY DEF Init
  <2>2. Held = <<>>
    BY <2>1 DEF Held
  <2>3. SealedEntries = {}
    BY <2>1 DEF SealedEntries
  <2>4. QED
    BY <2>2, <2>3 DEF Store!Init, Held, SealedEntries
<1>2. StoreInv /\ [Next]_vars => [Store!Next]_<<Held, SealedEntries>>
  BY StepRefines
<1>3. QED
  BY <1>1, <1>2, StoreAlways, PTL DEF Spec, ImplementsStore, Store!Spec, Held, SealedEntries
-----------------------------------------------------------------------------
(* The inductive invariant of the rows: an incident that is answered has its  *)
(* entry, unless the log was damaged, and the rows name older incidents than  *)
(* the one in hand.                                                           *)
Damage == \E d \in DOMAIN entries : entries[d] = DamagedEntry
Named(i, label) == \E k \in DOMAIN entries : entries[k].incident = i /\ entries[k].label = label

Answered ==
  /\ pc = "count" => Named(Incident, hand.label) \/ Damage
  /\ pc \notin {"timing", "items"} => answer = NoIncident
  /\ answer # NoIncident => answer = Incident /\ (Named(Incident, hand.label) \/ Damage)
  /\ pc = "timing" => answer = Incident

ItemsNamed ==
  \A r \in DOMAIN items : items[r].incident # NoIncident =>
    Named(items[r].incident, items[r].label) \/ Damage

TimingNamed ==
  \A k \in DOMAIN timing : timing[k] \in Chained \/ Damage

Older ==
  /\ \A r \in DOMAIN items :
       /\ items[r].incident <= Incident
       /\ pc \in Made \/ (pc = "items" /\ answer # NoIncident) => items[r].incident < Incident
  /\ \A k \in DOMAIN timing :
       /\ timing[k] <= Incident
       /\ pc \in Made => timing[k] < Incident

ItemsDistinct ==
  \A r, s \in DOMAIN items : items[r].incident = items[s].incident /\ r # s => items[r].incident = NoIncident

TimingDistinct == \A k, m \in DOMAIN timing : timing[k] = timing[m] => k = m

RowsInv ==
  Answered /\ ItemsNamed /\ TimingNamed /\ Older /\ ItemsDistinct /\ TimingDistinct

(* Entries are only added.                                                    *)
Grows == \A k \in DOMAIN entries : k \in DOMAIN entries' /\ entries'[k] = entries[k]

LEMMA NamedStays ==
  ASSUME Grows
  PROVE  /\ Damage => Damage'
         /\ \A i, label : Named(i, label) => Named(i, label)'
         /\ \A i : i \in Chained => i \in Chained'
<1>1. Damage => Damage'
  BY DEF Grows, Damage, DamagedEntry
<1>2. \A i, label : Named(i, label) => Named(i, label)'
  BY DEF Grows, Named
<1>3. \A i : i \in Chained => i \in Chained'
  BY DEF Grows, Chained
<1>4. QED
  BY <1>1, <1>2, <1>3

(* Rows that stay stay named.                                                 *)
LEMMA RowsStay ==
  ASSUME RowsInv, Grows, UNCHANGED <<items, timing>>
  PROVE  ItemsNamed' /\ TimingNamed' /\ ItemsDistinct' /\ TimingDistinct'
<1>1. ItemsNamed'
  BY NamedStays DEF RowsInv, ItemsNamed
<1>2. TimingNamed'
  BY NamedStays DEF RowsInv, TimingNamed
<1>3. QED
  BY <1>1, <1>2 DEF RowsInv, ItemsDistinct, TimingDistinct

Row == [label : Labels, sure : BOOLEAN, joined : BOOLEAN, ts : Nat, incident : Nat]

LEMMA RowTypes ==
  ASSUME TypeInv
  PROVE  /\ items \in Seq(Row) /\ timing \in Seq(Nat)
         /\ \A r \in DOMAIN items : items[r].incident \in Nat
         /\ \A k \in DOMAIN timing : timing[k] \in Nat
<1>1. items \in Seq(Row) /\ timing \in Seq(Nat)
  BY DEF TypeInv, TypeOK, Row
<1>2. ASSUME NEW r \in DOMAIN items PROVE items[r].incident \in Nat
  <2>1. items[r] \in Row
    BY <1>1, ElementOf
  <2>2. QED
    BY <2>1 DEF Row
<1>3. QED
  BY <1>1, <1>2

(* Rows are older as long as the bundle in hand stays the one in hand.        *)
LEMMA OlderStays ==
  ASSUME TypeInv, RowsInv, UNCHANGED <<items, timing>>,
         \/ Incident' = Incident /\ pc' \notin Made /\ (pc' = "items" => answer' = NoIncident)
         \/ Incident' = Incident /\ pc \in Made
         \/ Incident' = Incident + 1
  PROVE  Older'
<1>1. Incident \in Nat
  BY BundleTypes
<1>2. /\ \A r \in DOMAIN items : items[r].incident \in Nat
      /\ \A k \in DOMAIN timing : timing[k] \in Nat
  BY RowTypes
<1>3. QED
  BY <1>1, <1>2 DEF RowsInv, Older

LEMMA InitRows == Init => RowsInv
<1> SUFFICES ASSUME Init PROVE RowsInv
  OBVIOUS
<1>1. /\ pc = "idle" /\ answer = NoIncident
      /\ DOMAIN items = {} /\ DOMAIN timing = {}
  BY DEF Init
<1>2. QED
  BY <1>1 DEF RowsInv, Answered, ItemsNamed, TimingNamed, Older, ItemsDistinct, TimingDistinct

(* The handler and the process.                                               *)
LEMMA RowsOfHandler ==
  ASSUME StoreInv, RowsInv,
         \/ \E label \in Labels, sure, joined \in BOOLEAN : Classify(label, sure, joined)
         \/ LogPrediction \/ NoTrigger \/ Trigger
         \/ RowFails \/ Kill \/ Restart \/ Tick \/ UNCHANGED vars
  PROVE  RowsInv'
<1>1. UNCHANGED <<items, timing, bundles, entries>> /\ Incident' = Incident
  BY DEF Classify, LogPrediction, NoTrigger, Trigger, RowFails, Kill, Restart, Tick, vars, logs,
         custody, Incident
<1>2. Grows /\ TypeInv
  BY <1>1 DEF Grows, StoreInv
<1>3. ASSUME pc' = pc, hand' = hand, answer' = answer PROVE RowsInv'
  BY <1>1, <1>3 DEF RowsInv, Answered, ItemsNamed, TimingNamed, Older, ItemsDistinct, TimingDistinct,
     Named, Damage, DamagedEntry, Chained
<1>4. CASE Tick \/ UNCHANGED vars
  BY <1>3, <1>4 DEF Tick, vars, local
<1>5. CASE ~ (Tick \/ UNCHANGED vars)
  <2>1. pc' \in {"prediction", "trigger", "items", "directory", "idle", "down"} /\ answer' = NoIncident
    BY <1>5 DEF Classify, LogPrediction, NoTrigger, Trigger, RowFails, Kill, Restart, Gone, Goto, local,
       RowsInv, Answered
  <2>2. Answered'
    BY <2>1 DEF Answered
  <2>3. Older'
    BY <1>1, <1>2, <2>1, OlderStays DEF Made, Busy, Layers
  <2>4. QED
    BY <1>1, <1>2, <2>2, <2>3, RowsStay DEF RowsInv
<1>6. QED
  BY <1>4, <1>5

(* The acquisition.                                                           *)
LEMMA RowsOfAcquisition ==
  ASSUME StoreInv, RowsInv,
         \/ MakeDirectory \/ WriteMetadata \/ HashBundle \/ AppendEntry \/ AppendFails
         \/ \E missed \in Unreadable : HashSkips(missed)
         \/ CollectReturns \/ CountRaises
         \/ \E layer \in Layers :
              SaveLayer(layer) \/ \E left \in {"none", "part"} : LayerFails(layer, left)
         \/ \E left \in {"none", "part"} : CollectRaises(left)
  PROVE  RowsInv'
<1>1. UNCHANGED <<items, timing, hand>>
  BY DEF MakeDirectory, WriteMetadata, HashBundle, HashSkips, AppendEntry, AppendFails, CollectReturns,
         CountRaises, SaveLayer, LayerFails, CollectRaises, logs, local
<1>2. TypeInv /\ entries \in Seq(Entry) /\ Incident \in Nat /\ Incident = Len(bundles)
  BY BundleTypes DEF StoreInv
<1>3. ASSUME entries' = entries PROVE Grows
  BY <1>3 DEF Grows
<1>4. CASE MakeDirectory
  <2>1. /\ entries' = entries /\ pc = "directory" /\ pc' = "network" /\ answer' = answer
        /\ bundles' = Append(bundles, [files |-> Blank, listed |-> {}])
    BY <1>4 DEF MakeDirectory, custody, local, Goto
  <2>2. Incident' = Incident + 1
    <3>1. bundles \in Seq(Bundle)
      BY <1>2 DEF TypeInv, TypeOK, Bundle
    <3> DEFINE b == [files |-> Blank, listed |-> {}]
    <3>2. bundles' = Append(bundles, b)
      BY <2>1
    <3> HIDE DEF b
    <3>3. QED
      BY <3>1, <3>2 DEF Incident
  <2>3. Older'
    BY <1>1, <1>2, <2>2, OlderStays
  <2>4. Answered'
    BY <2>1 DEF RowsInv, Answered
  <2>5. QED
    BY <1>1, <1>3, <2>1, <2>3, <2>4, RowsStay DEF RowsInv
<1>5. ASSUME WriteMetadata \/ HashBundle \/ (\E missed \in Unreadable : HashSkips(missed)) \/
             \E layer \in Layers :
               SaveLayer(layer) \/ \E left \in {"none", "part"} : LayerFails(layer, left)
      PROVE  RowsInv'
  <2>1. Incident' = Incident /\ entries' = entries
    BY <1>5, StoreOfLayers, StoreOfMetadata, StoreOfQuietSteps DEF Incident
  <2>2. /\ pc \in Busy /\ answer' = answer
        /\ pc' \in Layers \cup {"metadata", "hash", "append"}
    BY <1>5, AfterLayerPoints DEF WriteMetadata, HashBundle, HashSkips, SaveLayer, LayerFails, Busy, Goto, local
  <2>3. Older'
    BY <1>1, <1>2, <2>1, <2>2, OlderStays DEF Made
  <2>4. Answered'
    BY <2>2 DEF RowsInv, Answered, Busy, Layers
  <2>5. QED
    BY <1>1, <1>3, <2>1, <2>3, <2>4, RowsStay DEF RowsInv
<1>6. CASE AppendEntry
  <2>1. /\ bundles' = bundles /\ pc = "append" /\ pc' = "count" /\ answer' = answer
        /\ entries' = Append(entries, IF torn THEN DamagedEntry ELSE EntryInHand)
    BY <1>6, StoreOfAppend DEF AppendEntry, Goto, local
  <2> DEFINE e == IF torn THEN DamagedEntry ELSE EntryInHand
             n == Len(entries) + 1
  <2>2. e = DamagedEntry \/ (e.incident = Incident /\ e.label = hand.label)
    BY DEF EntryInHand
  <2>3. entries' = Append(entries, e)
    BY <2>1
  <2> HIDE DEF e
  <2>4. Grows /\ n \in DOMAIN entries' /\ entries'[n] = e
    BY <1>2, <2>3 DEF Grows
  <2>5. Incident' = Incident
    BY <2>1 DEF Incident
  <2>6. Named(Incident, hand.label)' \/ Damage'
    BY <1>1, <2>2, <2>4, <2>5 DEF Named, Damage, DamagedEntry
  <2>7. Answered'
    BY <1>1, <2>1, <2>5, <2>6 DEF RowsInv, Answered
  <2>8. Older'
    BY <1>1, <1>2, <2>1, <2>5, OlderStays DEF Made, Busy
  <2>9. QED
    BY <1>1, <2>4, <2>7, <2>8, RowsStay DEF RowsInv
<1>7. CASE CollectReturns
  <2>1. /\ pc = "count" /\ pc' = "timing" /\ answer' = Incident /\ UNCHANGED <<bundles, entries>>
    BY <1>7 DEF CollectReturns, Goto, custody
  <2>2. Incident' = Incident /\ Grows
    BY <2>1 DEF Incident, Grows
  <2>3. Answered'
    BY <1>1, <2>1, <2>2, NamedStays DEF RowsInv, Answered
  <2>4. Older'
    BY <1>1, <1>2, <2>1, <2>2, OlderStays DEF Made
  <2>5. QED
    BY <1>1, <2>2, <2>3, <2>4, RowsStay DEF RowsInv
<1>8. ASSUME AppendFails \/ CountRaises \/ \E left \in {"none", "part"} : CollectRaises(left)
      PROVE  RowsInv'
  <2>1. pc \in {"directory", "metadata", "hash", "append", "count"} /\ pc' = "items" /\ answer' = answer
    BY <1>8 DEF AppendFails, CountRaises, CollectRaises, Goto, local
  <2>2. entries' = entries
    BY <1>8 DEF AppendFails, CountRaises, CollectRaises, custody
  <2>3. Incident' = Incident
    <3>1. CASE bundles' = bundles
      BY <3>1 DEF Incident
    <3>2. CASE bundles' # bundles
      BY <1>8, <3>2, StoreOfRaise DEF AppendFails, CountRaises
    <3>3. QED
      BY <3>1, <3>2
  <2>4. answer' = NoIncident
    BY <2>1 DEF RowsInv, Answered
  <2>5. Answered'
    BY <2>1, <2>4 DEF Answered
  <2>6. Older'
    BY <1>1, <1>2, <2>1, <2>3, <2>4, OlderStays DEF Made, Busy, Layers
  <2>7. QED
    BY <1>1, <1>3, <2>2, <2>5, <2>6, RowsStay DEF RowsInv
<1>9. QED
  BY <1>4, <1>5, <1>6, <1>7, <1>8

(* The rows: each names the bundle in hand, or nothing.                       *)
LEMMA RowsOfTiming ==
  ASSUME StoreInv, RowsInv, WriteTiming
  PROVE  RowsInv'
<1>1. /\ pc = "timing" /\ pc' = "items" /\ timing' = Append(timing, answer)
      /\ UNCHANGED <<hand, answer, items, bundles, entries>>
  BY DEF WriteTiming, Goto, local, custody
<1>2. /\ TypeInv /\ Incident \in Nat /\ Incident >= 1 /\ Incident' = Incident /\ Grows
  BY <1>1, BundleTypes DEF StoreInv, Incident, Grows, Made
<1>3. answer = Incident /\ answer # NoIncident
  BY <1>1, <1>2 DEF RowsInv, Answered, NoIncident
<1>4. Named(Incident, hand.label) \/ Damage
  BY <1>3 DEF RowsInv, Answered
<1>5. Incident \in Chained \/ Damage
  BY <1>2, <1>4 DEF Named, Chained, NoIncident
<1> DEFINE n == Len(timing)
<1>6. /\ n \in Nat /\ DOMAIN timing = 1..n /\ DOMAIN timing' = 1..(n + 1)
      /\ timing'[n + 1] = Incident /\ \A k \in 1..n : timing'[k] = timing[k]
  BY <1>1, <1>2, <1>3, RowTypes
<1> HIDE DEF n
<1>7. \A k \in 1..n : timing[k] < Incident
  BY <1>1, <1>6 DEF RowsInv, Older, Made
<1>8. TimingNamed'
  BY <1>2, <1>5, <1>6, NamedStays DEF RowsInv, TimingNamed
<1>9. TimingDistinct'
  <2>1. ASSUME NEW k \in 1..(n + 1), NEW m \in 1..(n + 1), timing'[k] = timing'[m] PROVE k = m
    <3>1. CASE k \in 1..n /\ m \in 1..n
      BY <1>6, <2>1, <3>1 DEF RowsInv, TimingDistinct
    <3>2. CASE k = n + 1 \/ m = n + 1
      BY <1>2, <1>6, <1>7, <2>1, <3>2
    <3>3. QED
      BY <1>6, <3>1, <3>2
  <2>2. QED
    BY <1>6, <2>1 DEF TimingDistinct
<1>10. Older'
  <2>1. \A k \in 1..(n + 1) : timing'[k] <= Incident
    BY <1>2, <1>6, <1>7, RowTypes
  <2>2. \A r \in DOMAIN items : items[r].incident < Incident
    BY <1>1 DEF RowsInv, Older, Made
  <2>3. QED
    BY <1>1, <1>2, <1>6, <2>1, <2>2 DEF RowsInv, Older, Made, Busy, Layers
<1>11. Answered'
  BY <1>1, <1>2, <1>3, <1>4, NamedStays DEF Answered
<1>12. ItemsNamed' /\ ItemsDistinct'
  BY <1>1, <1>2, NamedStays DEF RowsInv, ItemsNamed, ItemsDistinct
<1>13. QED
  BY <1>8, <1>9, <1>10, <1>11, <1>12 DEF RowsInv

LEMMA RowsOfItems ==
  ASSUME StoreInv, RowsInv, WriteItems
  PROVE  RowsInv'
<1> DEFINE row == [label |-> hand.label, sure |-> hand.sure, joined |-> hand.joined,
                   ts |-> hand.ts, incident |-> answer]
<1>1. /\ pc = "items" /\ pc' = "idle" /\ answer' = NoIncident /\ items' = Append(items, row)
      /\ UNCHANGED <<timing, bundles, entries>>
  BY DEF WriteItems, Goto, custody
<1>2. TypeInv /\ Incident \in Nat /\ Incident' = Incident /\ Grows
  BY <1>1, BundleTypes DEF StoreInv, Incident, Grows
<1>3. row.label = hand.label /\ row.incident = answer /\ answer \in Nat
  BY <1>2 DEF TypeInv, TypeOK
<1> HIDE DEF row
<1> DEFINE n == Len(items)
<1>4. /\ n \in Nat /\ DOMAIN items = 1..n /\ DOMAIN items' = 1..(n + 1)
      /\ items'[n + 1] = row /\ \A r \in 1..n : items'[r] = items[r]
  BY <1>1, <1>2, RowTypes
<1> HIDE DEF n
<1>5. answer # NoIncident => /\ answer = Incident
                             /\ Named(answer, hand.label) \/ Damage
                             /\ \A r \in 1..n : items[r].incident < answer
  BY <1>1, <1>4 DEF RowsInv, Answered, Older
<1>6. ItemsNamed'
  <2>1. ASSUME NEW r \in 1..(n + 1), items'[r].incident # NoIncident
        PROVE  Named(items'[r].incident, items'[r].label) \/ Damage
    <3>1. CASE r \in 1..n
      BY <1>4, <2>1, <3>1 DEF RowsInv, ItemsNamed
    <3>2. CASE r = n + 1
      <4>1. items'[r].incident = answer /\ items'[r].label = hand.label
        BY <1>3, <1>4, <3>2
      <4>2. Named(answer, hand.label) \/ Damage
        BY <1>5, <2>1, <4>1
      <4>3. QED
        BY <4>1, <4>2
    <3>3. QED
      BY <1>4, <3>1, <3>2
  <2>2. \A r \in DOMAIN items' : items'[r].incident # NoIncident =>
          \/ \E k \in DOMAIN entries' : /\ entries'[k].incident = items'[r].incident
                                       /\ entries'[k].label = items'[r].label
          \/ \E d \in DOMAIN entries' : entries'[d] = DamagedEntry
    BY <1>1, <1>4, <2>1 DEF Named, Damage
  <2>3. QED
    BY <2>2 DEF ItemsNamed, Named, Damage, DamagedEntry
<1>7. ItemsDistinct'
  <2>1. ASSUME NEW r \in 1..(n + 1), NEW s \in 1..(n + 1),
               items'[r].incident = items'[s].incident, r # s
        PROVE  items'[r].incident = NoIncident
    <3>1. CASE r \in 1..n /\ s \in 1..n
      BY <1>4, <2>1, <3>1 DEF RowsInv, ItemsDistinct
    <3>2. CASE r = n + 1 /\ s \in 1..n
      <4>1. items[s].incident \in Nat /\ items[s].incident = answer
        BY <1>2, <1>3, <1>4, <2>1, <3>2, RowTypes
      <4>2. QED
        BY <1>3, <1>4, <1>5, <3>2, <4>1
    <3>3. CASE s = n + 1 /\ r \in 1..n
      <4>1. items[r].incident \in Nat /\ items[r].incident = answer
        BY <1>2, <1>3, <1>4, <2>1, <3>3, RowTypes
      <4>2. QED
        BY <1>3, <1>4, <1>5, <3>3, <4>1
    <3>4. QED
      BY <1>4, <2>1, <3>1, <3>2, <3>3
  <2>2. QED
    BY <1>4, <2>1 DEF ItemsDistinct
<1>8. Older'
  <2>1. \A r \in 1..(n + 1) : items'[r].incident <= Incident
    <3>1. answer <= Incident
      BY <1>2, <1>3, <1>5 DEF NoIncident
    <3>2. \A r \in 1..n : items[r].incident <= Incident
      BY <1>4 DEF RowsInv, Older
    <3>3. QED
      BY <1>3, <1>4, <3>1, <3>2
  <2>2. QED
    BY <1>1, <1>2, <1>4, <2>1 DEF RowsInv, Older, Made, Busy, Layers
<1>9. Answered'
  BY <1>1 DEF Answered
<1>10. TimingNamed' /\ TimingDistinct'
  BY <1>1, <1>2, NamedStays DEF RowsInv, TimingNamed, TimingDistinct
<1>11. QED
  BY <1>6, <1>7, <1>8, <1>9, <1>10 DEF RowsInv

LEMMA NextRows == StoreInv /\ RowsInv /\ [Next]_vars => RowsInv'
<1> SUFFICES ASSUME StoreInv, RowsInv, [Next]_vars PROVE RowsInv'
  OBVIOUS
<1>1. CASE \/ Classify(Benign, TRUE, TRUE)
           \/ \E label \in Labels \ {Benign}, sure, joined \in BOOLEAN : Classify(label, sure, joined)
           \/ Kill \/ Restart \/ Tick \/ UNCHANGED vars
  BY <1>1, LabelAssumption, RowsOfHandler
<1>2. CASE Handle
  BY <1>2, RowsOfHandler, RowsOfAcquisition, RowsOfTiming, RowsOfItems DEF Handle
<1>3. CASE Fail
  BY <1>3, RowsOfHandler, RowsOfAcquisition DEF Fail
<1>4. QED
  BY <1>1, <1>2, <1>3 DEF Next

(* A row that names an incident names one of its own label that has an entry, *)
(* unless a damaged line may have been that entry, and no two rows name the   *)
(* same, for any number of failures and kills.                                *)
THEOREM RowsAlwaysNameEvidence == Spec => []RowsNameEvidence
<1>1. Spec => []RowsInv
  BY InitRows, NextRows, StoreAlways, PTL DEF Spec
<1>2. RowsInv => RowsNameEvidence
  <2> SUFFICES ASSUME RowsInv PROVE RowsNameEvidence
    OBVIOUS
  <2>1. \A r \in DOMAIN items : items[r].incident # NoIncident =>
          \E k \in DOMAIN entries :
            \/ entries[k].incident = items[r].incident /\ entries[k].label = items[r].label
            \/ entries[k] = DamagedEntry
    BY DEF RowsInv, ItemsNamed, Named, Damage
  <2>2. QED
    BY <2>1 DEF RowsInv, RowsNameEvidence, TimingNamed, Damage, ItemsDistinct, TimingDistinct
<1>3. QED
  BY <1>1, <1>2, PTL
-----------------------------------------------------------------------------
(* The inductive invariant of the detections: a sure detection is covered by  *)
(* a trigger of its label within the cooldown, and a row that names the       *)
(* incident of a trigger is the row of the detection that triggered it.       *)
Acquiring == {"directory"} \cup Busy \cup {"count", "timing"}
Handling == Acquiring \cup {"items"}

Covered(label, ts) ==
  \E t \in DOMAIN triggers :
    triggers[t].label = label /\ triggers[t].at <= ts /\ ts - triggers[t].at < Cooldown

OfTrigger(label, ts, i) ==
  \A t \in DOMAIN triggers : triggers[t].incident = i => triggers[t].label = label /\ triggers[t].at = ts

(* A cooldown runs from a trigger.                                            *)
Cooling ==
  \A l \in Labels : last[l] # LongAgo =>
    last[l] <= now /\ \E t \in DOMAIN triggers : triggers[t].label = l /\ triggers[t].at = last[l]

RowsCovered ==
  \A r \in DOMAIN items : items[r].label # Benign /\ items[r].sure => Covered(items[r].label, items[r].ts)

RowsOfTriggers ==
  \A r \in DOMAIN items : items[r].incident # NoIncident =>
    OfTrigger(items[r].label, items[r].ts, items[r].incident)

RowsInTime ==
  /\ \A r, s \in DOMAIN items : r <= s => items[r].ts <= items[s].ts
  /\ \A r \in DOMAIN items : items[r].ts <= now

HandInTime ==
  /\ pc = "trigger" => hand.ts = now
  /\ pc \in Handling => hand.ts <= now /\ \A r \in DOMAIN items : items[r].ts <= hand.ts

HandCovered == pc \in Handling /\ hand.label # Benign /\ hand.sure => Covered(hand.label, hand.ts)

HandTriggered ==
  /\ pc \in Acquiring =>
       /\ triggers # <<>>
       /\ triggers[Len(triggers)].label = hand.label /\ triggers[Len(triggers)].at = hand.ts
  /\ answer # NoIncident => OfTrigger(hand.label, hand.ts, answer)

TriggersOlder ==
  \A t \in DOMAIN triggers :
    /\ triggers[t].incident <= Incident
    /\ pc \in Busy \cup {"count"} => triggers[t].incident < Incident

BurstInv ==
  Cooling /\ RowsCovered /\ RowsOfTriggers /\ RowsInTime /\ HandInTime /\ HandCovered /\ HandTriggered
  /\ TriggersOlder

Detection == [label : Labels, at : Nat, incident : Nat]

(* What the types say of the detections and of the clock.                     *)
LEMMA DetectionTypes ==
  ASSUME TypeInv
  PROVE  /\ triggers \in Seq(Detection) /\ now \in Nat /\ hand \in Window
         /\ last \in [Labels -> Int] /\ answer \in Nat /\ Incident \in Nat
         /\ \A t \in DOMAIN triggers : triggers[t] \in Detection
         /\ \A r \in DOMAIN items : items[r] \in Row
         /\ DOMAIN triggers = 1..Len(triggers) /\ Len(triggers) \in Nat
<1>1. triggers \in Seq(Detection) /\ items \in Seq(Row)
  BY DEF TypeInv, TypeOK, Detection, Row
<1>2. \A t \in DOMAIN triggers : triggers[t] \in Detection
  BY <1>1, ElementOf
<1>3. \A r \in DOMAIN items : items[r] \in Row
  BY <1>1, ElementOf
<1>4. QED
  BY <1>1, <1>2, <1>3, BundleTypes DEF TypeInv, TypeOK

LEMMA InitBurst == Init => BurstInv
<1> SUFFICES ASSUME Init PROVE BurstInv
  OBVIOUS
<1>1. /\ pc = "idle" /\ answer = NoIncident /\ DOMAIN items = {} /\ DOMAIN triggers = {}
      /\ \A l \in Labels : last[l] = LongAgo
  BY DEF Init
<1>2. QED
  BY <1>1 DEF BurstInv, Cooling, RowsCovered, RowsOfTriggers, RowsInTime, HandInTime, HandCovered,
     HandTriggered, TriggersOlder, Handling, Acquiring, Busy, Layers

(* The detections and rows that stay keep what holds of them.                 *)
LEMMA DetectionsStay ==
  ASSUME BurstInv, UNCHANGED <<triggers, items, last, now>>
  PROVE  /\ Cooling' /\ RowsCovered' /\ RowsOfTriggers' /\ RowsInTime'
         /\ \A label, ts : Covered(label, ts)' <=> Covered(label, ts)
         /\ \A label, ts, i : OfTrigger(label, ts, i)' <=> OfTrigger(label, ts, i)
<1>1. \A label, ts : Covered(label, ts)' <=> Covered(label, ts)
  BY DEF Covered
<1>2. \A label, ts, i : OfTrigger(label, ts, i)' <=> OfTrigger(label, ts, i)
  BY DEF OfTrigger
<1>3. RowsCovered'
  BY <1>1 DEF BurstInv, RowsCovered
<1>4. RowsOfTriggers'
  BY <1>2 DEF BurstInv, RowsOfTriggers
<1>5. Cooling' /\ RowsInTime'
  BY DEF BurstInv, Cooling, RowsInTime, LongAgo
<1>6. QED
  BY <1>1, <1>2, <1>3, <1>4, <1>5

(* A sure detection that triggers nothing comes within the cooldown.          *)
LEMMA NoTriggerCovered ==
  ASSUME TypeInv, BurstInv, pc = "trigger", ~ ShouldAcquire, hand.label # Benign, hand.sure
  PROVE  Covered(hand.label, hand.ts)
<1>1. /\ hand.label \in Labels /\ hand.ts = now /\ now \in Nat
      /\ last[hand.label] \in Int
  BY DetectionTypes DEF BurstInv, HandInTime, Window
<1>2. now - last[hand.label] < Cooldown
  BY <1>1, CooldownAssumption DEF ShouldAcquire
<1>3. last[hand.label] # LongAgo
  BY <1>1, <1>2, CooldownAssumption DEF LongAgo
<1>4. PICK t \in DOMAIN triggers : triggers[t].label = hand.label /\ triggers[t].at = last[hand.label]
  BY <1>1, <1>3 DEF BurstInv, Cooling
<1>5. last[hand.label] <= now
  BY <1>1, <1>3 DEF BurstInv, Cooling
<1>6. QED
  BY <1>1, <1>2, <1>4, <1>5 DEF Covered

(* Steps outside the acquisition that keep the detections.                    *)
LEMMA BurstsOfHandler ==
  ASSUME StoreInv, RowsInv, BurstInv,
         \/ \E label \in Labels, sure, joined \in BOOLEAN : Classify(label, sure, joined)
         \/ LogPrediction \/ NoTrigger \/ RowFails \/ Kill
  PROVE  BurstInv'
<1>1. UNCHANGED <<triggers, items, last, now, bundles>> /\ Incident' = Incident /\ TypeInv
  BY DEF Classify, LogPrediction, NoTrigger, RowFails, Kill, logs, Incident, StoreInv
<1>2. /\ Cooling' /\ RowsCovered' /\ RowsOfTriggers' /\ RowsInTime'
      /\ \A label, ts : Covered(label, ts)' <=> Covered(label, ts)
  BY <1>1, DetectionsStay
<1>3. answer' = NoIncident /\ pc' \notin Acquiring /\ pc' \notin Busy \cup {"count"}
  BY DEF Classify, LogPrediction, NoTrigger, RowFails, Kill, Gone, Goto, local, RowsInv, Answered,
     Acquiring, Busy, Layers
<1>4. HandTriggered' /\ TriggersOlder'
  BY <1>1, <1>3 DEF HandTriggered, TriggersOlder, BurstInv
<1>5. CASE NoTrigger
  <2>1. pc = "trigger" /\ pc' = "items" /\ hand' = hand /\ ~ ShouldAcquire
    BY <1>5 DEF NoTrigger, Goto, local
  <2>2. HandCovered'
    BY <1>1, <1>2, <2>1, NoTriggerCovered DEF HandCovered
  <2>3. hand.ts = now /\ now \in Nat /\ \A r \in DOMAIN items : items[r].ts <= now
    BY <1>1, <2>1, DetectionTypes DEF BurstInv, HandInTime, RowsInTime
  <2>4. HandInTime'
    BY <1>1, <2>1, <2>3 DEF HandInTime
  <2>5. QED
    BY <1>2, <1>4, <2>2, <2>4 DEF BurstInv
<1>6. CASE ~ NoTrigger
  <2>1. pc' \in {"prediction", "trigger", "down"} /\ (pc' = "trigger" => LogPrediction)
    BY <1>6 DEF Classify, LogPrediction, RowFails, Kill, Gone, Goto
  <2>2. pc' \notin Handling
    BY <2>1 DEF Handling, Acquiring, Busy, Layers
  <2>3. LogPrediction => hand'.ts = now
    BY <1>1, DetectionTypes DEF LogPrediction, Window
  <2>4. HandInTime' /\ HandCovered'
    BY <1>1, <2>1, <2>2, <2>3 DEF HandInTime, HandCovered
  <2>5. QED
    BY <1>2, <1>4, <2>4 DEF BurstInv
<1>7. QED
  BY <1>5, <1>6

(* Steps of the acquisition that keep the detections.                         *)
LEMMA BurstsOfAcquisition ==
  ASSUME StoreInv, RowsInv, BurstInv,
         \/ MakeDirectory \/ WriteMetadata \/ HashBundle \/ AppendEntry \/ AppendFails
         \/ \E missed \in Unreadable : HashSkips(missed)
         \/ CountRaises \/ WriteTiming
         \/ \E layer \in Layers :
              SaveLayer(layer) \/ \E left \in {"none", "part"} : LayerFails(layer, left)
         \/ \E left \in {"none", "part"} : CollectRaises(left)
  PROVE  BurstInv'
<1>1. UNCHANGED <<triggers, items, last, now, hand, answer>> /\ TypeInv
  BY DEF MakeDirectory, WriteMetadata, HashBundle, HashSkips, AppendEntry, AppendFails, CountRaises, WriteTiming,
         SaveLayer, LayerFails, CollectRaises, logs, local, StoreInv
<1>2. /\ Cooling' /\ RowsCovered' /\ RowsOfTriggers' /\ RowsInTime'
      /\ \A label, ts : Covered(label, ts)' <=> Covered(label, ts)
      /\ \A label, ts, i : OfTrigger(label, ts, i)' <=> OfTrigger(label, ts, i)
  BY <1>1, DetectionsStay
<1>3. /\ pc \in Acquiring /\ pc' \in Handling
      /\ pc' \in Busy \cup {"count"} => pc \in Busy \/ MakeDirectory
  BY AfterLayerPoints DEF MakeDirectory, WriteMetadata, HashBundle, HashSkips, AppendEntry, AppendFails, CountRaises,
     WriteTiming, SaveLayer, LayerFails, CollectRaises, Goto, Acquiring, Handling, Busy, Layers
<1>4. Incident \in Nat /\ Incident' = IF MakeDirectory THEN Incident + 1 ELSE Incident
  <2>1. CASE MakeDirectory
    <3> DEFINE b == [files |-> Blank, listed |-> {}]
    <3>1. bundles \in Seq(Bundle) /\ bundles' = Append(bundles, b)
      BY <1>1, <2>1, BundleTypes DEF MakeDirectory
    <3> HIDE DEF b
    <3>2. QED
      BY <2>1, <3>1 DEF Incident
  <2>2. CASE ~ MakeDirectory
    <3>1. CASE bundles' = bundles
      BY <1>1, <2>2, <3>1, BundleTypes DEF Incident
    <3>2. CASE bundles' # bundles
      <4>1. Incident' = Incident
        BY <2>2, <3>2, StoreOfLayers, StoreOfMetadata, StoreOfRaise
        DEF HashBundle, HashSkips, AppendEntry, AppendFails, CountRaises, WriteTiming, Incident
      <4>2. QED
        BY <1>1, <2>2, <4>1, BundleTypes
    <3>3. QED
      BY <3>1, <3>2
  <2>3. QED
    BY <2>1, <2>2
<1>5. HandInTime' /\ HandCovered'
  BY <1>1, <1>2, <1>3 DEF BurstInv, HandInTime, HandCovered, Handling, Acquiring, Busy, Layers
<1>6. HandTriggered'
  BY <1>1, <1>2, <1>3 DEF BurstInv, HandTriggered
<1>7. TriggersOlder'
  <2>1. \A t \in DOMAIN triggers : triggers[t].incident \in Nat /\ triggers[t].incident <= Incident
    BY <1>1, DetectionTypes DEF BurstInv, TriggersOlder, Detection
  <2>2. \A t \in DOMAIN triggers : pc \in Busy => triggers[t].incident < Incident
    BY DEF BurstInv, TriggersOlder
  <2>3. QED
    BY <1>1, <1>3, <1>4, <2>1, <2>2 DEF TriggersOlder
<1>8. QED
  BY <1>2, <1>5, <1>6, <1>7 DEF BurstInv

(* A detection that triggers covers itself.                                   *)
LEMMA BurstsOfTrigger ==
  ASSUME StoreInv, RowsInv, BurstInv, Trigger
  PROVE  BurstInv'
<1> DEFINE d == [label |-> hand.label, at |-> now, incident |-> NoIncident]
           n == Len(triggers)
<1>1. /\ pc = "trigger" /\ pc' = "directory" /\ triggers' = Append(triggers, d)
      /\ last' = [last EXCEPT ![hand.label] = now]
      /\ UNCHANGED <<items, now, hand, answer, bundles>> /\ TypeInv
  BY DEF Trigger, Goto, local, logs, StoreInv
<1>2. /\ triggers \in Seq(Detection) /\ DOMAIN triggers = 1..n /\ n \in Nat
      /\ now \in Nat /\ hand.label \in Labels /\ last \in [Labels -> Int] /\ hand.ts = now
      /\ d.label = hand.label /\ d.at = hand.ts /\ d.incident = NoIncident
  BY <1>1, DetectionTypes DEF Window, BurstInv, HandInTime
<1> HIDE DEF d, n
<1>3. /\ DOMAIN triggers' = 1..(n + 1) /\ Len(triggers') = n + 1 /\ triggers'[n + 1] = d
      /\ \A t \in 1..n : triggers'[t] = triggers[t]
  BY <1>1, <1>2 DEF n
<1>4. \A label, ts : Covered(label, ts) => Covered(label, ts)'
  BY <1>2, <1>3 DEF Covered
<1>5. \A label, ts, i : i # NoIncident /\ OfTrigger(label, ts, i) => OfTrigger(label, ts, i)'
  BY <1>2, <1>3 DEF OfTrigger
<1>6. Cooling'
  <2>1. ASSUME NEW l \in Labels, last'[l] # LongAgo
        PROVE  last'[l] <= now /\ \E t \in DOMAIN triggers' : triggers'[t].label = l /\ triggers'[t].at = last'[l]
    <3>1. CASE l = hand.label
      BY <1>1, <1>2, <1>3, <3>1
    <3>2. CASE l # hand.label
      <4>1. last'[l] = last[l]
        BY <1>1, <1>2, <3>2
      <4>2. QED
        BY <1>2, <1>3, <2>1, <4>1 DEF BurstInv, Cooling
    <3>3. QED
      BY <3>1, <3>2
  <2>2. QED
    BY <1>1, <2>1 DEF Cooling, LongAgo
<1>7. RowsCovered'
  BY <1>1, <1>4 DEF BurstInv, RowsCovered
<1>8. RowsOfTriggers'
  BY <1>1, <1>5 DEF BurstInv, RowsOfTriggers
<1>9. RowsInTime' /\ HandInTime'
  BY <1>1, <1>2 DEF BurstInv, RowsInTime, HandInTime
<1>10. HandCovered'
  <2>1. /\ n + 1 \in DOMAIN triggers' /\ hand' = hand
        /\ triggers'[n + 1].label = hand.label /\ triggers'[n + 1].at = hand.ts
    BY <1>1, <1>2, <1>3
  <2>2. hand.ts <= hand.ts /\ hand.ts - hand.ts < Cooldown
    BY <1>2, CooldownAssumption
  <2>3. Covered(hand.label, hand.ts)'
    BY <2>1, <2>2 DEF Covered
  <2>4. QED
    BY <1>1, <2>3 DEF HandCovered
<1>11. HandTriggered'
  BY <1>1, <1>2, <1>3 DEF HandTriggered, RowsInv, Answered
<1>12. TriggersOlder'
  <2>1. pc' \notin Busy \cup {"count"} /\ Incident' = Incident
    BY <1>1 DEF Busy, Layers, Incident
  <2>2. NoIncident <= Incident
    BY <1>1, DetectionTypes DEF NoIncident
  <2>3. QED
    BY <1>2, <1>3, <2>1, <2>2 DEF BurstInv, TriggersOlder
<1>13. QED
  BY <1>6, <1>7, <1>8, <1>9, <1>10, <1>11, <1>12 DEF BurstInv

(* The trigger of the window in hand is given the incident that came of it,   *)
(* and no row has named that one yet.                                         *)
LEMMA BurstsOfReturn ==
  ASSUME StoreInv, RowsInv, BurstInv, CollectReturns
  PROVE  BurstInv'
<1> DEFINE n == Len(triggers)
           d == [triggers[n] EXCEPT !.incident = Incident]
<1>1. /\ pc = "count" /\ pc' = "timing" /\ answer' = Incident
      /\ triggers' = [triggers EXCEPT ![n] = d]
      /\ UNCHANGED <<items, now, last, hand, bundles>> /\ TypeInv
  BY DEF CollectReturns, Goto, logs, StoreInv
<1>2. /\ triggers \in Seq(Detection) /\ DOMAIN triggers = 1..n /\ n \in Nat /\ Incident \in Nat
      /\ \A t \in DOMAIN triggers : triggers[t] \in Detection
  BY <1>1, DetectionTypes
<1>3. /\ triggers # <<>> /\ triggers[n].label = hand.label /\ triggers[n].at = hand.ts
  BY <1>1 DEF BurstInv, HandTriggered, Acquiring
<1>4. n \in 1..n
  BY <1>2, <1>3
<1>5. d.label = triggers[n].label /\ d.at = triggers[n].at /\ d.incident = Incident
  BY <1>2, <1>4 DEF Detection
<1> HIDE DEF d
<1>6. /\ DOMAIN triggers' = 1..n /\ triggers'[n] = d /\ Len(triggers') = n
      /\ \A t \in 1..n : t # n => triggers'[t] = triggers[t]
  <2>1. triggers' = [k \in 1..n |-> IF k = n THEN d ELSE triggers[k]]
    BY <1>1, <1>2
  <2> HIDE DEF n
  <2>2. Len(triggers') = n
    BY <1>2, <2>1
  <2>3. QED
    BY <1>2, <1>4, <2>1, <2>2
<1> HIDE DEF n
<1>7. \A t \in 1..n : triggers'[t].label = triggers[t].label /\ triggers'[t].at = triggers[t].at
  BY <1>5, <1>6
<1>8. \A label, ts : Covered(label, ts) => Covered(label, ts)'
  BY <1>2, <1>6, <1>7 DEF Covered
<1>9. \A label, ts, i : i # Incident /\ OfTrigger(label, ts, i) => OfTrigger(label, ts, i)'
  BY <1>2, <1>5, <1>6 DEF OfTrigger
<1>10. Cooling'
  BY <1>1, <1>2, <1>6, <1>7 DEF BurstInv, Cooling, LongAgo
<1>11. RowsCovered'
  BY <1>1, <1>8 DEF BurstInv, RowsCovered
<1>12. \A r \in DOMAIN items : items[r].incident # Incident
  <2>1. \A r \in DOMAIN items : items[r].incident < Incident /\ items[r].incident \in Nat
    BY <1>1, RowTypes DEF RowsInv, Older, Made
  <2>2. QED
    BY <1>2, <2>1
<1>13. RowsOfTriggers'
  BY <1>1, <1>9, <1>12 DEF BurstInv, RowsOfTriggers
<1>14. RowsInTime' /\ HandInTime'
  BY <1>1 DEF BurstInv, RowsInTime, HandInTime, Handling, Acquiring
<1>15. HandCovered'
  BY <1>1, <1>8 DEF BurstInv, HandCovered, Handling, Acquiring
<1>16. \A t \in 1..n : t # n => triggers[t].incident < Incident /\ triggers[t].incident \in Nat
  BY <1>1, <1>2 DEF BurstInv, TriggersOlder, Detection
<1>17. Incident' = Incident /\ pc' \notin Busy \cup {"count"}
  BY <1>1 DEF Incident, Busy, Layers
<1>18. HandTriggered'
  <2>1. OfTrigger(hand.label, hand.ts, Incident)'
    BY <1>1, <1>2, <1>3, <1>5, <1>6, <1>16, <1>17 DEF OfTrigger
  <2>2. triggers' # <<>>
    BY <1>4, <1>6
  <2>3. QED
    BY <1>1, <1>3, <1>5, <1>6, <1>17, <2>1, <2>2 DEF HandTriggered
<1>19. TriggersOlder'
  BY <1>2, <1>5, <1>6, <1>16, <1>17 DEF TriggersOlder
<1>20. QED
  BY <1>10, <1>11, <1>13, <1>14, <1>15, <1>18, <1>19 DEF BurstInv

LEMMA BurstsOfItems ==
  ASSUME StoreInv, RowsInv, BurstInv, WriteItems
  PROVE  BurstInv'
<1> DEFINE row == [label |-> hand.label, sure |-> hand.sure, joined |-> hand.joined,
                   ts |-> hand.ts, incident |-> answer]
           n == Len(items)
<1>1. /\ pc = "items" /\ pc' = "idle" /\ answer' = NoIncident /\ items' = Append(items, row)
      /\ UNCHANGED <<triggers, now, last, bundles>> /\ TypeInv
  BY DEF WriteItems, Goto, StoreInv
<1>2. /\ row.label = hand.label /\ row.sure = hand.sure /\ row.ts = hand.ts /\ row.incident = answer
  OBVIOUS
<1>3. n \in Nat /\ DOMAIN items = 1..n /\ items \in Seq(Row)
  BY <1>1, RowTypes
<1> HIDE DEF row, n
<1>4. /\ DOMAIN items' = 1..(n + 1) /\ items'[n + 1] = row /\ \A r \in 1..n : items'[r] = items[r]
  BY <1>1, <1>3 DEF n
<1>5. /\ \A label, ts : Covered(label, ts)' <=> Covered(label, ts)
      /\ \A label, ts, i : OfTrigger(label, ts, i)' <=> OfTrigger(label, ts, i)
  BY <1>1 DEF Covered, OfTrigger
<1>6. Cooling'
  BY <1>1 DEF BurstInv, Cooling, LongAgo
<1>7. RowsCovered'
  <2>1. \A r \in 1..(n + 1) : items'[r].label # Benign /\ items'[r].sure => Covered(items'[r].label, items'[r].ts)
    BY <1>1, <1>2, <1>3, <1>4 DEF BurstInv, RowsCovered, HandCovered, Handling
  <2>2. QED
    BY <1>4, <1>5, <2>1 DEF RowsCovered
<1>8. RowsOfTriggers'
  <2>1. \A r \in 1..(n + 1) : items'[r].incident # NoIncident =>
          OfTrigger(items'[r].label, items'[r].ts, items'[r].incident)
    BY <1>2, <1>3, <1>4 DEF BurstInv, RowsOfTriggers, HandTriggered
  <2>2. QED
    BY <1>4, <1>5, <2>1 DEF RowsOfTriggers
<1>9. RowsInTime'
  <2>1. hand.ts <= now /\ \A r \in 1..n : items[r].ts <= hand.ts
    BY <1>1, <1>3, DetectionTypes DEF BurstInv, HandInTime, Handling, Window
  <2>2. hand.ts \in Nat
    BY <1>1, DetectionTypes DEF Window
  <2>3. ASSUME NEW r \in 1..(n + 1), NEW s \in 1..(n + 1), r <= s PROVE items'[r].ts <= items'[s].ts
    <3>1. CASE s \in 1..n
      <4>1. r \in 1..n
        BY <1>3, <2>3, <3>1
      <4>2. QED
        BY <1>3, <1>4, <2>3, <3>1, <4>1 DEF BurstInv, RowsInTime
    <3>2. CASE s = n + 1
      <4>1. items'[s].ts = hand.ts /\ (r \in 1..n \/ r = n + 1)
        BY <1>2, <1>3, <1>4, <3>2
      <4>2. QED
        BY <1>2, <1>4, <2>1, <2>2, <4>1
    <3>3. QED
      BY <1>3, <3>1, <3>2
  <2>4. \A r \in 1..(n + 1) : items'[r].ts <= now
    BY <1>2, <1>3, <1>4, <2>1 DEF BurstInv, RowsInTime
  <2>5. QED
    BY <1>1, <1>4, <2>3, <2>4 DEF RowsInTime
<1>10. pc' \notin Handling /\ pc' \notin Acquiring /\ pc' # "trigger" /\ Incident' = Incident
       /\ pc' \notin Busy \cup {"count"}
  BY <1>1 DEF Handling, Acquiring, Busy, Layers, Incident
<1>11. HandInTime' /\ HandCovered' /\ HandTriggered'
  BY <1>1, <1>10 DEF HandInTime, HandCovered, HandTriggered
<1>12. TriggersOlder'
  BY <1>1, <1>10 DEF BurstInv, TriggersOlder
<1>13. QED
  BY <1>6, <1>7, <1>8, <1>9, <1>11, <1>12 DEF BurstInv

(* A new process has no cooldown running, and time only moves on where no     *)
(* detection is being timed.                                                  *)
LEMMA BurstsOfProcess ==
  ASSUME StoreInv, RowsInv, BurstInv, Restart \/ Tick \/ UNCHANGED vars
  PROVE  BurstInv'
<1>1. UNCHANGED <<triggers, items, hand, answer, bundles>> /\ Incident' = Incident /\ TypeInv
  BY DEF Restart, Tick, vars, local, logs, Incident, StoreInv
<1>2. /\ \A label, ts : Covered(label, ts)' <=> Covered(label, ts)
      /\ \A label, ts, i : OfTrigger(label, ts, i)' <=> OfTrigger(label, ts, i)
  BY <1>1 DEF Covered, OfTrigger
<1>3. RowsCovered'
  BY <1>1, <1>2 DEF BurstInv, RowsCovered
<1>4. RowsOfTriggers'
  BY <1>1, <1>2 DEF BurstInv, RowsOfTriggers
<1>5. CASE Restart
  <2>1. pc' = "idle" /\ now' = now /\ \A l \in Labels : last'[l] = LongAgo
    BY <1>5 DEF Restart, Goto
  <2>2. Cooling'
    BY <2>1 DEF Cooling, LongAgo
  <2>3. pc' \notin Handling /\ pc' \notin Acquiring /\ pc' \notin Busy \cup {"count"}
    BY <2>1 DEF Handling, Acquiring, Busy, Layers
  <2>4. HandInTime' /\ HandCovered' /\ HandTriggered' /\ RowsInTime'
    BY <1>1, <1>2, <2>1, <2>3 DEF BurstInv, HandInTime, HandCovered, HandTriggered, RowsInTime
  <2>5. TriggersOlder'
    BY <1>1, <2>3 DEF BurstInv, TriggersOlder
  <2>6. QED
    BY <1>3, <1>4, <2>2, <2>4, <2>5 DEF BurstInv
<1>6. CASE Tick \/ UNCHANGED vars
  <2>1. pc' = pc /\ last' = last /\ now \in Nat /\ now' \in Nat /\ now <= now' /\ (pc = "trigger" => now' = now)
    BY <1>1, <1>6, DetectionTypes DEF Tick, vars
  <2>2. /\ \A l \in Labels : last[l] \in Int
        /\ hand.ts \in Nat /\ \A r \in DOMAIN items : items[r].ts \in Nat
    BY <1>1, DetectionTypes DEF Window, Row
  <2>3. Cooling'
    BY <1>1, <2>1, <2>2 DEF BurstInv, Cooling, LongAgo
  <2>4. RowsInTime' /\ HandInTime'
    BY <1>1, <2>1, <2>2 DEF BurstInv, RowsInTime, HandInTime
  <2>5. HandCovered' /\ HandTriggered' /\ TriggersOlder'
    BY <1>1, <1>2, <2>1 DEF BurstInv, HandCovered, HandTriggered, TriggersOlder
  <2>6. QED
    BY <1>3, <1>4, <2>3, <2>4, <2>5 DEF BurstInv
<1>7. QED
  BY <1>5, <1>6

LEMMA NextBurst == StoreInv /\ RowsInv /\ BurstInv /\ [Next]_vars => BurstInv'
<1> SUFFICES ASSUME StoreInv, RowsInv, BurstInv, [Next]_vars PROVE BurstInv'
  OBVIOUS
<1>1. CASE \/ Classify(Benign, TRUE, TRUE)
           \/ \E label \in Labels \ {Benign}, sure, joined \in BOOLEAN : Classify(label, sure, joined)
           \/ Kill \/ Restart \/ Tick \/ UNCHANGED vars
  BY <1>1, LabelAssumption, BurstsOfHandler, BurstsOfProcess
<1>2. CASE Handle
  BY <1>2, BurstsOfHandler, BurstsOfAcquisition, BurstsOfTrigger, BurstsOfReturn, BurstsOfItems DEF Handle
<1>3. CASE Fail
  BY <1>3, BurstsOfHandler, BurstsOfAcquisition DEF Fail
<1>4. QED
  BY <1>1, <1>2, <1>3 DEF Next

(* A row whose time is within the cooldown of a row of the same burst's label *)
(* is in that burst.                                                          *)
LEMMA SameBurst ==
  ASSUME TypeInv, RowsInTime, NEW i \in BurstStarts, NEW j \in BurstFrom(i), NEW r \in SameLabel(i),
         items[r].ts <= items[j].ts, items[j].ts - items[r].ts < Cooldown
  PROVE  r \in BurstFrom(i)
<1>1. /\ i \in Scored /\ StartsBurst(i)
      /\ j \in SameLabel(i) /\ j >= i
      /\ \A k \in SameLabel(i) : i < k /\ k <= j => ~ StartsBurst(k)
  BY DEF BurstStarts, BurstFrom
<1>2. \A x \in Scored : x \in Nat /\ x \in DOMAIN items /\ items[x].ts \in Nat
  <2>1. items \in Seq(Row)
    BY RowTypes
  <2>2. \A x \in DOMAIN items : x \in Nat
    BY <2>1
  <2>3. \A x \in DOMAIN items : items[x].ts \in Nat
    BY DetectionTypes DEF Row
  <2>4. QED
    BY <2>2, <2>3 DEF Scored
<1>3. \A x \in SameLabel(i) : x \in Scored /\ items[x].label = items[i].label /\ SameLabel(x) = SameLabel(i)
  BY DEF SameLabel
<1>4. Cooldown \in Nat
  BY CooldownAssumption
<1>5. ASSUME NEW k \in SameLabel(i), NEW m \in SameLabel(i), m < k, items[k].ts - items[m].ts <= Cooldown
      PROVE  ~ StartsBurst(k)
  BY <1>2, <1>3, <1>4, <1>5 DEF StartsBurst
<1>6. i \in SameLabel(i)
  BY <1>1 DEF SameLabel
<1>7. r >= i
  <2> SUFFICES ASSUME r < i PROVE FALSE
    BY <1>1, <1>2, <1>3
  <2>1. items[i].ts <= items[j].ts
    BY <1>1, <1>2, <1>3 DEF RowsInTime
  <2>2. items[i].ts - items[r].ts <= Cooldown
    BY <1>1, <1>2, <1>3, <1>4, <2>1
  <2>3. QED
    BY <1>1, <1>5, <1>6, <2>2
<1>8. ASSUME NEW k \in SameLabel(i), i < k, k <= r PROVE ~ StartsBurst(k)
  <2>1. CASE k <= j
    BY <1>1, <1>8, <2>1
  <2>2. CASE j < k
    <3>1. items[j].ts <= items[k].ts /\ items[k].ts <= items[r].ts
      BY <1>1, <1>2, <1>3, <1>8, <2>2 DEF RowsInTime
    <3>2. items[k].ts - items[j].ts <= Cooldown
      BY <1>1, <1>2, <1>3, <1>4, <3>1
    <3>3. QED
      BY <1>1, <1>5, <2>2, <3>2
  <2>3. QED
    BY <1>1, <1>2, <1>3, <2>1, <2>2
<1>9. QED
  BY <1>7, <1>8 DEF BurstFrom

(* Sure detections of a burst without evidence fall within the cooldown of a  *)
(* trigger whose evidence failed or whose row is not scored, for any cooldown *)
(* and any number of windows, failures and kills.                             *)
THEOREM BurstsAlwaysGetEvidence == Spec => []BurstsGetEvidence
<1>1. Spec => []RowsInv
  BY InitRows, NextRows, StoreAlways, PTL DEF Spec
<1>2. Spec => []BurstInv
  BY <1>1, InitBurst, NextBurst, StoreAlways, PTL DEF Spec
<1>3. StoreInv /\ BurstInv => BurstsGetEvidence
  <2> SUFFICES ASSUME StoreInv, BurstInv, NEW i \in BurstStarts, ~ HasEvidence(BurstFrom(i)),
                      NEW j \in BurstFrom(i), items[j].sure
               PROVE  \E t \in DOMAIN triggers :
                        /\ triggers[t].label = items[j].label
                        /\ triggers[t].at <= items[j].ts /\ items[j].ts - triggers[t].at < Cooldown
                        /\ ~ \E r \in Scored : items[r].incident = triggers[t].incident
                                              /\ triggers[t].incident \in Chained
    BY DEF BurstsGetEvidence
  <2>1. TypeInv
    BY DEF StoreInv
  <2>2. j \in Scored /\ items[j].label = items[i].label /\ j \in DOMAIN items /\ items[j].label # Benign
    BY DEF BurstFrom, SameLabel, Scored
  <2>3. PICK t \in DOMAIN triggers : /\ triggers[t].label = items[j].label
                                     /\ triggers[t].at <= items[j].ts
                                     /\ items[j].ts - triggers[t].at < Cooldown
    BY <2>2 DEF BurstInv, RowsCovered, Covered
  <2>4. ASSUME NEW r \in Scored, items[r].incident = triggers[t].incident, triggers[t].incident \in Chained
        PROVE  FALSE
    <3>1. r \in DOMAIN items /\ items[r].incident # NoIncident
      BY <2>4 DEF Scored, Chained
    <3>2. items[r].label = triggers[t].label /\ items[r].ts = triggers[t].at
      BY <2>4, <3>1 DEF BurstInv, RowsOfTriggers, OfTrigger
    <3>3. r \in SameLabel(i)
      BY <2>2, <2>3, <3>2 DEF SameLabel
    <3>4. r \in BurstFrom(i)
      BY <2>1, <2>3, <3>2, <3>3, SameBurst DEF BurstInv
    <3>5. QED
      BY <2>4, <3>4 DEF HasEvidence
  <2>5. QED
    BY <2>3, <2>4
<1>4. QED
  BY <1>2, <1>3, StoreAlways, PTL
-----------------------------------------------------------------------------
(* The inductive invariant of the losses: what the bundles lack so far.  Of   *)
(* the bundle in hand only what its acquisition is past is counted, and a     *)
(* torn line is one entry more that will be missing.                          *)
Decided(point) ==
  IF point \in Layers THEN Layers \ Remaining(point)
  ELSE IF point = "metadata" THEN Layers
  ELSE IF point \in {"hash", "append"} THEN Files
  ELSE Expected

IsLost(i, f) == f \in Lacks(i) /\ (i = Incident => f \in Decided(pc))
Losses == {x \in (1..Incident) \X Expected : IsLost(x[1], x[2])}
Torn == IF torn THEN 1 ELSE 0

LossInv == Cardinality(Losses) + Torn <= 2 * faults + 6 * kills

(* A finite set that gains an element, two, or any of a given number.         *)
LEMMA GainsOne ==
  ASSUME NEW S, IsFiniteSet(S), NEW a, NEW T \in SUBSET (S \cup {a})
  PROVE  Cardinality(T) <= Cardinality(S) + 1 /\ Cardinality(T) \in Nat
<1>1. /\ IsFiniteSet(S \cup {a}) /\ Cardinality(S) \in Nat
      /\ Cardinality(S \cup {a}) <= Cardinality(S) + 1
  BY FS_AddElement, FS_CardinalityType
<1>2. IsFiniteSet(T) /\ Cardinality(T) <= Cardinality(S \cup {a})
  BY <1>1, FS_Subset
<1>3. Cardinality(T) \in Nat /\ Cardinality(S \cup {a}) \in Nat
  BY <1>1, <1>2, FS_CardinalityType
<1>4. QED
  BY <1>1, <1>2, <1>3

LEMMA GainsSome ==
  ASSUME NEW S, IsFiniteSet(S), NEW D, IsFiniteSet(D), NEW T \in SUBSET (S \cup D)
  PROVE  Cardinality(T) <= Cardinality(S) + Cardinality(D) /\ Cardinality(T) \in Nat
<1>1. /\ IsFiniteSet(S \cup D)
      /\ Cardinality(S \cup D) = Cardinality(S) + Cardinality(D) - Cardinality(S \cap D)
  BY FS_Union
<1>2. IsFiniteSet(S \cap D)
  BY FS_Subset
<1>3. IsFiniteSet(T) /\ Cardinality(T) <= Cardinality(S \cup D)
  BY <1>1, FS_Subset
<1>4. /\ Cardinality(T) \in Nat /\ Cardinality(S \cup D) \in Nat /\ Cardinality(S) \in Nat
      /\ Cardinality(D) \in Nat /\ Cardinality(S \cap D) \in Nat
  BY <1>1, <1>2, <1>3, FS_CardinalityType
<1>5. QED
  BY <1>1, <1>3, <1>4

LEMMA SixExpected == IsFiniteSet(Expected) /\ Cardinality(Expected) = 6
<1> DEFINE S2 == {"network", "processes"}
           S3 == S2 \cup {"memory"}
           S4 == S3 \cup {"syslog"}
           S5 == S4 \cup {"metadata"}
           S6 == S5 \cup {"chain_of_custody"}
<1>1. IsFiniteSet({"network"}) /\ Cardinality({"network"}) = 1
  BY FS_Singleton
<1>2. S2 = {"network"} \cup {"processes"} /\ "processes" \notin {"network"}
  OBVIOUS
<1>3. IsFiniteSet(S2) /\ Cardinality(S2) = 2
  BY <1>1, <1>2, FS_AddElement
<1>4. "memory" \notin S2 /\ "syslog" \notin S3 /\ "metadata" \notin S4 /\ "chain_of_custody" \notin S5
  OBVIOUS
<1>5. Expected = S6
  BY DEF Expected, Files, Layers
<1> HIDE DEF S2
<1>6. IsFiniteSet(S3) /\ Cardinality(S3) = 3
  BY <1>3, <1>4, FS_AddElement
<1> HIDE DEF S3
<1>7. IsFiniteSet(S4) /\ Cardinality(S4) = 4
  BY <1>4, <1>6, FS_AddElement
<1> HIDE DEF S4
<1>8. IsFiniteSet(S5) /\ Cardinality(S5) = 5
  BY <1>4, <1>7, FS_AddElement
<1> HIDE DEF S5
<1>9. IsFiniteSet(S6) /\ Cardinality(S6) = 6
  BY <1>4, <1>8, FS_AddElement
<1>10. QED
  BY <1>5, <1>9

LEMMA LossesFinite ==
  ASSUME TypeInv
  PROVE  IsFiniteSet(Losses) /\ Cardinality(Losses) \in Nat /\ Incident \in Nat
<1>1. Incident \in Nat
  BY BundleTypes
<1>2. IsFiniteSet(1..Incident)
  BY <1>1, FS_Interval
<1>3. IsFiniteSet((1..Incident) \X Expected)
  BY <1>2, SixExpected, FS_Product
<1>4. Losses \in SUBSET ((1..Incident) \X Expected)
  BY DEF Losses
<1>5. IsFiniteSet(Losses)
  BY <1>3, <1>4, FS_Subset
<1>6. QED
  BY <1>1, <1>5, FS_CardinalityType

(* What a step adds to the losses has to be paid for by a failure or a kill.  *)
LEMMA Paid ==
  ASSUME TypeInv, TypeInv', LossInv, UNCHANGED <<faults, kills>>, Losses' \subseteq Losses,
         torn' => torn
  PROVE  LossInv'
<1>1. IsFiniteSet(Losses) /\ Cardinality(Losses) \in Nat
  BY LossesFinite
<1>2. Cardinality(Losses') <= Cardinality(Losses) /\ Cardinality(Losses') \in Nat
  BY <1>1, FS_Subset, FS_CardinalityType
<1>3. Torn' <= Torn /\ Torn \in {0, 1} /\ Torn' \in {0, 1}
  BY DEF Torn
<1>4. faults \in Nat /\ kills \in Nat
  BY DEF TypeInv, TypeOK
<1>5. QED
  BY <1>1, <1>2, <1>3, <1>4 DEF LossInv

LEMMA PaidByFailure ==
  ASSUME TypeInv, TypeInv', LossInv, faults' = faults + 1, kills' = kills, NEW a, NEW b,
         \/ Losses' \subseteq Losses \cup {a}
         \/ Losses' \subseteq (Losses \cup {a}) \cup {b} /\ torn' = torn
  PROVE  LossInv'
<1>1. IsFiniteSet(Losses) /\ Cardinality(Losses) \in Nat
  BY LossesFinite
<1>2. Torn \in {0, 1} /\ Torn' \in {0, 1} /\ (torn' = torn => Torn' = Torn)
  BY DEF Torn
<1>3. faults \in Nat /\ kills \in Nat
  BY DEF TypeInv, TypeOK
<1>4. CASE Losses' \subseteq Losses \cup {a}
  <2>1. Cardinality(Losses') <= Cardinality(Losses) + 1 /\ Cardinality(Losses') \in Nat
    BY <1>1, <1>4, GainsOne
  <2>2. QED
    BY <1>1, <1>2, <1>3, <2>1 DEF LossInv
<1>5. CASE Losses' \subseteq (Losses \cup {a}) \cup {b} /\ torn' = torn
  <2>1. IsFiniteSet(Losses \cup {a}) /\ Cardinality(Losses \cup {a}) <= Cardinality(Losses) + 1
    BY <1>1, FS_AddElement
  <2>2. Cardinality(Losses') <= Cardinality(Losses \cup {a}) + 1 /\ Cardinality(Losses') \in Nat
    BY <1>5, <2>1, GainsOne
  <2>3. Cardinality(Losses \cup {a}) \in Nat
    BY <2>1, FS_CardinalityType
  <2>4. QED
    BY <1>1, <1>2, <1>3, <1>5, <2>1, <2>2, <2>3 DEF LossInv
<1>6. QED
  BY <1>4, <1>5

(* Where nothing is written, what the bundles lack stays.                     *)
LEMMA LacksStay ==
  ASSUME UNCHANGED <<bundles, entries>>
  PROVE  Incident' = Incident /\ \A i : Lacks(i)' = Lacks(i)
BY DEF Incident, Lacks, Chained

LEMMA InitLoss == Init => LossInv
<1> SUFFICES ASSUME Init PROVE LossInv
  OBVIOUS
<1>1. bundles = <<>> /\ torn = FALSE /\ faults = 0 /\ kills = 0
  BY DEF Init
<1>2. Incident = 0
  BY <1>1 DEF Incident
<1>3. Losses = {}
  BY <1>2 DEF Losses
<1>4. Cardinality(Losses) = 0
  BY <1>3, FS_EmptySet
<1>5. QED
  BY <1>1, <1>4 DEF LossInv, Torn

(* The steps that lose nothing and write no file that is looked for.          *)
LEMMA LossOfQuietSteps ==
  ASSUME StoreInv, LossInv,
         \/ \E label \in Labels, sure, joined \in BOOLEAN : Classify(label, sure, joined)
         \/ LogPrediction \/ NoTrigger \/ Trigger \/ WriteTiming \/ WriteItems
         \/ HashBundle \/ CollectReturns \/ CountRaises
         \/ \E missed \in Unreadable : HashSkips(missed)
         \/ Restart \/ Tick \/ UNCHANGED vars \/ RowFails
  PROVE  LossInv'
<1>1. UNCHANGED <<bundles, entries, torn, kills>> /\ TypeInv /\ TypeInv'
  BY TypeOfQuietSteps DEF Classify, LogPrediction, NoTrigger, Trigger, WriteTiming, WriteItems, HashBundle,
         CollectReturns, CountRaises, HashSkips, RowFails, Restart, Tick, vars, custody, bounds, StoreInv
<1>2. pc' = pc \/ (pc = "hash" /\ pc' = "append")
      \/ (pc \notin Busy /\ pc' \notin Busy)
  BY DEF Classify, LogPrediction, NoTrigger, Trigger, WriteTiming, WriteItems, HashBundle,
         CollectReturns, CountRaises, HashSkips, RowFails, Restart, Tick, vars, Gone, Goto, Busy, Layers
<1>3. Decided(pc') = Decided(pc)
  BY <1>2 DEF Decided, Busy, Layers
<1>4. Losses' = Losses
  BY <1>1, <1>3, LacksStay DEF Losses, IsLost
<1>5. CASE RowFails \/ \E missed \in Unreadable : HashSkips(missed)
  <2>1. faults' = faults + 1
    BY <1>5 DEF RowFails, HashSkips
  <2>2. QED
    BY <1>1, <1>4, <2>1, PaidByFailure
<1>6. CASE ~ (RowFails \/ \E missed \in Unreadable : HashSkips(missed))
  <2>1. faults' = faults
    BY <1>6 DEF Classify, LogPrediction, NoTrigger, Trigger, WriteTiming, WriteItems, HashBundle,
         CollectReturns, CountRaises, Restart, Tick, vars, bounds
  <2>2. QED
    BY <1>1, <1>4, <2>1, Paid
<1>7. QED
  BY <1>5, <1>6

(* A kill costs at most the six things of the bundle in hand.                 *)
LEMMA LossOfKill ==
  ASSUME StoreInv, LossInv, Kill
  PROVE  LossInv'
<1>1. UNCHANGED <<bundles, entries, torn, faults>> /\ kills' = kills + 1 /\ TypeInv /\ TypeInv'
  BY TypeOfQuietSteps DEF Kill, custody, StoreInv
<1> DEFINE D == {Incident} \X Expected
<1>2. Losses' \subseteq Losses \cup D
  BY <1>1, LacksStay DEF Losses, IsLost
<1>3. IsFiniteSet(D) /\ Cardinality(D) = 6
  <2>1. IsFiniteSet({Incident}) /\ Cardinality({Incident}) = 1
    BY FS_Singleton
  <2>2. IsFiniteSet(D) /\ Cardinality(D) = 1 * 6
    BY <2>1, SixExpected, FS_Product
  <2>3. QED
    BY <2>2
<1> HIDE DEF D
<1>4. IsFiniteSet(Losses) /\ Cardinality(Losses) \in Nat
  BY <1>1, LossesFinite
<1>5. Cardinality(Losses') <= Cardinality(Losses) + 6 /\ Cardinality(Losses') \in Nat
  BY <1>2, <1>3, <1>4, GainsSome
<1>6. Torn' = Torn /\ Torn \in {0, 1} /\ faults \in Nat /\ kills \in Nat
  BY <1>1 DEF Torn, TypeInv, TypeOK
<1>7. QED
  BY <1>1, <1>4, <1>5, <1>6 DEF LossInv

LEMMA LossOfDirectory ==
  ASSUME StoreInv, LossInv, MakeDirectory
  PROVE  LossInv'
<1> DEFINE b == [files |-> Blank, listed |-> {}]
<1>1. /\ pc = "directory" /\ pc' = "network" /\ bundles' = Append(bundles, b)
      /\ UNCHANGED <<entries, torn, faults, kills>> /\ TypeInv /\ TypeInv'
  BY TypeOfWrites DEF MakeDirectory, Goto, custody, bounds, StoreInv
<1>2. bundles \in Seq(Bundle) /\ Incident = Len(bundles) /\ Incident \in Nat
  BY <1>1, BundleTypes
<1> HIDE DEF b
<1>3. Incident' = Incident + 1 /\ \A i \in 1..Incident : bundles'[i] = bundles[i]
  BY <1>1, <1>2 DEF Incident
<1>4. \A i \in 1..Incident : Lacks(i)' = Lacks(i)
  BY <1>1, <1>3 DEF Lacks, Chained
<1>5. Decided(pc') = {} /\ Decided(pc) = Expected
  BY <1>1 DEF Decided, Layers, Remaining
<1>6. Losses' \subseteq Losses
  <2>1. ASSUME NEW i \in 1..(Incident + 1), NEW f \in Expected, IsLost(i, f)'
        PROVE  i \in 1..Incident /\ IsLost(i, f)
    <3>1. i \in 1..Incident
      BY <1>2, <1>3, <1>5, <2>1 DEF IsLost
    <3>2. QED
      BY <1>4, <1>5, <2>1, <3>1 DEF IsLost
  <2>2. QED
    BY <1>3, <2>1 DEF Losses
<1>7. QED
  BY <1>1, <1>6, Paid

(* The bundle in hand is written to, and the others lack what they lacked.    *)
LEMMA OthersLack ==
  ASSUME TypeInv, TypeInv', Incident' = Incident, entries' = entries, NEW D \in SUBSET Expected,
         \A i \in 1..Incident : i # Incident => bundles'[i] = bundles[i],
         \A f \in Expected : Incident \in 1..Incident /\ f \in Lacks(Incident)' /\ f \in Decided(pc') =>
           f \in D \/ (f \in Lacks(Incident) /\ f \in Decided(pc))
  PROVE  \A x \in Losses' : x \in Losses \/ (x[1] = Incident /\ x[2] \in D /\ x = <<x[1], x[2]>>)
<1>1. \A i \in 1..Incident : i # Incident => Lacks(i)' = Lacks(i)
  BY DEF Lacks, Chained
<1>2. ASSUME NEW i \in 1..Incident, NEW f \in Expected, IsLost(i, f)'
      PROVE  IsLost(i, f) \/ (i = Incident /\ f \in D)
  <2>1. f \in Lacks(i)' /\ (i = Incident => f \in Decided(pc'))
    BY <1>2 DEF IsLost
  <2>2. CASE i # Incident
    BY <1>1, <2>1, <2>2 DEF IsLost
  <2>3. CASE i = Incident
    <3>1. f \in D \/ (f \in Lacks(Incident) /\ f \in Decided(pc))
      BY <2>1, <2>3
    <3>2. QED
      BY <2>3, <3>1 DEF IsLost
  <2>4. QED
    BY <2>2, <2>3
<1>3. ASSUME NEW x \in Losses'
      PROVE  x \in Losses \/ (x[1] = Incident /\ x[2] \in D /\ x = <<x[1], x[2]>>)
  <2>1. x \in (1..Incident) \X Expected /\ IsLost(x[1], x[2])'
    BY DEF Losses
  <2>2. x[1] \in 1..Incident /\ x[2] \in Expected /\ x = <<x[1], x[2]>>
    BY <2>1
  <2>3. IsLost(x[1], x[2]) \/ (x[1] = Incident /\ x[2] \in D)
    BY <1>2, <2>1, <2>2
  <2>4. CASE IsLost(x[1], x[2])
    <3>1. x \in (1..Incident) \X Expected
      BY <2>1
    <3>2. QED
      BY <2>4, <3>1 DEF Losses
  <2>5. CASE x[1] = Incident /\ x[2] \in D
    BY <2>2, <2>5
  <2>6. QED
    BY <2>3, <2>4, <2>5
<1>4. QED
  BY <1>3

LEMMA LacksFacts ==
  /\ \A i : \A f \in Files : f \in Lacks(i) <=> bundles[i].files[f] = "none"
  /\ \A i : \A f \in Files : f \in Lacks(i)' <=> bundles'[i].files[f] = "none"
  /\ \A i : "chain_of_custody" \in Lacks(i) <=> i \notin Chained
  /\ \A i : "chain_of_custody" \in Lacks(i)' <=> i \notin Chained'
  /\ Expected = Files \cup {"chain_of_custody"} /\ "chain_of_custody" \notin Files
<1>1. "chain_of_custody" \notin Files
  BY DEF Files, Layers
<1>2. QED
  BY <1>1 DEF Lacks, Expected

(* What the acquisition is past, point by point.                              *)
LEMMA DecidedFacts ==
  /\ \A layer \in Layers : /\ Decided(AfterLayer[layer]) = Decided(layer) \cup {layer}
                           /\ "chain_of_custody" \notin Decided(AfterLayer[layer])
  /\ Decided("metadata") = Layers /\ Decided("hash") = Files /\ Decided("append") = Files
  /\ \A point \in {"directory", "count", "timing", "items"} : Decided(point) = Expected
  /\ Files = Layers \cup {"metadata"} /\ "metadata" \notin Layers
<1>1. ASSUME NEW layer \in Layers
      PROVE  /\ Decided(AfterLayer[layer]) = Decided(layer) \cup {layer}
             /\ "chain_of_custody" \notin Decided(AfterLayer[layer])
  <2> USE DEF Layers, Decided, Remaining, AfterLayer
  <2>1. CASE layer = "network"
    BY <2>1
  <2>2. CASE layer = "processes"
    BY <2>2
  <2>3. CASE layer = "memory"
    BY <2>3
  <2>4. CASE layer = "syslog"
    BY <2>4
  <2>5. QED
    BY <2>1, <2>2, <2>3, <2>4
<1>2. QED
  BY <1>1 DEF Layers, Files, Decided

LEMMA LossOfLayers ==
  ASSUME StoreInv, LossInv, NEW layer \in Layers,
         \/ SaveLayer(layer)
         \/ \E left \in {"none", "part"} : LayerFails(layer, left)
  PROVE  LossInv'
<1>1. TypeInv /\ TypeInv' /\ StoreInv
  BY TypeOfWrites DEF StoreInv
<1>2. PICK c \in {"none", "part", "whole"} :
        /\ Put(layer, c) /\ pc = layer /\ pc' = AfterLayer[layer] /\ entries' = entries
        /\ \/ c = "whole" /\ faults' = faults
           \/ faults' = faults + 1
        /\ UNCHANGED <<torn, kills>>
  BY DEF SaveLayer, LayerFails, Goto, custody, bounds
<1>3. layer \in Files /\ pc \in Busy
  BY <1>2 DEF Files, Busy
<1>4. /\ bundles \in Seq(Bundle) /\ bundles # <<>> /\ Incident = Len(bundles) /\ Incident \in 1..Incident
  BY <1>1, <1>3, BundleTypes DEF Made, TypeInv
<1>5. /\ Incident' = Incident /\ bundles'[Incident].files[layer] = c
      /\ \A g \in Files \ {layer} : bundles'[Incident].files[g] = bundles[Incident].files[g]
  BY <1>1, <1>2, <1>3, StoreOfPut
<1>6. \A i \in 1..Incident : i # Incident => bundles'[i] = bundles[i]
  BY <1>2, <1>3, <1>4, PutFacts
<1> DEFINE D == IF c = "none" THEN {layer} ELSE {}
<1>7. \A f \in Expected : f \in Lacks(Incident)' /\ f \in Decided(pc') =>
        f \in D \/ (f \in Lacks(Incident) /\ f \in Decided(pc))
  <2> SUFFICES ASSUME NEW f \in Expected, f \in Lacks(Incident)', f \in Decided(pc')
               PROVE  f \in D \/ (f \in Lacks(Incident) /\ f \in Decided(pc))
    OBVIOUS
  <2>1. f \in Files /\ bundles'[Incident].files[f] = "none" /\ f \in Decided(layer) \cup {layer}
    BY <1>2, <1>5, LacksFacts, DecidedFacts
  <2>2. CASE f = layer
    BY <1>5, <2>1, <2>2
  <2>3. CASE f # layer
    BY <1>2, <1>5, <2>1, <2>3, LacksFacts
  <2>4. QED
    BY <2>2, <2>3
<1>8. D \in SUBSET Expected
  BY <1>3 DEF Expected
<1>9. \A x \in Losses' : x \in Losses \/ (x[1] = Incident /\ x[2] \in D /\ x = <<x[1], x[2]>>)
  <2> HIDE DEF D
  <2>1. QED
    BY <1>1, <1>2, <1>5, <1>6, <1>7, <1>8, OthersLack
<1>10. CASE c = "whole" /\ faults' = faults
  <2>1. Losses' \subseteq Losses
    BY <1>9, <1>10
  <2>2. QED
    BY <1>1, <1>2, <1>10, <2>1, Paid
<1>11. CASE faults' = faults + 1
  <2>1. Losses' \subseteq Losses \cup {<<Incident, layer>>}
    BY <1>9
  <2>2. QED
    BY <1>1, <1>2, <1>11, <2>1, PaidByFailure
<1>12. QED
  BY <1>2, <1>10, <1>11

LEMMA LossOfMetadata ==
  ASSUME StoreInv, LossInv, WriteMetadata
  PROVE  LossInv'
<1>1. /\ TypeInv /\ TypeInv' /\ pc = "metadata" /\ pc' = "hash"
      /\ UNCHANGED <<entries, torn, faults, kills>>
  BY TypeOfWrites DEF StoreInv, WriteMetadata, Goto, custody, bounds
<1>2. /\ bundles \in Seq(Bundle) /\ Incident = Len(bundles) /\ Incident \in 1..Incident
      /\ bundles[Incident] \in Bundle
  BY <1>1, BundleTypes DEF Made, Busy
<1>3. Incident' = Incident /\ \A i \in 1..Incident : i # Incident => bundles'[i] = bundles[i]
  BY <1>2, StoreOfMetadata
<1>4. /\ bundles'[Incident].files["metadata"] = "whole"
      /\ \A g \in Layers : bundles'[Incident].files[g] = bundles[Incident].files[g]
  <2> DEFINE b == [files |-> [bundles[Incident].files EXCEPT !["metadata"] = "whole"], listed |-> paths]
  <2>1. bundles' = [bundles EXCEPT ![Incident] = b]
    BY DEF WriteMetadata
  <2>2. bundles[Incident].files \in [Files -> {"none", "part", "whole"}]
    BY <1>2 DEF Bundle, Contents
  <2>3. b.files["metadata"] = "whole" /\ \A g \in Layers : b.files[g] = bundles[Incident].files[g]
    BY <2>2, DecidedFacts
  <2> HIDE DEF b
  <2>4. bundles'[Incident] = b
    BY <1>2, <2>1
  <2>5. QED
    BY <2>3, <2>4
<1>5. \A f \in Expected : f \in Lacks(Incident)' /\ f \in Decided(pc') =>
        f \in {} \/ (f \in Lacks(Incident) /\ f \in Decided(pc))
  <2> SUFFICES ASSUME NEW f \in Expected, f \in Lacks(Incident)', f \in Decided(pc')
               PROVE  f \in Lacks(Incident) /\ f \in Decided(pc)
    OBVIOUS
  <2>1. f \in Files /\ bundles'[Incident].files[f] = "none"
    BY <1>1, <1>3, LacksFacts, DecidedFacts
  <2>2. f \in Layers
    BY <1>4, <2>1, DecidedFacts
  <2>3. QED
    BY <1>1, <1>4, <2>1, <2>2, LacksFacts, DecidedFacts
<1>6. \A x \in Losses' : x \in Losses \/ (x[1] = Incident /\ x[2] \in {} /\ x = <<x[1], x[2]>>)
  BY <1>1, <1>3, <1>5, {} \in SUBSET Expected, OthersLack
<1>7. Losses' \subseteq Losses
  BY <1>6
<1>8. QED
  BY <1>1, <1>7, Paid

(* An entry that follows a torn line is damaged: the loss the torn line stood *)
(* for.                                                                       *)
LEMMA LossOfAppend ==
  ASSUME StoreInv, LossInv, AppendEntry
  PROVE  LossInv'
<1>1. /\ TypeInv /\ TypeInv' /\ pc = "append" /\ pc' = "count" /\ torn' = FALSE
      /\ UNCHANGED <<bundles, faults, kills>>
      /\ entries' = Append(entries, IF torn THEN DamagedEntry ELSE EntryInHand)
  BY TypeOfWrites, StoreOfAppend DEF StoreInv, AppendEntry, Goto, bounds
<1>2. entries \in Seq(Entry) /\ Incident \in Nat /\ Incident >= 1 /\ Incident' = Incident
  BY <1>1, BundleTypes DEF Made, Busy, Incident
<1> DEFINE e == IF torn THEN DamagedEntry ELSE EntryInHand
           n == Len(entries) + 1
<1>3. ~ torn => e.incident = Incident
  BY DEF EntryInHand
<1>4. entries' = Append(entries, e)
  BY <1>1
<1> HIDE DEF e
<1>5. /\ n \in DOMAIN entries' /\ entries'[n] = e
      /\ \A k \in DOMAIN entries : k \in DOMAIN entries' /\ entries'[k] = entries[k]
  BY <1>2, <1>4
<1>6. \A i : i \in Chained => i \in Chained'
  BY <1>5 DEF Chained
<1>7. ~ torn => Incident \in Chained'
  <2> HIDE DEF n
  <2>1. QED
    BY <1>2, <1>3, <1>5 DEF Chained, NoIncident
<1>8. Losses' \subseteq (IF torn THEN Losses \cup {<<Incident, "chain_of_custody">>} ELSE Losses)
  <2>1. ASSUME NEW i \in 1..Incident, NEW f \in Expected, IsLost(i, f)'
        PROVE  IsLost(i, f) \/ (torn /\ i = Incident /\ f = "chain_of_custody")
    <3>1. f \in Lacks(i)'
      BY <2>1 DEF IsLost
    <3>2. CASE f \in Files
      <4>1. f \in Lacks(i) /\ f \in Decided(pc)
        BY <1>1, <3>1, <3>2, LacksFacts, DecidedFacts
      <4>2. QED
        BY <4>1 DEF IsLost
    <3>3. CASE f = "chain_of_custody"
      <4>1. i \notin Chained' /\ i \notin Chained
        BY <1>6, <3>1, <3>3, LacksFacts
      <4>2. CASE i = Incident
        BY <1>7, <3>3, <4>1, <4>2
      <4>3. CASE i # Incident
        BY <3>3, <4>1, <4>3, LacksFacts DEF IsLost
      <4>4. QED
        BY <4>2, <4>3
    <3>4. QED
      BY <3>2, <3>3, LacksFacts
  <2>2. ASSUME NEW x \in Losses'
        PROVE  x \in Losses \/ (torn /\ x = <<Incident, "chain_of_custody">>)
    <3>1. x \in (1..Incident) \X Expected /\ IsLost(x[1], x[2])'
      BY <1>2 DEF Losses
    <3>2. x[1] \in 1..Incident /\ x[2] \in Expected /\ x = <<x[1], x[2]>>
      BY <3>1
    <3>3. IsLost(x[1], x[2]) \/ (torn /\ x[1] = Incident /\ x[2] = "chain_of_custody")
      BY <2>1, <3>1, <3>2
    <3>4. IsLost(x[1], x[2]) => x \in Losses
      BY <3>1 DEF Losses
    <3>5. QED
      BY <3>2, <3>3, <3>4
  <2>3. QED
    BY <2>2
<1>9. CASE ~ torn
  <2>1. Losses' \subseteq Losses /\ (torn' => torn)
    BY <1>1, <1>8, <1>9
  <2>2. QED
    BY <1>1, <2>1, Paid
<1>10. CASE torn
  <2>1. IsFiniteSet(Losses) /\ Cardinality(Losses) \in Nat
    BY <1>1, LossesFinite
  <2>2. Cardinality(Losses') <= Cardinality(Losses) + 1 /\ Cardinality(Losses') \in Nat
    BY <1>8, <1>10, <2>1, GainsOne
  <2>3. Torn = 1 /\ Torn' = 0 /\ faults \in Nat /\ kills \in Nat
    BY <1>1, <1>10 DEF Torn, TypeInv, TypeOK
  <2>4. QED
    BY <1>1, <2>1, <2>2, <2>3 DEF LossInv
<1>11. QED
  BY <1>9, <1>10

(* What an acquisition that gives up costs: its entry, and its metadata or    *)
(* the next entry.                                                            *)
LEMMA LossOfRaise ==
  ASSUME StoreInv, LossInv, AppendFails \/ \E left \in {"none", "part"} : CollectRaises(left)
  PROVE  LossInv'
<1>1. /\ TypeInv /\ TypeInv' /\ pc' = "items"
      /\ pc \in {"directory", "metadata", "hash", "append", "count"}
      /\ UNCHANGED <<entries, kills>> /\ faults' = faults + 1
      /\ AppendFails \/ torn' = torn
  BY TypeOfWrites DEF AppendFails, CollectRaises, Goto, custody, StoreInv
<1> DEFINE D == IF pc = "metadata" THEN {"metadata", "chain_of_custody"}
                ELSE IF pc \in {"hash", "append"} THEN {"chain_of_custody"} ELSE {}
<1>2. /\ Incident' = Incident
      /\ \A i \in 1..Incident : i # Incident => bundles'[i] = bundles[i]
      /\ \A f \in Files \ D : Incident \in 1..Incident =>
           bundles'[Incident].files[f] = bundles[Incident].files[f]
  <2>1. CASE bundles' = bundles
    BY <2>1 DEF Incident
  <2>2. CASE bundles' # bundles
    <3>1. PICK left \in {"none", "part"} : CollectRaises(left)
      BY <2>2 DEF AppendFails
    <3>2. pc = "metadata" /\ Put("metadata", left) /\ pc \in Busy
      BY <2>2, <3>1 DEF CollectRaises, Busy
    <3>3. "metadata" \in Files /\ left \in {"none", "part", "whole"}
      BY DEF Files
    <3>4. /\ Incident' = Incident
          /\ \A f \in Files \ {"metadata"} : bundles'[Incident].files[f] = bundles[Incident].files[f]
      BY <1>1, <3>2, <3>3, StoreOfPut
    <3>5. bundles \in Seq(Bundle) /\ bundles # <<>> /\ Incident = Len(bundles)
      BY <1>1, <3>2, BundleTypes DEF Made, TypeInv
    <3>6. \A i \in 1..Incident : i # Incident => bundles'[i] = bundles[i]
      BY <3>2, <3>3, <3>5, PutFacts
    <3>7. QED
      BY <3>2, <3>4, <3>6
  <2>3. QED
    BY <2>1, <2>2
<1>3. \A f \in Expected : Incident \in 1..Incident /\ f \in Lacks(Incident)' /\ f \in Decided(pc') =>
        f \in D \/ (f \in Lacks(Incident) /\ f \in Decided(pc))
  <2> SUFFICES ASSUME NEW f \in Expected, Incident \in 1..Incident, f \in Lacks(Incident)', f \notin D
               PROVE  f \in Lacks(Incident) /\ f \in Decided(pc)
    OBVIOUS
  <2>1. f \in Lacks(Incident)
    <3>1. CASE f \in Files
      BY <1>2, <3>1, LacksFacts
    <3>2. CASE f = "chain_of_custody"
      BY <1>1, <1>2, <3>2, LacksFacts DEF Chained
    <3>3. QED
      BY <3>1, <3>2, LacksFacts
  <2>2. f \in Decided(pc)
    BY <1>1, DecidedFacts, LacksFacts
  <2>3. QED
    BY <2>1, <2>2
<1>4. D \in SUBSET Expected
  BY DEF Expected, Files
<1>5. \A x \in Losses' : x \in Losses \/ (x[1] = Incident /\ x[2] \in D /\ x = <<x[1], x[2]>>)
  <2> HIDE DEF D
  <2>1. QED
    BY <1>1, <1>2, <1>3, <1>4, OthersLack
<1>6. CASE AppendFails
  <2>1. pc = "append"
    BY <1>6 DEF AppendFails
  <2>2. Losses' \subseteq Losses \cup {<<Incident, "chain_of_custody">>}
    BY <1>5, <2>1
  <2>3. QED
    BY <1>1, <2>2, PaidByFailure
<1>7. CASE torn' = torn
  <2>1. Losses' \subseteq (Losses \cup {<<Incident, "chain_of_custody">>}) \cup {<<Incident, "metadata">>}
    BY <1>5
  <2>2. QED
    BY <1>1, <1>7, <2>1, PaidByFailure
<1>8. QED
  BY <1>1, <1>6, <1>7

LEMMA NextLoss == StoreInv /\ LossInv /\ [Next]_vars => LossInv'
<1> SUFFICES ASSUME StoreInv, LossInv, [Next]_vars PROVE LossInv'
  OBVIOUS
<1>1. CASE \/ Classify(Benign, TRUE, TRUE)
           \/ \E label \in Labels \ {Benign}, sure, joined \in BOOLEAN : Classify(label, sure, joined)
           \/ Kill \/ Restart \/ Tick \/ UNCHANGED vars
  BY <1>1, LabelAssumption, LossOfQuietSteps, LossOfKill
<1>2. CASE Handle
  BY <1>2, LossOfQuietSteps, LossOfDirectory, LossOfLayers, LossOfMetadata, LossOfAppend DEF Handle
<1>3. CASE Fail
  BY <1>3, LossOfQuietSteps, LossOfLayers, LossOfRaise DEF Fail
<1>4. QED
  BY <1>1, <1>2, <1>3 DEF Next

(* One failed call costs the evidence at most two of the six things that are  *)
(* looked for, and a kill at most six, for any number of both and of windows. *)
THEOREM LossesAlwaysExplained == Spec => []LossesAreExplained
<1>1. Spec => []LossInv
  BY InitLoss, NextLoss, StoreAlways, PTL DEF Spec
<1>2. StoreInv /\ LossInv => LossesAreExplained
  <2> SUFFICES ASSUME StoreInv, LossInv PROVE LossesAreExplained
    OBVIOUS
  <2> DEFINE done == DOMAIN bundles \ (IF pc \in {"idle", "down", "items", "timing"} THEN {} ELSE {Incident})
             found == {x \in done \X Expected : x[2] \in Lacks(x[1])}
  <2>1. TypeInv /\ DOMAIN bundles = 1..Incident
    BY BundleTypes DEF StoreInv
  <2>2. pc \in {"idle", "down", "items", "timing"} => Decided(pc) = Expected
    BY DEF Decided, Layers
  <2>3. \A i \in done : \A f \in Expected : f \in Lacks(i) => IsLost(i, f)
    BY <2>2 DEF IsLost
  <2>4. done \subseteq 1..Incident
    BY <2>1
  <2> HIDE DEF done
  <2>5. found \subseteq Losses
    BY <2>3, <2>4 DEF Losses
  <2>6. /\ IsFiniteSet(Losses) /\ Cardinality(Losses) \in Nat /\ IsFiniteSet(found)
        /\ Cardinality(found) <= Cardinality(Losses) /\ Cardinality(found) \in Nat
    BY <2>1, <2>5, LossesFinite, FS_Subset, FS_CardinalityType
  <2>7. Torn \in {0, 1} /\ faults \in Nat /\ kills \in Nat
    BY <2>1 DEF Torn, TypeInv, TypeOK
  <2>8. Cardinality(found) <= 2 * faults + 6 * kills
    BY <2>6, <2>7 DEF LossInv
  <2>9. QED
    BY <2>8 DEF LossesAreExplained, done
<1>3. QED
  BY <1>1, <1>2, StoreAlways, PTL
=============================================================================
