------------------------- MODULE EvidenceAcquisition -------------------------
(***************************************************************************)
(* What the edge node does with a full window, from the classifier's       *)
(* answer to the row in items_log.jsonl: _handle_window (capture.py), the  *)
(* trigger, and the acquisition of evidence (evidence_collect.py), with    *)
(* every file it leaves behind, in the order in which they are written.    *)
(* Any write can fail, and the process can be killed and started again     *)
(* between any two of them.  The custody log is the one of CustodyLog.     *)
(* The last part are the reports that read these files afterwards          *)
(* (experiment_s.py).                                                      *)
(***************************************************************************)
EXTENDS CustodyEntries, FiniteSets

CONSTANTS
  Labels,       \* labels the classifier may give a window
  Benign,       \* the label that never triggers
  Cooldown,     \* COOLDOWN_SECONDS
  Anchoring,    \* ANCHOR_EVERY is not 0: preserve_bundle reads the log back
  MaxWindows,   \* bound on the windows classified
  MaxTime,      \* bound on the clock
  MaxFaults,    \* bound on the calls that fail
  MaxKills      \* bound on the kills

ASSUME LabelAssumption == Benign \in Labels
ASSUME CooldownAssumption == Cooldown \in Nat \ {0}
ASSUME AnchoringAssumption == Anchoring \in BOOLEAN

Layers == {"network", "processes", "memory", "syslog"}
Files == Layers \cup {"metadata"}

\* A file is not there, cut short by a failing write, or as it was meant to be.
Contents == [Files -> {"none", "part", "whole"}]
Blank == [f \in Files |-> "none"]

\* What a bundle hash covers: a file as it was, or nothing or only a beginning
\* of a file that could not be read ("unread").
Digests == [Files -> {"none", "part", "whole", "unread"}]

\* The layer after each layer, and what comes after the last.
AfterLayer == [network |-> "processes", processes |-> "memory", memory |-> "syslog",
               syslog |-> "metadata"]

NoIncident == 0         \* incident_id None
LongAgo == -Cooldown    \* _last_triggered.get(attack_type, 0)

VARIABLES
  pc,           \* program point of the handler; "down" while there is no process
  hand,         \* the window in hand: label, above the threshold, row of a known job, captured_ts
  paths,        \* paths of collect_evidence: the layers that were saved
  hash,         \* bundle_hash: what the bundle held when it was hashed
  answer,       \* incident_id, once collect_evidence has returned it
  last,         \* _last_triggered
  now,          \* the clock
  bundles,      \* incident_* directories: their files, and evidence_files of their metadata
  entries,      \* chain_of_custody.log: the complete lines
  torn,         \* an unfinished line follows them
  timing,       \* timing_log.jsonl: the incidents
  items,        \* items_log.jsonl
  predictions,  \* number of rows of predictions_log.jsonl and resources.log
  triggers,     \* every yes of should_acquire, with the incident that came of it
  faults, kills

local == <<hand, paths, hash, answer>>
logs == <<timing, items, predictions>>
custody == <<entries, torn>>
bounds == <<faults, kills>>
vars == <<pc, local, last, now, bundles, custody, logs, triggers, bounds>>

NoWindow == [label |-> Benign, sure |-> FALSE, joined |-> FALSE, ts |-> 0]
DamagedEntry == [incident |-> NoIncident, prev |-> Genesis, files |-> Blank, label |-> Benign]

Init ==
  /\ pc = "idle" /\ hand = NoWindow /\ paths = {} /\ hash = Blank /\ answer = NoIncident
  /\ last = [l \in Labels |-> LongAgo] /\ now = 0
  /\ bundles = <<>> /\ entries = <<>> /\ torn = FALSE
  /\ timing = <<>> /\ items = <<>> /\ predictions = 0
  /\ triggers = <<>> /\ faults = 0 /\ kills = 0

Goto(point) == pc' = point
Incident == Len(bundles)        \* the incident id of the acquisition under way
------------------------------------------------------------------------------
(* _handle_window.                                                         *)

\* classify(window, position): any label, above or below the trigger's threshold;
\* whether the window's flow is in the truth log is not up to the edge node.
Classify(label, sure, joined) ==
  /\ pc = "idle" /\ predictions < MaxWindows
  /\ hand' = [label |-> label, sure |-> sure, joined |-> joined, ts |-> now]
  /\ Goto("prediction")
  /\ UNCHANGED <<paths, hash, answer, last, now, bundles, custody, logs, triggers, bounds>>

\* log_prediction and write_resources, then the time that becomes captured_ts.
LogPrediction ==
  /\ pc = "prediction"
  /\ predictions' = predictions + 1
  /\ hand' = [hand EXCEPT !.ts = now]
  /\ Goto("trigger")
  /\ UNCHANGED <<paths, hash, answer, last, now, bundles, custody, timing, items, triggers, bounds>>

\* should_acquire.
ShouldAcquire == hand.label # Benign /\ hand.sure /\ now - last[hand.label] >= Cooldown

\* Mutant: the cooldown starts anew with every detection, acquired or not.
NoTriggerRefreshing ==
  /\ pc = "trigger" /\ ~ ShouldAcquire
  /\ Goto("items")
  /\ last' = [last EXCEPT ![hand.label] = now]
  /\ UNCHANGED <<local, now, bundles, custody, logs, triggers, bounds>>

NoTrigger ==
  /\ pc = "trigger" /\ ~ ShouldAcquire
  /\ Goto("items")
  /\ UNCHANGED <<local, last, now, bundles, custody, logs, triggers, bounds>>

Trigger ==
  /\ pc = "trigger" /\ ShouldAcquire
  /\ last' = [last EXCEPT ![hand.label] = now]
  /\ triggers' = Append(triggers, [label |-> hand.label, at |-> now, incident |-> NoIncident])
  /\ Goto("directory")
  /\ UNCHANGED <<local, now, bundles, custody, logs, bounds>>

\* write_timing: reached only when collect_evidence has returned.
WriteTiming ==
  /\ pc = "timing"
  /\ timing' = Append(timing, answer)
  /\ Goto("items")
  /\ UNCHANGED <<local, last, now, bundles, custody, items, predictions, triggers, bounds>>

\* write_items.
WriteItems ==
  /\ pc = "items"
  /\ items' = Append(items, [label |-> hand.label, sure |-> hand.sure, joined |-> hand.joined,
                             ts |-> hand.ts, incident |-> answer])
  /\ Goto("idle")
  /\ hand' = NoWindow /\ paths' = {} /\ hash' = Blank /\ answer' = NoIncident
  /\ UNCHANGED <<last, now, bundles, custody, timing, predictions, triggers, bounds>>
------------------------------------------------------------------------------
(* collect_evidence and preserve_bundle.                                   *)

\* Mutant: the incident id is the time in seconds, and the directory may exist.
MakeDirectoryOfSecond ==
  /\ pc = "directory"
  /\ bundles' = IF \E t \in 1..(Len(triggers) - 1) : triggers[t].at = now /\ bundles # <<>>
                THEN bundles ELSE Append(bundles, [files |-> Blank, listed |-> {}])
  /\ Goto("network")
  /\ UNCHANGED <<local, last, now, custody, logs, triggers, bounds>>

MakeDirectory ==
  /\ pc = "directory"
  /\ bundles' = Append(bundles, [files |-> Blank, listed |-> {}])
  /\ Goto("network")
  /\ UNCHANGED <<local, last, now, custody, logs, triggers, bounds>>

\* A file of the bundle in hand comes to hold content.
Put(file, content) == bundles' = [bundles EXCEPT ![Incident].files[file] = content]

SaveLayer(layer) ==
  /\ pc = layer
  /\ Put(layer, "whole")
  /\ paths' = paths \cup {layer}
  /\ Goto(AfterLayer[layer])
  /\ UNCHANGED <<hand, hash, answer, last, now, custody, logs, triggers, bounds>>

\* Mutant: the try is around the loop, so that a failing layer ends it.
LayerFailsAll(layer, left) ==
  /\ pc = layer /\ faults < MaxFaults
  /\ faults' = faults + 1
  /\ Put(layer, left)
  /\ Goto("metadata")
  /\ UNCHANGED <<local, last, now, custody, logs, triggers, kills>>

\* The except clause of the loop: the layer is skipped, and what it wrote stays.
LayerFails(layer, left) ==
  /\ pc = layer /\ faults < MaxFaults
  /\ faults' = faults + 1
  /\ Put(layer, left)
  /\ Goto(AfterLayer[layer])
  /\ UNCHANGED <<local, last, now, custody, logs, triggers, kills>>

WriteMetadata ==
  /\ pc = "metadata"
  /\ bundles' = [bundles EXCEPT ![Incident] = [files |-> [@.files EXCEPT !["metadata"] = "whole"],
                                               listed |-> paths]]
  /\ Goto("hash")
  /\ UNCHANGED <<local, last, now, custody, logs, triggers, bounds>>

\* Mutant: the bundle is hashed before its metadata are written.
HashBundleEarly ==
  /\ pc = "hash"
  /\ hash' = [bundles[Incident].files EXCEPT !["metadata"] = "none"]
  /\ Goto("append")
  /\ UNCHANGED <<hand, paths, answer, last, now, bundles, custody, logs, triggers, bounds>>

\* preserve_bundle, in two steps: the bundle is hashed, and the entry appended.
HashBundle ==
  /\ pc = "hash"
  /\ hash' = [f \in Files |-> IF hash[f] = "unread" THEN "unread" ELSE bundles[Incident].files[f]]
  /\ Goto("append")
  /\ UNCHANGED <<hand, paths, answer, last, now, bundles, custody, logs, triggers, bounds>>

\* The except clause of hash_directory: a file that cannot be read is left out
\* with a warning, and the entry is appended all the same.  os.walk passes over
\* a directory that it cannot list: then every file is left out.
Unreadable == {{f} : f \in Files} \cup {Files}

HashSkips(missed) ==
  /\ pc = "hash" /\ faults < MaxFaults
  /\ faults' = faults + 1
  /\ hash' = [f \in Files |-> IF f \in missed /\ bundles[Incident].files[f] # "none" THEN "unread" ELSE hash[f]]
  /\ UNCHANGED <<pc, hand, paths, answer, last, now, bundles, custody, logs, triggers, kills>>

\* What the log says of an entry, as a line of CustodyEntries.
LineOf(e) == [id |-> e.incident, prev |-> e.prev, sig |-> IF e = DamagedEntry THEN NoKey ELSE 1]
Lines == [k \in DOMAIN entries |-> LineOf(entries[k])]

AppendEntry ==
  /\ pc = "append"
  /\ entries' = Append(entries,
       IF torn THEN DamagedEntry
       ELSE [incident |-> Incident, prev |-> HeadOf(Lines, torn), files |-> hash, label |-> hand.label])
  /\ torn' = FALSE
  /\ Goto("count")
  /\ UNCHANGED <<local, last, now, bundles, logs, triggers, bounds>>

\* Mutant: preserve_bundle swallows the failure.
AppendFailsSilently ==
  /\ pc = "append" /\ faults < MaxFaults
  /\ faults' = faults + 1
  /\ torn' = TRUE
  /\ answer' = Incident
  /\ Goto("timing")
  /\ UNCHANGED <<hand, paths, hash, last, now, bundles, entries, logs, triggers, kills>>

\* The write fails half way.
AppendFails ==
  /\ pc = "append" /\ faults < MaxFaults
  /\ faults' = faults + 1
  /\ torn' = TRUE
  /\ Goto("items")
  /\ UNCHANGED <<local, last, now, bundles, entries, logs, triggers, kills>>

\* The rest of preserve_bundle: with ANCHOR_EVERY it reads every line back.
Returns == Anchoring => Readable(Lines, torn)

CollectReturns ==
  /\ pc = "count" /\ Returns
  /\ answer' = Incident
  /\ triggers' = [triggers EXCEPT ![Len(triggers)].incident = Incident]
  /\ Goto("timing")
  /\ UNCHANGED <<hand, paths, hash, last, now, bundles, custody, logs, bounds>>

\* json.loads raises on a damaged line: the entry is in the log and no incident is answered.
CountRaises ==
  /\ pc = "count" /\ ~ Returns
  /\ Goto("items")
  /\ UNCHANGED <<local, last, now, bundles, custody, logs, triggers, bounds>>

\* A call that collect_evidence does not guard raises, and what it wrote (left)
\* stays; _acquire_if_triggered answers None.  At "count" (fsync, the anchor) the
\* entry is in the log already; hash_directory ("hash") never raises.
CollectRaises(left) ==
  /\ pc \in {"directory", "metadata", "count"} /\ faults < MaxFaults
  /\ faults' = faults + 1
  /\ IF pc = "metadata" THEN Put("metadata", left) ELSE left = "none" /\ UNCHANGED bundles
  /\ Goto("items")
  /\ UNCHANGED <<local, last, now, custody, logs, triggers, kills>>
------------------------------------------------------------------------------
(* The process.                                                            *)

\* The process is gone; what it had in memory is gone when the next one starts.
Gone ==
  /\ Goto("down")
  /\ hand' = NoWindow /\ paths' = {} /\ hash' = Blank /\ answer' = NoIncident

\* An append that nothing guards raises: the capture ends.
RowFails ==
  /\ pc \in {"prediction", "timing", "items"} /\ faults < MaxFaults
  /\ faults' = faults + 1
  /\ Gone
  /\ UNCHANGED <<last, now, bundles, custody, logs, triggers, kills>>

Kill ==
  /\ pc # "down" /\ kills < MaxKills
  /\ kills' = kills + 1
  /\ Gone
  /\ UNCHANGED <<last, now, bundles, custody, logs, triggers, faults>>

\* restart: unless-stopped.
Restart ==
  /\ pc = "down"
  /\ Goto("idle")
  /\ last' = [l \in Labels |-> LongAgo]
  /\ UNCHANGED <<local, now, bundles, custody, logs, triggers, bounds>>

\* The clock is read for captured_ts and by should_acquire, with a log line
\* between them: what passes elsewhere passes between two windows or while the
\* evidence is collected.
Tick ==
  /\ pc \in {"idle", "append"} /\ now < MaxTime
  /\ now' = now + 1
  /\ UNCHANGED <<pc, local, last, bundles, custody, logs, triggers, bounds>>

Handle ==
  \/ LogPrediction \/ NoTrigger \/ Trigger \/ WriteTiming \/ WriteItems
  \/ MakeDirectory \/ WriteMetadata \/ HashBundle \/ AppendEntry \/ CollectReturns \/ CountRaises
  \/ \E layer \in Layers : SaveLayer(layer)

Fail ==
  \/ \E layer \in Layers, left \in {"none", "part"} : LayerFails(layer, left)
  \/ \E left \in {"none", "part"} : CollectRaises(left)
  \/ \E missed \in Unreadable : HashSkips(missed)
  \/ AppendFails \/ RowFails

Next ==
  \/ Classify(Benign, TRUE, TRUE)
  \/ \E label \in Labels \ {Benign}, sure, joined \in BOOLEAN : Classify(label, sure, joined)
  \/ Handle \/ Fail \/ Kill \/ Restart \/ Tick

Spec == Init /\ [][Next]_vars
------------------------------------------------------------------------------
(* Readers of the files: experiment_s.py.                                  *)

\* custody_by_id: the incidents of the lines that can be parsed.
Chained == {entries[k].incident : k \in DOMAIN entries} \ {NoIncident}

\* experiment_3_completeness: the six things it looks for, and those a bundle lacks.
Expected == Files \cup {"chain_of_custody"}
Lacks(i) ==
  {f \in Files : bundles[i].files[f] = "none"} \cup (IF i \in Chained THEN {} ELSE {"chain_of_custody"})

\* experiment_7_reliability: evidence_success_rate_pct is 100.
RateIsFull == \A k \in DOMAIN timing : timing[k] \in Chained

\* experiment_6_burst_level: the rows of an attack that were joined with their job.
Scored == {i \in DOMAIN items : items[i].label # Benign /\ items[i].joined}
SameLabel(i) == {j \in Scored : items[j].label = items[i].label}

\* _group_into_bursts: a gap of more than the cooldown ends a burst.
StartsBurst(i) == \A j \in SameLabel(i) : j < i => items[i].ts - items[j].ts > Cooldown
BurstFrom(i) == {j \in SameLabel(i) : j >= i /\ \A k \in SameLabel(i) : i < k /\ k <= j => ~ StartsBurst(k)}
BurstStarts == {i \in Scored : StartsBurst(i)}
HasEvidence(burst) == \E j \in burst : items[j].incident \in Chained
------------------------------------------------------------------------------
(* Properties.                                                             *)

Points == {"idle", "prediction", "trigger", "directory", "network", "processes", "memory",
           "syslog", "metadata", "hash", "append", "count", "timing", "items", "down"}

Window == [label : Labels, sure : BOOLEAN, joined : BOOLEAN, ts : Nat]

\* Every variable stays in its type.
TypeOK ==
  /\ pc \in Points
  /\ hand \in Window /\ paths \in SUBSET Layers /\ hash \in Digests /\ answer \in Nat
  /\ last \in [Labels -> Int] /\ now \in Nat
  /\ bundles \in Seq([files : Contents, listed : SUBSET Layers])
  /\ entries \in Seq([incident : Nat, prev : Nat, files : Digests, label : Labels])
  /\ torn \in BOOLEAN
  /\ timing \in Seq(Nat)
  /\ items \in Seq([label : Labels, sure : BOOLEAN, joined : BOOLEAN, ts : Nat, incident : Nat])
  /\ predictions \in Nat
  /\ triggers \in Seq([label : Labels, at : Nat, incident : Nat])
  /\ faults \in Nat /\ kills \in Nat

\* custody_verify finds the bundle of the entry changed although nobody touched
\* it: a file that it reads now was left out of the hash.
LooksChanged(k) == \E f \in Files : entries[k].files[f] = "unread"

BundlesStand ==
  \A k \in DOMAIN entries : entries[k] # DamagedEntry =>
    LET i == entries[k].incident IN
      /\ i \in DOMAIN bundles
      /\ \A f \in Files : entries[k].files[f] \in {bundles[i].files[f], "unread"}
      /\ bundles[i].files["metadata"] = "whole"
      /\ bundles[i].listed = {l \in Layers : bundles[i].files[l] = "whole"}

\* Whatever fails, a custody entry is about a bundle that is there, with its
\* metadata, and that still holds what was hashed of it.  The verifier finds a
\* bundle that nobody has touched changed only where a read failed while it was
\* hashed, one bundle for one failure at most.
EntriesStand == BundlesStand /\ Cardinality({k \in DOMAIN entries : LooksChanged(k)}) <= faults

\* A row of items_log.jsonl or timing_log.jsonl that names an incident names
\* one of its own label that has an entry, unless a damaged line of the log
\* may have been that entry; and no two rows of a log name the same.
RowsNameEvidence ==
  /\ \A r \in DOMAIN items : items[r].incident # NoIncident =>
       \E k \in DOMAIN entries :
         \/ entries[k].incident = items[r].incident /\ entries[k].label = items[r].label
         \/ entries[k] = DamagedEntry
  /\ \A k \in DOMAIN timing : timing[k] \in Chained \/ \E d \in DOMAIN entries : entries[d] = DamagedEntry
  /\ \A r, s \in DOMAIN items : (items[r].incident = items[s].incident /\ r # s) => items[r].incident = NoIncident
  /\ \A k, m \in DOMAIN timing : timing[k] = timing[m] => k = m

\* What experiment 3 finds missing is in proportion to the failures: one failed
\* call costs at most two of the six things it looks for (the metadata and with
\* it the entry, or two entries for a torn line), one kill at most all six.
LossesAreExplained ==
  LET done == DOMAIN bundles \ (IF pc \in {"idle", "down", "items", "timing"} THEN {} ELSE {Incident}) IN
    Cardinality({x \in done \X Expected : x[2] \in Lacks(x[1])}) <= 2 * faults + 6 * kills

\* A burst of detections without evidence (experiment 6) is explained, row by
\* row: the confidence was below the threshold, or the cooldown was running from
\* a detection whose evidence failed, or whose row is not joined with a job.
\* "prevent duplicate evidence bundles for the same event" (trigger.py) never
\* costs an event its only bundle.
BurstsGetEvidence ==
  \A i \in BurstStarts : ~ HasEvidence(BurstFrom(i)) =>
    \A j \in BurstFrom(i) : items[j].sure =>
      \E t \in DOMAIN triggers :
        /\ triggers[t].label = items[j].label
        /\ triggers[t].at <= items[j].ts /\ items[j].ts - triggers[t].at < Cooldown
        /\ ~ \E r \in Scored : items[r].incident = triggers[t].incident /\ triggers[t].incident \in Chained

\* The bundles behave like the abstract store: a sealed bundle stays.
Store == INSTANCE EvidenceStore WITH
  bundles <- [i \in DOMAIN bundles |-> bundles[i].files],
  sealed <- {[incident |-> entries[k].incident, files |-> entries[k].files] :
               k \in {k \in DOMAIN entries : entries[k] # DamagedEntry}},
  Unread <- "unread"
ImplementsStore == Store!Spec
------------------------------------------------------------------------------
(* What comments of the repository say of this part.                       *)

\* hash_directory: "SHA-256 over all files of an evidence bundle".
HashIsOfAllFiles == \A k \in DOMAIN entries : ~ LooksChanged(k)

\* experiment_7_reliability: "real per-window evidence success rate", the share
\* of acquisitions that succeeded: when one has failed the rate is not 100 %.
RateSeesFailures ==
  (pc = "idle" /\ \E t \in DOMAIN triggers : triggers[t].incident = NoIncident) => ~ RateIsFull
==============================================================================
