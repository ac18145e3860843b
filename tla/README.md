# TLA+ models of the REAF-5G prototype

This directory models the parts of REAF-5G that decide whether a detection and
its evidence can be trusted: the way of a replayed packet to the classifier
windows, the detection loop of the edge node, the acquisition of evidence, the
chain of custody and its verifiers, a whole experiment from manifest to archive,
and the scripts that sample the traffic and train and export the detectors. The
models are checked with TLC on small instances, and the main safety properties
are proved with TLAPS for every value of the constants.

## The system

| Part | State it keeps | Operations | Talks to |
|---|---|---|---|
| Sampler, `iot-traffic-generator/flow_samples.py` | two passes over a source pcap | count, plan blocks, copy | files of the generator |
| Manifest runner, `traffic_generator.py` | `truth_log.jsonl` | one replay per job of the manifest, a started and a completed record, a drain pause | replay engine (call) |
| Replay engine, `replay_engine.py`, `build_envelope.py` | position in the pcap | split a frame into envelope chunks, send them, stop at a deadline | edge node (UDP through the 5G tunnel) |
| Envelope transport, `envelope_ressemble.py` | chunk sets by (flow, packet) | `feed`, `expire_stale` | called by `on_packet` |
| Fragment reassembly, `fragment_reassembly.py` | fragment trains by addresses and id | `feed`, `expire_stale` | called by `process_original_packet` |
| Packet funnel, `capture.py` | `totals`, `by_flow`, `capture_counters.json` | `bump`, `flush_counters` | read by the evaluation |
| Detection loop, `capture.py` | two window builders, packet position | `process_original_packet`, `_handle_window`, the shutdown path | all of the above, evidence acquisition |
| Window builder, `flow_builder.py` | rows of the open window, its opening time | `add_packet`, `expire_stale_partial_window`, `flush` | called by the loop |
| Model engine, `model_engine.py` | sessions and scalers; `_stage2_override` per tier | `_load_artifacts`, `classify_flow`, `register_w100_result` | resource monitor for the tier, exported models |
| Trigger, `trigger.py` | time of the last trigger per attack type | `should_acquire` | called by the loop |
| Evidence acquisition, `evidence_collect.py` | bundle directories | four layers, metadata, custody entry | chain of custody (call) |
| Chain of custody, `chain_of_custody.py` | log, lock file, anchors, signing key | `preserve_bundle`, `anchor_chain`, `export_public_key` | shared files, read by the verifiers |
| Verification, `evaluation/forensic_validation.py`, `custody_verify.py`, `tamper_tests.py` | none | verify chain, incident, anchors, signatures | the files above |
| Joins and dashboard, `results_engine.py`, `truth_results.py`, `dashboard/app.py` | none | join predictions with jobs, recall, current replay, custody view | the files above |
| Scripts, `start.sh`, `run_layout.py` | run directories | start, wait, settle loop, anchor, archive | containers and files |
| Offline scripts, `training_models.py`, `experiment_file.py`, `experiment_dataset.py`, `test_leakage.py` | frames, splits, the results file, exported artifacts | prepare, select, balance, fit, score, save, export | `model_engine.py` (files copied by hand) |

The edge node is one process with one thread. It shares files with the command
line of the custody module, with the dashboard and with the scripts, and the
tunnel with the generator. What is hard about it:

- **Order within the loop.** One packet can close windows at both scales, and
  the answer for one scale changes later answers for the other.
- **Time.** Windows grow stale, evidence has a cooldown and chunk sets expire,
  but each clock is looked at only when a packet gets far enough; a script takes
  a pause for the end.
- **Failure.** The capture is interrupted, killed and restarted by the
  container runtime with empty memory and the old files; the disk fills up; the
  host loses power; a send fails half way through a packet; a layer of evidence
  fails half way; a training run is killed between two of its files.
- **Concurrency on files.** Reading the head of the log and appending, finding
  no key and creating one, syncing the log and anchoring it, each take several
  steps of several processes; the joins read logs that are still written.
- **Delivery.** Datagrams are lost, repeated and reordered, and a second replay
  of a job uses the same flow and packet numbers as the first.
- **Data that must stay apart.** One script prepares a data set many times over
  and compares the scores; the same rows must be held out each time.

`PROJECT.json` lists these one by one under `hazards`, with the properties that
would catch each going wrong.

### What makes each part correct

- Window builders and loop: every processed packet is in exactly one window of
  each scale and in one result row; a partial window has no effect but its row;
  the override in use is the latest; shutdown reports what is open.
- Transport: a packet that comes out is the packet that went in; counters add
  up; recall is never overstated.
- Evidence: an entry of the chain stands for a bundle that is there and
  unchanged; a row that names an incident names a chained one; what is missing
  is explained by a failure or by the cooldown.
- Custody: no fork, no lost link without a failure that explains it, anchors
  that name entries which are there, one key.
- Verification: accepts what nobody has touched, finds every change to what an
  incident rests on, and names its place.
- Experiment: the dashboard shows the job that runs; a recall below one has a
  cause; the archive is complete unless the settle loop gave up; it always ends.
- Sampler: the blocks fit the capture, and the sample is what the plan says.
- Offline scripts: nothing is scored on rows it has seen; compared scores have
  the same test rows; the models that are loaded belong together.

## Modules

| Module | Models | Uses |
|---|---|---|
| `WindowBuilder` | class `WindowBuilder` as operators on a builder record | |
| `EdgeNode` | the loop from the window builders on, with override, trigger, row and bundle | `WindowBuilder` |
| `PacketFunnel` | sender, tunnel, `on_packet`, both reassemblers, counters | |
| `MCPacketFunnel` | pcap files for TLC | `PacketFunnel` |
| `CustodyEntries` | lines of the custody log and what the code reads from them | |
| `CustodyLog` | the abstract custody log | `CustodyEntries` |
| `CustodyChain` | processes, lock, files and failures | `CustodyEntries`, instance of `CustodyLog` |
| `CustodyVerify` | the verifiers, the tamper tests and the dashboard's custody view, over changed logs | |
| `EvidenceStore` | the abstract store of bundles | |
| `EvidenceAcquisition` | `_handle_window` with the trigger and `collect_evidence`, write by write, and the reports that read the files | `CustodyEntries`, instance of `EvidenceStore` |
| `ExperimentRun` | generator, edge node's rows, `start.sh`, joins, dashboard, over shared logs | |
| `MCExperimentRun` | manifests for TLC | `ExperimentRun` |
| `PcapSampler` | `sample_pcap_contiguous` | |
| `MCPcapSampler` | source files for TLC | `PcapSampler` |
| `DatasetSplits` | cleaning, splitting, capping, balancing as sets of possible draws | |
| `DatasetPipelines` | the four offline scripts as plans of steps | `DatasetSplits` |
| `MCDatasetPipelines` | frames for TLC | `DatasetPipelines` |
| `ModelArtifacts` | export, copy and loading of models | |
| `MCModelArtifacts` | stages for TLC | `ModelArtifacts` |
| `X_proofs` | theorems on module `X` (seven of them) | `X`, `TLAPS` |
| `OfflineTools_proofs` | theorems on `ModelArtifacts` and `PcapSampler` | both, `TLAPS` |

Every module says in its comments what its actions and variables stand for, and
`map` in `PROJECT.json` gives the lines of code behind each definition. A
definition marked *Mutant* is the form a mapped definition would have after a
plausible bug; `mutants` in `PROJECT.json` says which property fails with it.

### EdgeNode and WindowBuilder

`pc` is the program point of the main line (`process_original_packet`, then the
`finally` block of `main`), `stage` the point inside `_handle_window`. A packet
goes through `ReceivePacket` (it is counted), `AddToSmall`, `AddToLarge`,
`ExpireSmall`, `ExpireLarge`; the last four may put a closed window in `win`, and
the handler
(`HandlePartial`, or `ClassifySmall`/`ClassifyLarge`, `NoTrigger` or `Trigger`
and `Collect`, `WriteItems`) runs to its end before the main line goes on.
`Tick` may happen at any point; `Interrupt` ends the main line wherever it is,
also between the count of a packet (`bump` writes a file now and then) and the
first builder, and abandons the handler; `InterruptFlush` is a second failure in the `finally`
block; `Kill` and `Restart` are the container's.

Abstractions. `add_packet` and the test for the size are one step: the code has
no call in between that could fail. What a model answers is a free choice among
the labels, with the confidence above or below the threshold. A tier is chosen
afresh at every window. `covered` counts the packets of the rows written to
`items_log.jsonl`; `covered`, `clean`, `lastLarge`, `lastGated`, `arrival` and
`bundle` record the run for the properties and are read by no action.

### PacketFunnel

`SendChunk`, `SendFails` and `EndJob` are `replay_pcap` in the loop of the
manifest; `net` is a bag of chunks from which `Receive` takes any one, possibly
leaving it there to come again, and `Lose` drops one. `Receive` is
`on_packet` up to the answer of `EnvelopeReassembler.feed`; `Decode`,
`DropUndecodable`, `DropForeign`, `HoldFragment`, `Process`, `ExpireTrains` and
`ExpireEnvelopes` are the rest, one step per counter or buffer. `Stop` is the end
of the process with or without the `finally` block, followed by its restart.

Abstractions. A payload is known by flow, packet number and index, so a packet
replayed again is the same packet: the files are part of the generator's image.
Flow numbers (the first four bytes of a SHA-1) do not collide. Datagrams that are
no envelope are left out. `defragment` of scapy puts a complete train together,
and may answer a packet or nothing for an incomplete one.

### CustodyChain

A process (`Writers` call `preserve_bundle`, `Tools` run the command line) goes
through the program points of `preserve_bundle`
(`lock`, `previous`, `key`, `append`, `sync`, `count`), `anchor_chain`
(`fsync`, `entries`, `key`, `record`) and `_load_or_create_key` (`key`,
`create`, `generated`). The files are the log as a sequence of complete lines
(`log`), a flag for an unfinished line behind them (`torn`), the length of the
part that is on disk (`synced`), the anchors and the key file.

Abstractions. Hashes are numbers that do not repeat. A line is written by one
`write`, which a kill does not split; a full disk may split it
(`AppendFails`). The anchor record is written and synced in one step, so anchors
survive a power loss. A fragment that happens to be a complete JSON text without
its newline counts as unfinished. A lost key file cannot be told from one that
was never created. The RFC 3161 stamp is left out: it never raises, and a stamp
that is missing is data nothing in this code reads.

`CustodyLog` says what the log promises without processes and locks: one step
links an entry to the line before it; a torn write costs its own line and the
next; an anchor names an entry that is in the log. `ImplementsLog` is the
refinement, with `log`, `torn` and `anchors` mapped to themselves: between
reading the previous hash or the head, and writing it, a process may be as slow
as it likes.

### CustodyVerify

The first part writes a log (`Preserve`, `Tear`, `Anchor`), the second changes
it (`ChangeField`, `ChangeBundle`, `RemoveTail`), and the verifiers are operators
on what results: `Problems` is `verify_chain_detailed`, `Verdict` is
`verify_incident`, `Accepts` is `custody_verify.py` with the key pinned, and
`TestAPasses`, `TestBPasses`, `TestDIsInvalid` and `ShownIntact` are the tamper
tests and `/api/custody`. All of them take a log apart in their own way: one
stops at the first bad line, one raises, one skips.

Abstractions. `digests` says what each hash was computed from, so that a stored
hash equals the recomputed one exactly if its fields are those it was made of. A
signature is the fields it signs. What a changed value is does not matter, only
that it was never written.

### EvidenceAcquisition

`pc` is the program point of `_handle_window` from the answer of the classifier
to the row of `items_log.jsonl`: prediction row, trigger, directory, four
layers, metadata, hash, custody entry, count, timing row, item row. Every call
that writes can fail in the way its surroundings handle it: a layer is skipped
(`LayerFails`), `collect_evidence` raises and the window goes on without an
incident (`CollectRaises`, `AppendFails`, `CountRaises`), a row that nothing
guards ends the capture (`RowFails`). `HashSkips` is the except clause of
`hash_directory`: a file that cannot be read is left out of the hash and the entry
is appended all the same, so the verifier finds the bundle changed although nobody
touched it. `EntriesStand` says that this, and nothing else, may happen. `Kill` comes between any two steps and
`Restart` starts with an empty `_last_triggered`. The last part of the module is
`experiment_s.py`: completeness (experiment 3), bursts (6) and the success rate
(7), computed from the same files.

`EvidenceStore` says what acquisition promises: bundles are opened one after the
other, only the latest is written to, and a sealed one stays as it was sealed,
up to files that the seal left out (`Without`). `ImplementsStore` is the refinement; `sealed` is the set of undamaged custody
entries. The custody log itself is written by one process here; what several
processes do to it is the subject of `CustodyChain`.

### ExperimentRun

`gen` is the generator. `GetAddress` is the loop of `main` before the manifest,
which has no bound: without a tunnel address it goes on for ever, and `docker
wait` with it. At its job, `StartJob`, `SendPacket` or `SendFails`,
`EndReplay`, `CompleteJob` are `run_manifest` and `replay_pcap`;
`NoAddress` and `CompleteRaises` are the missing tunnel address, whose answer 0
is subscripted. The manifest is sorted by priority in the one order a stable sort
can give it (`Orders`). The edge node is `Receive`: both windows take a packet,
the full ones leave their rows, small before large, and then the stale ones
(`EdgeNode` has the details); `PacketFails` (a handler raises or the process dies
in the middle of a packet, with a flush or without), `Age`, `Lose` and
`RestartEdge` are what can happen to it. `WaitEnds`, `SettleRound` and `Archive`
are `start.sh`, `RemoveContainers` is `end.sh`: rows that are written between the
two are not in the archive. The readers are operators on the logs as they stand at any
moment: `Index` and `Joined` (`results_engine.py`), `Received`
(`truth_results.py`), `Missed` (`evaluate_forensic_readiness`), `CurrentReplay`
(`/api/current_replay`).

Abstractions. The tunnel keeps the order here (`PacketFunnel` has the disorder).
Time is counted in rounds of the settle loop: the edge node gets through at
least `EdgeRate` packets in a round, or all there are (`KeepsUp`). The rows a packet
leaves when nothing fails are written in one step, and a capture that ends between
two packets is left to `EdgeNode`. A label is known by its pcap. The
classifier is left out: a row stands for its flow and packets.

### PcapSampler

`CountPacket` and `EndCount` are the first pass, `PlanBlocks` the choice of the blocks
(with every value `rng.randint` may give), `SkipPacket`, `CopyPacket`,
`LeavePacket` and `EndCopy` the second pass with `block_idx`. The integer
arithmetic of the plan is that of the code, rounding included.

### DatasetSplits and DatasetPipelines

A row is a number, with a raw label, a family, a file, and a key that stands for
its feature values. `DatasetSplits` gives for each library call the set of all
results a seeded draw can have. A script is a plan: a sequence of steps that
prepare a frame, select features, make synthetic rows or fit and score, which
depends only on the data sets that were found. A score is kept as the rows it
was fitted on, tuned on, selected by and measured on. Every preparation cleans,
splits, caps and undersamples again, from the frame that was loaded. What is
assumed of the library is one thing (`Answers`): a call that is made again on the
same rows with `RANDOM_STATE` draws what it drew before; on other rows it may draw
anything. `SaveResultRow` is the second half of a score: the results file is
truncated and written again.

Abstractions. What is learnt is left out, thresholds and metrics with it. A
comparison of many models or feature sets on the same rows is one score, or two
where two evaluations can differ. The data set of `training_models.py` is called
`watai` as well. The groups of `StratifiedGroupKFold` are any choice of whole
files, as the library promises no more. A key stands for all the features, so
rows that agree only on a reduced feature set do not count as twins; and the
protocol encoder, which is fitted on the whole frame, is not among what
`FittedApart` looks at.

### ModelArtifacts

`dir` holds, per name, the files of that name in the order of their numbers
(`get_unique_path`); a file is the run that wrote it, whether it is torn, and for
a feature list the names in it. `ExportModel`, `ExportFails`, `WriteArtifact` and
`Kill` are `run_pipeline` from its first export on, `Deploy` is the copy by hand,
at any moment, in the middle of a write too (`cutShort` records that, and kills),
and `StartEdge` is `_load_artifacts` with `_check_artifacts_or_fail`.

## Runs

`CHECK_DEADLOCK FALSE` is set where a system may rightly come to rest: the
capture has stopped, the calls are made, the files are replayed, the script is
done.

| Run | Question | Bounds and why they are enough |
|---|---|---|
| `edge_node` | Is any packet lost or counted twice by the windows? Which override is applied, what may a partial window do, how old does a window get, does an interrupted capture report what it has? | windows of 2 and 3, which are out of step; 7 packets: two full large windows and a rest; a timeout of 1 and one clock step, so that stale windows shift the scales; two tiers; two lives; interrupts and kills anywhere |
| `custody_concurrent` | Can writers and the command line fork the chain or forget an anchor? Does the log keep what its anchors say, and is damage in proportion? Do processes that find no key end up with one? Is the lock ever lost? Do the files behave like the abstract log? | two writers, one tool, 3 entries with an anchor every 2, one each of kill, torn write, power loss; no key file at the start |
| `funnel` | Do packets come out whole, does every envelope end in one counter, is recall honest, also when a job is replayed again? | three jobs, the third the first again; frames of two chunks with equal numbers and fragment trains under one key; one each of loss, repetition, failed send and restart; the clock passes both timeouts; counters flushed at every second bump |
| `evidence_failures` | What do the chain and the result log say when something fails half way? | 3 windows, two labels, a cooldown of 2 with a clock to 3; one failing call (or unreadable file, or directory) and one kill, anywhere; the custody log is read back |
| `experiment_run` | Does the dashboard show the running job, is a low recall explained, is the archive complete, does the run end? | two manifests (two jobs out of order; one pcap twice with another between), windows of 2 and 3, two troubles of any kind; two settle rounds with one packet a round, the least that fills the small window |
| `custody_verify` | What do the verifiers say of a log nobody touched, and of a changed one? | every log of up to 3 entries with a torn line, an unsigned entry and two anchors, then every one or two changes |
| `sampler` | Does the plan fit, and is the sample the plan? | every file of up to 5 packets of both kinds and longer ones to 12; targets above and below the file, one to three blocks, blocks capped at 5, 11 packets looked at |
| `dataset_pipelines` | What is a score fitted and measured on? | five pairs of frames with a repeat, twins under other labels, a broken row and files of mixed families; every draw; killed at any step |
| `model_artifacts` | Do the files an edge node loads belong together? | two stages, two training runs, one failed export in each, kills anywhere, copies at any moment |

What the passing runs show, property by property, is in the comment before each
property. Those that need a word here:

- `AnchorsMatch` holds whoever writes beside `anchor_chain`, and through power
  losses as long as no entry comes between its sync of the log and its reading of
  the head. Such an entry can be lost after it was anchored
  (`AnchoredHeadDurable` below).
- `SettledIsComplete` has one hypothesis on speed: in `SETTLE_SECONDS` (30, six
  rounds) the edge node gets through a small window of packets (10). Otherwise a
  pause without a row says nothing.
- `PlanFits` allows a plan that is larger than the request where there is less than
  a window for each block: `flow_samples.py:185-186` then takes a whole window for
  each.
- `EntriesStand`, `RowsNameEvidence` and `LossesAreExplained` tell apart three
  losses: a layer that failed is missing and the bundle says so, a custody entry
  that failed leaves a bundle outside the chain, and a damaged line may stand for
  an entry whose incident a row names.
- `RecallIsExplained` and `SettledIsComplete` state when the join may fall short:
  a packet that got lost, a window that is still open, a window with packets of
  two jobs, a settle loop that reached its limit, or a job too short to have a
  window to itself.
- `UntouchedVerifies`, `ValidMeansUnaltered`, `OneChangeIsLocated`,
  `AnchorsExposeTruncation` are the reference the verifiers are compared with:
  what nobody has touched is accepted, what is `VALID` is what was written, one
  change is reported at its place and at most at the next, and a tail is missed
  exactly if an anchored entry is.
- `FilesCrossOnlyWhenMixed` and `TwinsExplained` state the leakage that
  remains in the offline scripts, and that there is no other.
- `ScalersMatchModels` is not `Plain(n)[1].run = mine`: after a run that was
  killed before its feature list, the next run's list goes with the first run's
  scalers. The property states exactly this exception.

### Disagreements between the code and its documentation

Three runs expect a violation: each checks one statement of a comment and finds it
violated by what the code does. The quotations are in `PROJECT.json` under
`findings`.

| Run | Statement | What the code does |
|---|---|---|
| `doc_first_key` | the key is created on first use | an empty key file left by a kill is never replaced |
| `doc_results_kept` | the results file is rewritten after each row, "so no results are lost if a later experiment crashes" | a process that dies during the rewrite leaves an empty file |
| `doc_test_held_out` | the test part is held out untouched | synthetic training rows are made of all the rows of a class, those of the test part included |

Nine more statements are written down at the end of their modules, without a
run of their own. Each is violated as well; to see it, put the definition in the
place of the properties of the run named here.

| Definition | Run | Statement | What the code does |
|---|---|---|---|
| `OverrideInsideLargeWindow` | `edge_node` | `capture.py:225`: the position shows "which w=10 windows fall inside which w=100 window for the override check" | the override is for the windows after it |
| `LargeWindowsNeverGate` | `edge_node` | `capture.py:204`: "w=100 windows never gate on their own" | a 100-window triggers evidence by itself |
| `AnchoredHeadDurable` | `custody_concurrent` | `chain_of_custody.py:206`: "make the anchored head durable on disk" | the sync comes before the head is read, and an entry can come in between |
| `BufferExpires` | `funnel` | `envelope_ressemble.py:91`: "so the buffer can't grow unbounded" | expiry is skipped by the early returns |
| `TestDFindsTheChange` | `custody_verify` | `tamper_tests.py:84-96`: the change of a middle entry is expected to be INVALID from two entries on | with two entries the changed field is the last entry's hash, which no link checks |
| `BoundariesDoNotSplit` | `sampler` | `flow_samples.py:142`: a block boundary "never splits a live window" | where two blocks touch, the first packet of the second is dropped (`flow_samples.py:242`), and the block is one short |
| `HashIsOfAllFiles` | `evidence_failures` | `chain_of_custody.py:94`: "SHA-256 over all files of an evidence bundle" | a file that cannot be read is left out with a warning (`chain_of_custody.py:103`), and the bundle looks changed once it can be read |
| `NoFileCrosses` | `dataset_pipelines` | `experiments/README.md:149-150`: "no file's rows ever appear in both train and test" | when the library cannot stratify, files are drawn family by family (`test_leakage.py:256-269`), and a file with rows of two families can be on both sides |
| `RateSeesFailures` | `evidence_failures` | `experiment_s.py:168`: "real per-window evidence success rate" | an acquisition that failed leaves no timing row and is not counted (`experiment_s.py:171`) |

Other statements the models do not bear out, read off the code: an idle window
need not follow a silence, as the age counts from the first packet
(`flow_builder.py:211`); no drain pause makes the last window of a job go idle,
because stale windows are looked for only after the next packet has joined one
(`capture.py:226`); after a torn line the chain starts again at genesis
(`chain_of_custody.py:127`); a fragment train whose last fragment comes first is
never put together (`fragment_reassembly.py:36`); a restart starts the counters
again (`capture.py:65`).

### Fairness

`EdgeNode!FairSpec`: the interpreter goes on with the main line and the handler
(`WF` of their disjunction; the process is single-threaded, so at most one of
their steps is possible at a time). No packet, signal, clock step or restart is
assumed to come. `CustodyChain!FairSpec`: each process that is in a call goes on
with it, `WF` of its steps. For the lock this is weaker than `flock`'s queue and
enough here, as the calls made are finite in number. No call, kill or failure is
assumed. `ExperimentRun!FairSpec`: the generator, the script and the edge node
each go on while the containers run (`WF` of the steps of each); that no
trouble comes is not assumed, and `ExperimentEnds` holds for a generator that
dies and an edge node that restarts. `GetAddress` is not fair, as nothing in the
code bounds the wait for a tunnel: `ExperimentEnds` begins where the generator has
an address or died. That the edge node keeps its pace is in the guard of
`SettleRound` (`KeepsUp`), as `SettledIsComplete` is a statement about time.

## Proofs

Every theorem is for all values of the constants, so for every size of window,
number of processes, entries, failures, kills and files; the bounds `Max...` are
constants like the others. `theorems` in `PROJECT.json` lists them.

**EdgeNode.** `TypeCorrect`, `AccountingHolds`, `OverrideIsFresh`,
`WindowsStayYoung`, `PartialsChangeNothing`. `Accounting` and `OverrideFromLatest` are not inductive.
`IInv` adds that an open builder is shorter than its window (`BuildersShort`),
which window is in hand at which program point (`WindowInHand`), that two full
large windows closed at least a large window apart (`LargeWindowsApart`), that an
override is of a full large window no later than the latest one
(`OverridesSpaced`), and what an answer by override entails while it is in hand
(`OverrideAnswer`). `OpenWindowsAreYoung` has an invariant of its own,
`YoungInv`: after its check each scale is young until the next packet, and no
packet arrived in the future. The action property `PartialsHaveNoEffect` follows
from `FullInHand`: past the first test of `_handle_window` only a full window is
in hand. Assumptions: `SizeAssumption` (sizes are positive,
and the span is no longer than the large window), `TimeAssumption`,
`LabelAssumption`, `FlowAssumption`, `IdleFlushAssumption`.

**CustodyChain.** `CustodyTypeCorrect`, `ChainHolds`, `AnchorsHold`,
`KeyIsOne`, `CadenceHolds`, `CustodyRefinement`, `DamageStaysBounded`.
`Chained` speaks of the
log only; what makes it inductive is what each process carries: `ProcInv` says
which call a program point belongs to (`CallOfPoint`), that the points between
lock and unlock are those of the holder (`LockHeld`), that the previous hash it
has read is still the head of the log (`PreviousIsHead`), and that the head it is
about to anchor is in the log (`HeadInLog`); `HashesUsed` says that the hashes of
the log are those composed so far. For `AnchorsMatch` through power losses, what an
anchor names, or is about to, is on disk unless an entry overtook it; the host
without `CUSTODY_FSYNC` and more than one power loss are covered by the theorems
only. For `OneKey`, `KeyInv` adds what processes hold
in memory, and that at most one of them is about to write the file, which is
empty until then. For `AnchorCadence`, `Cadence` says of every multiple of
`ANCHOR_EVERY` that it is anchored, or a process on the way to its record will
anchor at least that many, or it is the latest entry and its writer still has to
count; the lock is what makes the last case survive an append. The refinement is
step by step: `AppendEntry` is `AddEntry` or `AddBehindFragment`, `AppendFails` is
`Tear` or a stutter, `AppendAnchor` is `AddAnchor`, `PowerLoss` is `Lose`,
everything else stutters. `DamageIsBounded` is inductive: a damaged line appears
only where a fragment was, and a fragment only with a failed write or a power
loss.

**PacketFunnel.** `FunnelTypeCorrect`, `PacketsAreWhole`, `BufferHoldsParts`,
`CountersBalance`, `RecallStaysHonest`. What `feed` hands on is right because of what waits in the
buffer, and that because of what is on its way. `IInv` therefore adds that the
sender is within the frame it sends (`SenderInStep`), that every datagram in the
tunnel is a chunk of a frame of the files (`TunnelGenuine`), that a chunk set
holds chunks of the frame with its key only, and finitely many wait
(`BuffersGenuine`), and that the key in hand is that of a frame (`HandReal`).
`ReceiveEffect` is the lemma on `feed`: a set of as many chunks as the frame has
is all of its chunks. `FunnelBalance` is inductive together with `IInv`;
`SumBump` says what one `bump` does to the sum. `RecallIsHonest` needs an account
of every frame between the two counters it compares, and each direction has one
of its own. `NeverMore` counts, besides the frames recognised, the last chunks
that may yet complete one: those that wait in the buffer, and every copy on its
way. Only a frame that is sent to its end brings a new one, and only a repeated
datagram another copy; completing a frame uses one up, which needs the frame's
last chunk to be among the chunks of a complete set. `NeverLess` is about a
process that was not restarted and a file that is replayed once: a frame that was
sent, or is being sent, was recognised, or can yet be, as all of its chunks that
were sent are on their way or wait (`Ready`), or it is made up for by a lost
datagram or an expired chunk set. A datagram is of one frame and a chunk set of
one frame, so a loss takes at most one frame out of `Ready`. When all is quiet
nothing is on its way and no set waits, so `Ready` is empty. Assumptions:
`PcapAssumption`, `TrainAssumption`, `FunnelTimeAssumption`.

**EvidenceAcquisition.** `AcquisitionTypeCorrect`, `EntriesAlwaysStand`,
`AcquisitionRefinesStore`, `RowsAlwaysNameEvidence`, `BurstsAlwaysGetEvidence`,
`LossesAlwaysExplained`. `TypeInv` adds that a bundle
exists from the directory on. `StoreInv` adds to `BundlesStand` what the bundle in
hand is like at each point of `collect_evidence` (`InHand`: which layers are still
blank, that `paths` are the whole ones, what was hashed is what is there) and that
no entry names it before its own is written (`Unsealed`); from these each write
is a `Save`, the append is a `Seal` and the directory an `Open`, all else
stutters. `SkipInv` counts the bundles that look changed, with the one whose hash
is being taken, against the failures. `RowsInv` adds what the answer in hand stands for (`Answered`) and that
rows name incidents older than the one in hand (`Older`), which gives that no two
rows name the same. `BurstInv` follows detections instead of files: a running
cooldown has a trigger behind it (`Cooling`), so every sure detection is within a
cooldown after a trigger of its label (`RowsCovered`), rows are in the order of
their times (`RowsInTime`), and a row that names an incident is of the detection
that triggered it (`RowsOfTriggers`); the trigger behind a burst without evidence
then failed, or its row is not scored. This is where the cooldown must be positive
(`CooldownAssumption`; `COOLDOWN_SECONDS` is 30). `LossInv` counts what bundles
lack as far as their acquisition has decided it (`Decided`), with a torn line as
one more entry that will be missing: a failed call costs two at most, a kill all
six.

**CustodyVerify.** `VerifierTypeCorrect`, `ValidIsUnaltered`, `AnchorsExpose`,
`OneChangeLocated`, `UntouchedIsVerified`. `DigestsAreOwn` (the n-th hash was computed from the n-th entry's content) is all
that the first needs: a `VALID` incident has no codes, so its hash is in
`digests` with its content, so it is its own. `AnchorsStand` says that an
anchor's count and head were those of an undamaged prefix, and that only changes
to the tail keep them. That an incident has a first entry (`LeastExists`) is by
well-founded induction on the naturals. The last two compare verifiers with the
log as it was written, which the state no longer shows once it is changed.
`HistoryInv` therefore says that there is such a log, `o`: its entries are
chained to each other and in the order of their hashes (`Written`), and what is
there now is `o` but for the fields and bundles that `changes` names and the
tail (`LeftOf`, `HeldStand`). What each check says of an entry is then computed
from `o` and the one change, for the entry itself, the one after it, and all
others.

**ExperimentRun.** `TypesHold`, `RunningJobIsShown`, `RecallAlwaysExplained`,
`ArchiveAlwaysHasTheJobs`, `SettledLogsAreComplete`. `IInv` has a part for each log
and each pace. `TruthInv`: the records are one pair per job in turn, the second of
the last pair may be missing, and the program point says which. From it follow
that only the job at hand is in progress (`PairsComplete`), also where a manifest
repeats a file, and with `ScriptInv` (the script goes on only after the generator,
and the archive is a copy) that a row without a completed record is of the job
the generator died in. `PacketsInv`: every packet that was read is, for each of
the two windows, missing, on its way, in the open window or in a row, and a row is
attributed to the flow of its packets or to none (`OneFlow`). `SettledIsComplete`
rests on time and on order. `PaceInv` is about time: while a packet is in the
tunnel, each round without a row has put `EdgeRate` packets into the small window
(`Pace`), which holds fewer than `SmallWindow`; so the logs cannot be quiet for
`Settle` rounds with `SmallWindow <= EdgeRate * Settle`, and logs that settle leave
an empty tunnel, after which no row comes (`SettledInv`). `QueueInv` is
about order: the small window with the tunnel behind it is one queue of packets,
in which those of a job are next to each other and in order (`InRuns`, `InTurn`).
A flow without a row of its own has given away fewer packets than a window holds
(`HeadIsEarly`), as those were in windows that began with another flow; so the
end of a job of at least `2 * SmallWindow - 1` packets is a window away from the
front (`FarEnd`), and comes no nearer without a row (`QueueOfReceive`). Assumptions:
`WindowAssumption` (the small window is the smaller one, and not empty),
`SettleAssumption`, `ManifestAssumption` (what the fields of a job are). What is
assumed of the edge node's speed and of losses is a hypothesis of the property.

**PcapSampler.** `SamplerTypeCorrect`, `PlanAlwaysFits`, `SampleInOrder`,
`LossIsAtBoundaries`. `Counted` ties `total` to the IPv4 packets read so far,
`Planning` the arithmetic of the plan (lemmas `DivFacts`,
`FactorAtMost`, `TimesMonotone`: quotients and products of naturals),
`Copying` says which packets of the blocks that are behind are written. Where the
segments have no room for a block (`Roomy` is false) `PlanFits` says nothing:
blocks of a window's size then overlap, as the code lets them.

**DatasetPipelines.** `ScoresComeFromFrames`, `FitAndTestApart`,
`ComparedOnSameRows`, `TwinsAreExplained`, `FilesStayWhole`. `GoodPlan` (a lemma
for each script and for every combination of data sets found) says that nothing is
done with a frame before it was prepared. `IInv`: what was drawn is one of the
possible answers, and each call has at most one for the same rows (`MemoOf`); every
frame is made of what was drawn from the rows of its data set (`MadeBy`), by which
its parts do not overlap, and which a second preparation repeats; what was selected
came from the training part of its frame, and every score is of the parts of its
frame. `WholeInv` adds that the leakage test scores whole parts, so that what
cleaning leaves (`CleanHasNoTwins`) and what a group split keeps whole holds of
the rows of every score.
Assumptions: `PipelineAssumption` (rows are numbers, as their order decides which
of two equal rows is dropped), and `NoneAssumption`, that no frame is mistaken for
none.

**ModelArtifacts.** `SessionsAreOfOneRun`, `FirstFilesStay`,
`ScalersAreOfTheModels`, `CleanRunsAlwaysServe`. `IInv`: every number a feature
list gives, in the directory, in the copy, and in the memory of the run under way,
is that of a whole file the same run exported. It rests on files that are only
ever added; a copy is taken as of one moment, although copying takes some time. `FirstInv` is about the first file of each name, which is the one
that is read by its plain name: where there is a feature list, the scalers and
encoders are there and no later (`CompanionsFirst`), which holds because the plan
writes them before it (`WrittenSoFar`), also when the copy was made on the way;
and as long as nothing was cut short the first feature list
is the first run's, so that its numbers are those of first files (`FirstRun`,
`CleanFirst`). Assumption: `ArtifactsAssumption` (stages are different names, none
of which is that of the scaler).

Only model-checked are the liveness properties `CleanShutdownReports`,
`PreserveReturns` and `ExperimentEnds`, as liveness under fairness is out of the
prover's reach. Every other property of a passing run is a theorem.

`TypeOK` of the modules with a typing theorem is proved rather than run.

## Not modelled

- Feature extraction, inference, learning, thresholds and metrics: numerical
  code; the models see its answers as free choices.
- `diff_dataset.py`, plots, tables, `training_models.ipynb` (an earlier text of
  `training_models.py`), percentiles of `experiment_s.py`: computations over
  finished files, without state that outlives a call.
- `recommend_replay_params` and the pacing of the replay: formulas on floating
  point times. `replay_single_packet`, `replay_mixed` and `replay_random` are the
  loop of `replay_pcap` again; `rewrite_packet` is called by nothing.
- `validating_offline.py`: copies of the window code run on a file.
- A custody entry whose stored hash is changed to something that is no hexadecimal
  number: `custody_verify.py:63` raises on it.
- RFC 3161 stamps; pages, styles and the routes of the dashboard that hand over
  the last rows of a log; building and starting containers; `experiment.sh`, which
  calls `start.sh` in a loop.
- Debug helpers and recorded data.

What is `partly` modelled is so for these omissions; its control is in the
modules.

## What could follow

- `ExperimentRun` with the real trigger and evidence of `EvidenceAcquisition`
  instead of bare rows, to relate recall and evidence of one experiment.
- `CustodyVerify` over the logs `CustodyChain` reaches, instead of a writer of
  its own.
