---------------------------- MODULE ExperimentRun ----------------------------
(***************************************************************************)
(* One experiment from the manifest to the archive: the generator replays  *)
(* the jobs and writes truth_log.jsonl (traffic_generator.py), the edge    *)
(* node puts what arrives into windows and writes a row of items_log.jsonl *)
(* for each (capture.py, of which EdgeNode has the details), start.sh      *)
(* waits for the generator, lets the logs settle and archives them.  While *)
(* it runs, and afterwards, the logs are joined (results_engine.py,        *)
(* truth_results.py) and shown (dashboard/app.py).                         *)
(***************************************************************************)
EXTENDS Integers, FiniteSets, SequencesExt

CONSTANTS
  Pcaps,        \* the recordings to replay
  Manifests,    \* the manifests to choose from: sequences of jobs
  SmallWindow, LargeWindow,   \* the sizes of the two windows
  Settle,       \* SETTLE_SECONDS, in rounds of the settle loop
  MaxSettle,    \* MAX_SETTLE_SECONDS, in rounds
  EdgeRate,     \* packets the edge node gets through in a round, while there are any
  MaxTrouble    \* bound on failed sends, lost packets, restarts and interrupts

ASSUME WindowAssumption == SmallWindow \in Nat \ {0} /\ LargeWindow \in Nat /\ SmallWindow < LargeWindow
ASSUME SettleAssumption ==
  Settle \in Nat \ {0} /\ MaxSettle \in Nat /\ EdgeRate \in Nat \ {0} /\ MaxTrouble \in Nat

Sizes == {SmallWindow, LargeWindow}

\* A job: its replay_id, the pcap, the number of its packets, its priority.
Rank == [high |-> 0, normal |-> 1, low |-> 2]
JobType == [replay : Nat, pcap : Pcaps, packets : Nat, priority : DOMAIN Rank]
ASSUME ManifestAssumption == Manifests \subseteq Seq(JobType)

\* sorted(manifest, key=_priority_key): jobs of one priority stay in their order.
Before(first, i, second, j) ==
  \/ Rank[first.priority] < Rank[second.priority]
  \/ Rank[first.priority] = Rank[second.priority] /\ i < j
Orders(manifest) ==
  {order \in Bijection(DOMAIN manifest, DOMAIN manifest) :
     \A i, j \in DOMAIN manifest :
       i < j => Before(manifest[order[i]], order[i], manifest[order[j]], order[j])}

NoFlow == "none"    \* flow_id None of a window with packets of several flows

VARIABLES
  jobs,       \* the manifest, sorted by priority
  gen,        \* the generator: "boot", "next", "replay", "drain", "done", "dead"
  current,    \* index of its job
  read, sent, \* packets_read and packets_sent of its job
  answered,   \* replay_pcap returned a dict
  expired,    \* MAX_RUNTIME_SECONDS are over
  truth,      \* truth_log.jsonl
  link,       \* packets on the way to the edge node, and the one it is at
  open,       \* the open window of each size
  aged,       \* the sizes whose open window is past the idle timeout
  items,      \* items_log.jsonl
  missing,    \* <<packet, size>> that no window of that size will hold
  script,     \* start.sh: "wait", "settle", "archived", "removed"
  seen,       \* number of rows at the last round of the settle loop
  stable, waited,
  pace,       \* packets it has got through in this round, up to EdgeRate
  archive,    \* the archived copies of the two logs
  trouble

genVars == <<jobs, gen, current, read, sent, answered, truth>>
edgeVars == <<open, aged, items>>
scriptVars == <<script, seen, stable, waited, archive>>
vars == <<genVars, expired, link, edgeVars, missing, scriptVars, pace, trouble>>

Init ==
  /\ \E manifest \in Manifests : \E order \in Orders(manifest) :
       jobs = [i \in DOMAIN manifest |-> manifest[order[i]]]
  /\ gen = "boot" /\ current = 1 /\ read = 0 /\ sent = 0 /\ answered = FALSE /\ expired = FALSE
  /\ truth = <<>> /\ link = <<>>
  /\ open = [s \in Sizes |-> <<>>] /\ aged = {} /\ items = <<>> /\ missing = {}
  /\ script = "wait" /\ seen = 0 /\ stable = 0 /\ waited = 0 /\ pace = 0
  /\ archive = [truth |-> <<>>, items |-> <<>>]
  /\ trouble = 0

Job == jobs[current]
Trouble == trouble < MaxTrouble /\ trouble' = trouble + 1
ToAll(packet) == {<<packet, s>> : s \in Sizes}
------------------------------------------------------------------------------
(* main, run_manifest and replay_pcap.                                     *)

Record(status, packets) ==
  [replay |-> Job.replay, flow |-> Job.pcap, status |-> status, start |-> current, read |-> packets]

\* main asks for the address of the tunnel until there is one, for ever if
\* there is none.
GetAddress ==
  /\ gen = "boot"
  /\ gen' = "next"
  /\ UNCHANGED <<jobs, current, read, sent, answered, truth, expired, link, edgeVars, missing,
                 scriptVars, pace, trouble>>

StartJob ==
  /\ gen = "next" /\ current <= Len(jobs) /\ ~ expired
  /\ truth' = Append(truth, Record("started", 0))
  /\ gen' = "replay" /\ read' = 0 /\ sent' = 0 /\ answered' = TRUE
  /\ UNCHANGED <<jobs, current, expired, link, edgeVars, missing, scriptVars, pace, trouble>>

\* The loop of run_manifest is over, or time_expired() ends it.
EndManifest ==
  /\ gen = "next" /\ (current > Len(jobs) \/ expired)
  /\ gen' = "done"
  /\ UNCHANGED <<jobs, current, read, sent, answered, truth, expired, link, edgeVars, missing,
                 scriptVars, pace, trouble>>

\* The tunnel has no address: replay_pcap returns 0.
NoAddress ==
  /\ gen = "replay" /\ read = 0 /\ Trouble
  /\ gen' = "drain" /\ answered' = FALSE
  /\ UNCHANGED <<jobs, current, read, sent, truth, expired, link, edgeVars, missing, scriptVars, pace>>

Packet == [flow |-> Job.pcap, id |-> read]

CanRead == gen = "replay" /\ read < Job.packets /\ ~ expired

SendPacket ==
  /\ CanRead
  /\ read' = read + 1 /\ sent' = sent + 1
  /\ link' = Append(link, Packet)
  /\ UNCHANGED <<jobs, gen, current, answered, truth, expired, edgeVars, missing, scriptVars, pace, trouble>>

\* OSError: the packet is read and not sent.
SendFails ==
  /\ CanRead /\ Trouble
  /\ read' = read + 1
  /\ missing' = missing \cup ToAll(Packet)
  /\ UNCHANGED <<jobs, gen, current, sent, answered, truth, expired, link, edgeVars, scriptVars, pace>>

\* The end of the file or the deadline.
EndReplay ==
  /\ gen = "replay" /\ ~ CanRead
  /\ gen' = "drain"
  /\ UNCHANGED <<jobs, current, read, sent, answered, truth, expired, link, edgeVars, missing,
                 scriptVars, pace, trouble>>

\* The completed record, after SCHEDULER_DRAIN_SECONDS.
CompleteJob ==
  /\ gen = "drain" /\ answered
  /\ truth' = Append(truth, Record("completed", read))
  /\ gen' = "next" /\ current' = current + 1
  /\ UNCHANGED <<jobs, read, sent, answered, expired, link, edgeVars, missing, scriptVars, pace, trouble>>

\* pkt_sent["packets_read"] of an int.
CompleteRaises ==
  /\ gen = "drain" /\ ~ answered
  /\ gen' = "dead"
  /\ UNCHANGED <<jobs, current, read, sent, answered, truth, expired, link, edgeVars, missing,
                 scriptVars, pace, trouble>>

\* The container is stopped, or an exception nobody catches.
GeneratorDies ==
  /\ gen \in {"boot", "next", "replay", "drain"} /\ Trouble
  /\ gen' = "dead"
  /\ UNCHANGED <<jobs, current, read, sent, answered, truth, expired, link, edgeVars, missing,
                 scriptVars, pace>>

Expire ==
  /\ ~ expired /\ Trouble
  /\ expired' = TRUE
  /\ UNCHANGED <<genVars, link, edgeVars, missing, scriptVars, pace>>
------------------------------------------------------------------------------
(* The edge node.                                                          *)

FlowsIn(packets) == {packets[i].flow : i \in DOMAIN packets}

\* Mutant: a window belongs to the flow of its first packet.
RowOfFirst(packets, size) == [flow |-> packets[1].flow, packets |-> ToSet(packets), size |-> size]

\* The row of a window: flow_id only if all its packets have the same.
RowOf(packets, size) ==
  [flow |-> IF Cardinality(FlowsIn(packets)) = 1 THEN packets[1].flow ELSE NoFlow,
   packets |-> ToSet(packets), size |-> size]

\* The rows of windows that close together, that of the small one first.
RowsOf(windows, closed) ==
  (IF SmallWindow \in closed THEN <<RowOf(windows[SmallWindow], SmallWindow)>> ELSE <<>>)
    \o (IF LargeWindow \in closed THEN <<RowOf(windows[LargeWindow], LargeWindow)>> ELSE <<>>)

\* process_original_packet to its end: each window takes the packet; the full
\* ones are closed, and then those that are stale.
Receive ==
  /\ link # <<>>
  /\ LET with == [s \in Sizes |-> Append(open[s], Head(link))]
         full == {s \in Sizes : Len(with[s]) >= s}
         stale == aged \ full
     IN /\ open' = [s \in Sizes |-> IF s \in full \cup stale THEN <<>> ELSE with[s]]
        /\ items' = items \o RowsOf(with, full) \o RowsOf(with, stale)
  /\ aged' = {}
  /\ link' = Tail(link) /\ pace' = IF pace < EdgeRate THEN pace + 1 ELSE pace
  /\ UNCHANGED <<genVars, expired, missing, scriptVars, trouble>>

\* The open windows with the packet, for the sizes that have come to it.
Filled(into) == [s \in Sizes |-> IF s \in into THEN Append(open[s], Head(link)) ELSE open[s]]
PacketsIn(windows, sizes) == UNION {ToSet(windows[s]) \X {s} : s \in sizes}

\* A handler raises, or the process is killed in it: the packet is in the windows
\* it had come to, and of the windows some leave a row, their own or that of the
\* flush in the finally block of main.  The container is started again.
PacketFails ==
  /\ link # <<>> /\ Trouble
  /\ \E into \in {{}, {SmallWindow}, Sizes}, written \in SUBSET Sizes :
       /\ into # Sizes \/ written # Sizes
       /\ items' = items \o RowsOf(Filled(into), {s \in written : Filled(into)[s] # <<>>})
       /\ missing' = missing \cup PacketsIn(Filled(into), Sizes \ written)
                            \cup {Head(link)} \X (Sizes \ into)
  /\ open' = [s \in Sizes |-> <<>>] /\ aged' = {}
  /\ link' = Tail(link)
  /\ UNCHANGED <<genVars, expired, scriptVars, pace>>

\* The idle timeout of the open windows passes; nobody notices before the next packet.
Age ==
  /\ Trouble
  /\ aged' = {s \in Sizes : open[s] # <<>>} /\ aged' # aged
  /\ UNCHANGED <<genVars, expired, link, open, items, missing, scriptVars, pace>>

Lose ==
  /\ link # <<>> /\ Trouble
  /\ missing' = missing \cup ToAll(Head(link))
  /\ link' = Tail(link)
  /\ UNCHANGED <<genVars, expired, edgeVars, scriptVars, pace>>

\* The container is killed between two packets and started again: the open
\* windows are gone.
RestartEdge ==
  /\ Trouble
  /\ missing' = missing \cup PacketsIn(open, Sizes)
  /\ open' = [s \in Sizes |-> <<>>] /\ aged' = {}
  /\ UNCHANGED <<genVars, expired, link, items, scriptVars, pace>>
------------------------------------------------------------------------------
(* start.sh.                                                               *)

\* Mutant: only a generator that ends by itself is waited for.
WaitEndsDone ==
  /\ script = "wait" /\ gen = "done"
  /\ script' = "settle"
  /\ UNCHANGED <<genVars, expired, link, edgeVars, missing, seen, stable, waited, archive, pace, trouble>>

\* docker wait reaf-traffic.
WaitEnds ==
  /\ script = "wait" /\ gen \in {"done", "dead"}
  /\ script' = "settle"
  /\ UNCHANGED <<genVars, expired, link, edgeVars, missing, seen, stable, waited, archive, pace, trouble>>

\* One round of the settle loop, with the pause at its end.  In the first round
\* previous is empty.
Steady == waited > 0 /\ Len(items) = seen

\* Mutant: a round with new rows does not start the count anew.
QuietTotal == IF Steady THEN stable + 1 ELSE stable

Quiet == IF Steady THEN stable + 1 ELSE 0

\* The edge node gets through EdgeRate packets, or all there are, in the pause.
KeepsUp == waited = 0 \/ link = <<>> \/ pace = EdgeRate

SettleRound ==
  /\ script = "settle" /\ waited < MaxSettle /\ Quiet < Settle /\ KeepsUp
  /\ stable' = Quiet /\ seen' = Len(items) /\ waited' = waited + 1 /\ pace' = 0
  /\ UNCHANGED <<genVars, expired, link, edgeVars, missing, script, archive, trouble>>

\* run_layout.py archive; the edge node is still running.
Archive ==
  /\ script = "settle" /\ (waited >= MaxSettle \/ Quiet >= Settle) /\ KeepsUp
  /\ stable' = IF waited < MaxSettle THEN Quiet ELSE stable
  /\ archive' = [truth |-> truth, items |-> items]
  /\ script' = "archived"
  /\ UNCHANGED <<genVars, expired, link, edgeVars, missing, seen, waited, pace, trouble>>

\* end.sh: the containers are removed.
RemoveContainers ==
  /\ script = "archived"
  /\ script' = "removed"
  /\ UNCHANGED <<genVars, expired, link, edgeVars, missing, seen, stable, waited, archive, pace, trouble>>

Running == script # "removed"

Generator == StartJob \/ EndManifest \/ SendPacket \/ EndReplay \/ CompleteJob \/ CompleteRaises
Script == WaitEnds \/ SettleRound \/ Archive \/ RemoveContainers
Troubles == PacketFails \/ NoAddress \/ SendFails \/ GeneratorDies \/ Expire \/ Age \/ Lose \/ RestartEdge

Next == Running /\ (GetAddress \/ Generator \/ Receive \/ Script \/ Troubles)

Spec == Init /\ [][Next]_vars

\* The generator, once it has an address, the edge node and the script go on by
\* themselves.  Nothing says that the tunnel ever gets an address.
FairSpec == Spec /\ WF_vars(Running /\ Generator) /\ WF_vars(Running /\ Script) /\ WF_vars(Running /\ Receive)
------------------------------------------------------------------------------
(* Readers.                                                                *)

\* _build_job_index: a flow's first record, or its last completed one.
FlowsOf(log) == {log[i].flow : i \in DOMAIN log}
Records(log, flow) == {i \in DOMAIN log : log[i].flow = flow}
Completed(log, flow) == {i \in Records(log, flow) : log[i].status = "completed"}

\* Mutant: the first record of a flow stays.
IndexFirst(log) == [flow \in FlowsOf(log) |-> log[Min(Records(log, flow))]]

Index(log) ==
  [flow \in FlowsOf(log) |->
     log[IF Completed(log, flow) = {} THEN Min(Records(log, flow)) ELSE Max(Completed(log, flow))]]

\* compute_joined_rows: the rows whose flow has a job, with it.
Joined(rows, log) ==
  LET index == Index(log)
  IN [i \in {i \in DOMAIN rows : rows[i].flow \in DOMAIN index} |-> index[rows[i].flow]]

\* truth_results.join: packets_received, as the packets behind the number.
Received(rows, log, flow) ==
  {p.id : p \in UNION {rows[i].packets : i \in {i \in DOMAIN Joined(rows, log) : rows[i].flow = flow}}}

\* evaluate_forensic_readiness.  Every pcap of the model has a label of its own.
GroundTruth(log) == {log[i].flow : i \in {i \in DOMAIN log : log[i].status = "completed"}}
InResults(rows, log) == {rows[i].flow : i \in DOMAIN Joined(rows, log)}
Missed(rows, log) == GroundTruth(log) \ InResults(rows, log)

\* Mutant: the first record of a replay_id stays.
EarliestRecords == {i \in DOMAIN truth : \A j \in DOMAIN truth : truth[j].replay = truth[i].replay => i <= j}

\* /api/current_replay: the latest record of each replay_id, and of those that
\* are not completed the one that started last.
LatestRecords == {i \in DOMAIN truth : \A j \in DOMAIN truth : truth[j].replay = truth[i].replay => j <= i}
InProgress == {truth[i] : i \in {i \in LatestRecords : truth[i].status = "started"}}
CurrentReplay == {job \in InProgress : \A other \in InProgress : other.start <= job.start}
------------------------------------------------------------------------------
(* Properties.                                                             *)

RecordType == [replay : Nat, flow : Pcaps, status : {"started", "completed"}, start : Nat, read : Nat]
PacketType == [flow : Pcaps, id : Nat]
RowType == [flow : Pcaps \cup {NoFlow}, packets : SUBSET PacketType, size : Sizes]

\* Every variable stays in its type, and no window is full and open.
TypeOK ==
  /\ jobs \in Seq(JobType) /\ current \in 1..(Len(jobs) + 1)
  /\ gen \in {"boot", "next", "replay", "drain", "done", "dead"}
  /\ script \in {"wait", "settle", "archived", "removed"}
  /\ read \in Nat /\ sent \in 0..read /\ answered \in BOOLEAN /\ expired \in BOOLEAN
  /\ truth \in Seq(RecordType) /\ items \in Seq(RowType) /\ link \in Seq(PacketType)
  /\ open \in [Sizes -> Seq(PacketType)] /\ \A s \in Sizes : Len(open[s]) < s
  /\ aged \subseteq Sizes /\ missing \subseteq PacketType \X Sizes
  /\ seen \in Nat /\ stable \in 0..Settle /\ waited \in 0..MaxSettle /\ pace \in 0..EdgeRate
  /\ archive.truth \in Seq(RecordType) /\ archive.items \in Seq(RowType)
  /\ trouble \in 0..MaxTrouble

\* What the dashboard shows as running is running, or has died in the middle;
\* and while the generator is at a job, the dashboard shows that one.
ShowsTheRunningJob ==
  /\ gen \in {"replay", "drain"} => {job.start : job \in CurrentReplay} = {current}
  /\ gen \in {"boot", "next", "done"} => CurrentReplay = {}

\* The number of packets received of a completed job falls short of the packets
\* read only by packets that a window of each size accounts for: one that is
\* still open, one that has packets of another job too, or none, because the
\* packet got lost.  No row is attributed to the wrong job.
Unfinished(packet, s) ==
  \/ <<packet, s>> \in missing
  \/ packet \in ToSet(link) \cup ToSet(open[s])
  \/ \E i \in DOMAIN items : items[i].size = s /\ items[i].flow = NoFlow /\ packet \in items[i].packets

RecallIsExplained ==
  \A flow \in DOMAIN Index(truth) : Index(truth)[flow].status = "completed" =>
    \A id \in 0..(Index(truth)[flow].read - 1) :
      \/ id \in Received(items, truth, flow)
      \/ \A s \in Sizes : Unfinished([flow |-> flow, id |-> id], s)

Archived == script \in {"archived", "removed"}

\* If the edge node gets through as many packets in Settle rounds as the small
\* window holds (10 in the 30 seconds of SETTLE_SECONDS), and nothing gets lost, an
\* experiment whose logs have settled is archived with nothing left in the tunnel
\* and no row after the archive, and the validation misses no attack type but of
\* jobs that are too short to have the small window to themselves.
SettledIsComplete ==
  (SmallWindow <= EdgeRate * Settle /\ missing = {} /\ Archived /\ stable >= Settle) =>
    /\ link = <<>> /\ items = archive.items
    /\ \A flow \in Missed(archive.items, archive.truth) : Index(archive.truth)[flow].read < 2 * SmallWindow - 1

\* The archive has the completed record of every job that was replayed to its
\* end, unless the generator died: the join of the archive knows the number of
\* packets read of every flow that has a row.
ArchiveHasTheJobs ==
  Archived =>
    \A i \in DOMAIN Joined(archive.items, archive.truth) :
      \/ Joined(archive.items, archive.truth)[i].status = "completed"
      \/ gen = "dead" /\ archive.items[i].flow = Job.pcap

\* An experiment whose generator gets an address, or dies without one, comes to
\* its archive and its end, however the jobs end.
ExperimentEnds == gen # "boot" ~> script = "removed"
==============================================================================
