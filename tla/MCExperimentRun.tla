--------------------------- MODULE MCExperimentRun ---------------------------
(* ExperimentRun on small instances: two manifests.                         *)
EXTENDS ExperimentRun

A(replay, packets, priority) == [replay |-> replay, pcap |-> "A", packets |-> packets, priority |-> priority]
B(replay, packets, priority) == [replay |-> replay, pcap |-> "B", packets |-> packets, priority |-> priority]

\* Two pcaps out of order, and one pcap twice.
SmallManifests == {<<B(1, 2, "low"), A(2, 4, "high")>>, <<A(1, 3, "normal"), B(2, 1, "high"), A(3, 3, "normal")>>}
==============================================================================
