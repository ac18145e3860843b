---------------------------- MODULE MCPcapSampler ----------------------------
(* PcapSampler on small files.                                              *)
EXTENDS PcapSampler

\* All files of up to five packets, and longer ones without other packets.
SmallSources ==
  UNION {[1..n -> BOOLEAN] : n \in 0..5} \cup {[k \in 1..n |-> TRUE] : n \in 6..12}
==============================================================================
