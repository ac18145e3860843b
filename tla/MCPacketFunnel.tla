---------------------------- MODULE MCPacketFunnel ---------------------------
(* PacketFunnel on small instances: the pcap files of two jobs.             *)
EXTENDS PacketFunnel, TLC

CONSTANTS f1, f2, t1

Arp == [chunks |-> 1, ipv4 |-> FALSE, train |-> NoTrain, part |-> 0, last |-> TRUE]
Part(i, n, last) == [chunks |-> n, ipv4 |-> TRUE, train |-> t1, part |-> i, last |-> last]

\* The first job is replayed again after the second.
FirstAgain == <<f1, f2, f1>>

\* A fragmented packet under one (src, dst, proto, id) in both files, with a first
\* fragment that takes two chunks, which has the packet number of an ARP frame.
Fragments == (f1 :> <<Part(1, 2, FALSE)>>) @@ (f2 :> <<Arp, Part(2, 1, TRUE)>>)
==============================================================================
