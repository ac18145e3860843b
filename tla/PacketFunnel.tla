----------------------------- MODULE PacketFunnel ----------------------------
(***************************************************************************)
(* The way of a replayed packet to the window builders: replay_pcap splits *)
(* it into envelope chunks (replay_engine.py, build_envelope.py), the      *)
(* tunnel carries them as UDP datagrams, and on_packet of capture.py puts  *)
(* them together again (envelope_ressemble.py), drops what is not IPv4,    *)
(* reassembles IP fragments (fragment_reassembly.py) and counts where each *)
(* packet stops (bump, flush_counters).                                    *)
(*                                                                         *)
(* A chunk's payload is known by its flow, packet and index.  What happens *)
(* to a processed packet is the subject of EdgeNode.                       *)
(***************************************************************************)
EXTENDS Integers, Sequences, FiniteSets, Bags

CONSTANTS
  Flows,            \* id_for(pcap_path) of the jobs
  Pcap,             \* per flow: the frames iter_packets yields
  Jobs,             \* the manifest: flows in the order of their replay
  Trains,           \* (src, dst, proto, id) of fragmented packets
  NoTrain,          \* the frame is not a fragment
  EnvelopeTimeout,  \* EnvelopeReassembler.timeout
  FragmentTimeout,  \* FragmentReassembler.timeout
  FlushEvery,       \* FLUSH_EVERY
  MaxTime,          \* bound on the clock
  MaxLosses,        \* bound on the datagrams lost
  MaxDups,          \* bound on the datagrams delivered twice
  MaxErrors,        \* bound on the sends that fail
  MaxStops          \* bound on the ends of the capture process

\* A frame is sent as so many chunks; it is IPv4 or not (ARP); a fragment is a
\* numbered part of its train, and the last one has no more-fragments bit.
Frame == [chunks : Nat \ {0}, ipv4 : BOOLEAN,
          train : Trains \cup {NoTrain}, part : Nat, last : BOOLEAN]

ASSUME PcapAssumption == Pcap \in [Flows -> Seq(Frame)] /\ Jobs \in Seq(Flows)
ASSUME TrainAssumption == NoTrain \notin Trains
ASSUME FunnelTimeAssumption ==
  EnvelopeTimeout \in Nat /\ FragmentTimeout \in Nat /\ FlushEvery \in Nat \ {0}

Stages == {"envelopes", "decode_failed", "non_ip_dropped", "held_fragment", "processed"}
Ends == Stages \ {"envelopes"}

Keys == {<<f, i>> : f \in Flows, i \in UNION {DOMAIN Pcap[g] : g \in Flows}}

VARIABLES
  job, packet, chunk, \* sender: position in the manifest, in the file, in the frame
  sent,               \* packets_sent, summed over the runs of a flow
  net,                \* datagrams on their way, a bag of chunks
  now,                \* time.time() of the edge node
  pc,                 \* program point of on_packet
  hand,               \* the envelope on_packet is working on
  buffers,            \* envelope_reassembler._buffers
  trains,             \* reassembler._buffers
  count,              \* by_flow
  bumps,              \* _bumps
  file                \* by_flow as it is in capture_counters.json

\* What is recorded of a run for the properties; no action reads it.
VARIABLES
  losses, dups, errors, stops,
  expired,            \* chunk sets dropped by expire_stale
  heard               \* when the latest datagram was received

sender == <<job, packet, chunk, sent>>
receiver == <<pc, hand, buffers, trains>>
counters == <<count, bumps, file>>
history == <<losses, dups, errors, stops, expired, heard>>
vars == <<sender, net, now, receiver, counters, history>>

NoEntry == [chunks |-> {}, count |-> 0, since |-> 0]
EmptyTrain == [parts |-> <<>>, since |-> 0]
NoEnvelope == [key |-> <<>>, payload |-> <<>>]
NoCounts == [f \in Flows |-> [s \in Stages |-> 0]]

Init ==
  /\ job = 1 /\ packet = 1 /\ chunk = 1
  /\ sent = [f \in Flows |-> 0]
  /\ net = EmptyBag
  /\ now = 0
  /\ pc = "idle" /\ hand = NoEnvelope
  /\ buffers = [k \in Keys |-> NoEntry]
  /\ trains = [t \in Trains |-> EmptyTrain]
  /\ count = NoCounts /\ bumps = 0 /\ file = NoCounts
  /\ losses = 0 /\ dups = 0 /\ errors = 0 /\ stops = 0
  /\ expired = 0 /\ heard = 0
------------------------------------------------------------------------------
(* run_manifest and replay_pcap.                                           *)

Flow == Jobs[job]
Sending == job \in DOMAIN Jobs /\ packet \in DOMAIN Pcap[Flow]

\* send_envelope_chunk of the next chunk of the frame.
SendChunk ==
  /\ Sending
  /\ LET n == Pcap[Flow][packet].chunks IN
       /\ net' = net (+) SetToBag({[flow |-> Flow, id |-> packet, idx |-> chunk, count |-> n]})
       /\ IF chunk < n
          THEN chunk' = chunk + 1 /\ UNCHANGED <<packet, sent>>
          ELSE /\ chunk' = 1 /\ packet' = packet + 1
               /\ sent' = [sent EXCEPT ![Flow] = @ + 1]
  /\ UNCHANGED <<job, now, receiver, counters, history>>

\* Mutant: a frame is counted although its chunks were not all sent.
CountFailed ==
  /\ Sending
  /\ errors < MaxErrors
  /\ errors' = errors + 1
  /\ chunk' = 1 /\ packet' = packet + 1
  /\ sent' = [sent EXCEPT ![Flow] = @ + 1]
  /\ UNCHANGED <<job, net, now, receiver, counters, losses, dups, stops, expired, heard>>

\* An OSError gives up the rest of the frame.
SendFails ==
  /\ Sending
  /\ errors < MaxErrors
  /\ errors' = errors + 1
  /\ chunk' = 1 /\ packet' = packet + 1
  /\ UNCHANGED <<job, sent, net, now, receiver, counters, losses, dups, stops, expired, heard>>

\* The end of the file, or the deadline between two frames.
EndJob ==
  /\ job \in DOMAIN Jobs
  /\ chunk = 1
  /\ job' = job + 1 /\ packet' = 1
  /\ UNCHANGED <<chunk, sent, net, now, receiver, counters, history>>
------------------------------------------------------------------------------
(* on_packet.                                                              *)

Tally(c) ==
  /\ count' = c
  /\ bumps' = bumps + 1
  /\ file' = IF (bumps + 1) % FlushEvery = 0 THEN c ELSE file

\* bump for the flow of the envelope in hand.
Bump(s) == Tally([count EXCEPT ![hand.key[1]][s] = @ + 1])

\* Mutant: packets are told apart by their number only.
NumberOnly(c) == <<CHOOSE f \in Flows : TRUE, c.id>>

\* The key of a chunk set.
KeyOf(c) == <<c.flow, c.id>>

\* The payloads in the order of the chunk index.
Join(chunks) == [i \in 1..Cardinality(chunks) |-> CHOOSE d \in chunks : d.idx = i]

\* entry["chunks"][chunk_index] = payload
PutChunk(entry, c) ==
  [chunks |-> {d \in entry.chunks : d.idx # c.idx} \cup {c},
   count |-> entry.count, since |-> entry.since]

IsComplete(entry) == Cardinality(entry.chunks) >= entry.count

\* What is left in the buffer of a chunk set: a complete one is popped.
LeftOf(entry) == IF IsComplete(entry) THEN NoEntry ELSE entry

\* bump("udp_chunks") and EnvelopeReassembler.feed on datagram c, which stays in
\* the tunnel if it is going to be delivered again.
Receive(c, again) ==
  /\ pc = "idle"
  /\ IF again THEN dups < MaxDups /\ dups' = dups + 1 /\ UNCHANGED net
              ELSE net' = net (-) SetToBag({c}) /\ UNCHANGED dups
  /\ Tally(count)
  /\ heard' = now
  /\ LET k == KeyOf(c)
         old == IF buffers[k] = NoEntry THEN [chunks |-> {}, count |-> c.count, since |-> now]
                                        ELSE buffers[k]
         entry == PutChunk(old, c)
     IN /\ buffers' = [buffers EXCEPT ![k] = LeftOf(entry)]
        /\ hand' = IF IsComplete(entry)
                   THEN [key |-> <<c.flow, c.id>>, payload |-> Join(entry.chunks)] ELSE NoEnvelope
        /\ pc' = IF IsComplete(entry) THEN "envelope" ELSE "idle"
  /\ UNCHANGED <<sender, now, trains, losses, errors, stops, expired>>

InHand == Pcap[hand.key[1]][hand.key[2]]

\* bump("envelopes"), and the decoder.
Decode ==
  /\ pc = "envelope"
  /\ Bump("envelopes")
  /\ pc' \in {"undecodable", IF InHand.ipv4 THEN "ip" ELSE "foreign"}
  /\ UNCHANGED <<sender, net, now, hand, buffers, trains, history>>

\* The early returns of on_packet: nothing is expired.
Drop(point, s) ==
  /\ pc = point
  /\ Bump(s)
  /\ pc' = "idle" /\ hand' = NoEnvelope
  /\ UNCHANGED <<sender, net, now, buffers, trains, history>>

DropUndecodable == Drop("undecodable", "decode_failed")
DropForeign == Drop("foreign", "non_ip_dropped")

IsFragment == InHand.train # NoTrain

\* The train with the part in hand.
Extended ==
  LET entry == IF trains[InHand.train] = EmptyTrain THEN [parts |-> <<>>, since |-> now]
                                                    ELSE trains[InHand.train]
  IN [parts |-> Append(entry.parts, InHand.part), since |-> entry.since]

IsWhole(parts) == {parts[i] : i \in DOMAIN parts} = 1..Len(parts)

\* Mutant: a fragment that is held is not counted.
HoldSilently ==
  /\ pc = "ip"
  /\ IsFragment
  /\ trains' = [trains EXCEPT ![InHand.train] = IF InHand.last THEN EmptyTrain ELSE Extended]
  /\ InHand.last => ~ IsWhole(Extended.parts)
  /\ pc' = "expire"
  /\ UNCHANGED <<sender, net, now, hand, buffers, counters, history>>

\* FragmentReassembler.feed answers None: more fragments are to come, or the
\* last one came in and what there is of the train cannot be put together.
HoldFragment ==
  /\ pc = "ip"
  /\ IsFragment
  /\ trains' = [trains EXCEPT ![InHand.train] = IF InHand.last THEN EmptyTrain ELSE Extended]
  /\ InHand.last => ~ IsWhole(Extended.parts)
  /\ Bump("held_fragment")
  /\ pc' = "expire"
  /\ UNCHANGED <<sender, net, now, hand, buffers, history>>

\* A packet goes on to the window builders: an ordinary one, a train at its last
\* fragment, or what defragment makes of an incomplete train.
Process ==
  /\ pc = "ip"
  /\ IsFragment => InHand.last
  /\ trains' = IF IsFragment THEN [trains EXCEPT ![InHand.train] = EmptyTrain] ELSE trains
  /\ Bump("processed")
  /\ pc' = "expire_trains"
  /\ UNCHANGED <<sender, net, now, hand, buffers, history>>

\* reassembler.expire_stale, at the end of process_original_packet.
ExpireTrains ==
  /\ pc = "expire_trains"
  /\ trains' = [t \in Trains |->
       IF trains[t] # EmptyTrain /\ now - trains[t].since > FragmentTimeout
       THEN EmptyTrain ELSE trains[t]]
  /\ pc' = "expire"
  /\ UNCHANGED <<sender, net, now, hand, buffers, counters, history>>

Stale(k) == buffers[k] # NoEntry /\ now - buffers[k].since > EnvelopeTimeout

\* envelope_reassembler.expire_stale, at the end of on_packet.
ExpireEnvelopes ==
  /\ pc = "expire"
  /\ buffers' = [k \in Keys |-> IF Stale(k) THEN NoEntry ELSE buffers[k]]
  /\ expired' = expired + Cardinality({k \in Keys : Stale(k)})
  /\ pc' = "idle" /\ hand' = NoEnvelope
  /\ UNCHANGED <<sender, net, now, trains, counters, losses, dups, errors, stops, heard>>
------------------------------------------------------------------------------
(* The tunnel, time and the end of the capture process.                    *)

Lose(c) ==
  /\ losses < MaxLosses
  /\ losses' = losses + 1
  /\ net' = net (-) SetToBag({c})
  /\ UNCHANGED <<sender, now, receiver, counters, dups, errors, stops, expired, heard>>

Tick ==
  /\ now < MaxTime
  /\ now' = now + 1
  /\ UNCHANGED <<sender, net, receiver, counters, history>>

\* The process ends, through the finally block of main (flush_counters) or not,
\* and the container is started again.
Stop ==
  /\ stops < MaxStops
  /\ stops' = stops + 1
  /\ file' \in {count, file}
  /\ pc' = "idle" /\ hand' = NoEnvelope
  /\ buffers' = [k \in Keys |-> NoEntry]
  /\ trains' = [t \in Trains |-> EmptyTrain]
  /\ count' = NoCounts /\ bumps' = 0
  /\ UNCHANGED <<sender, net, now, losses, dups, errors, expired, heard>>

Next ==
  \/ SendChunk \/ SendFails \/ EndJob
  \/ \E c \in BagToSet(net) : Lose(c)
  \/ \E c \in BagToSet(net), again \in BOOLEAN : Receive(c, again)
  \/ Decode \/ DropUndecodable \/ DropForeign \/ HoldFragment \/ Process
  \/ ExpireTrains \/ ExpireEnvelopes
  \/ Tick \/ Stop

Spec == Init /\ [][Next]_vars
------------------------------------------------------------------------------
(* Properties.                                                             *)

Sum(c) == c["decode_failed"] + c["non_ip_dropped"] + c["held_fragment"] + c["processed"]

Chunks == [flow : Flows, id : Nat, idx : Nat, count : Nat]

\* Every variable stays in its type.
TypeOK ==
  /\ job \in Nat /\ packet \in Nat /\ chunk \in Nat
  /\ sent \in [Flows -> Nat]
  /\ BagToSet(net) \subseteq Chunks
  /\ now \in Nat /\ heard \in Nat
  /\ pc \in {"idle", "envelope", "undecodable", "foreign", "ip", "expire_trains", "expire"}
  /\ pc = "idle" <=> hand = NoEnvelope
  /\ hand # NoEnvelope => (hand.key \in Keys /\ hand.payload \in Seq(Chunks))
  /\ buffers \in [Keys -> [chunks : SUBSET Chunks, count : Nat, since : Nat]]
  /\ trains \in [Trains -> [parts : Seq(Nat), since : Nat]]
  /\ count \in [Flows -> [Stages -> Nat]] /\ file \in [Flows -> [Stages -> Nat]]
  /\ bumps \in Nat /\ expired \in Nat
  /\ losses \in Nat /\ dups \in Nat /\ errors \in Nat /\ stops \in Nat

\* Whatever the tunnel loses, repeats and reorders, and whatever is left in the
\* buffer of earlier runs of a job, the packet that is handed on is made of all
\* the chunks of one packet in their order, each once.
PayloadIntact ==
  hand # NoEnvelope =>
    LET f == hand.key[1]  i == hand.key[2]  n == Pcap[f][i].chunks IN
    hand.payload = [x \in 1..n |-> [flow |-> f, id |-> i, idx |-> x, count |-> n]]

Pending(f) == IF pc \in {"undecodable", "foreign", "ip"} /\ hand.key[1] = f THEN 1 ELSE 0

\* "where each replayed packet stops": per flow, every envelope is counted at
\* exactly one end of the funnel, or it is the one in hand; and the counters
\* file, whenever it was written, is at most one packet short of this.
FunnelBalance ==
  /\ \A f \in Flows : count[f]["envelopes"] = Sum(count[f]) + Pending(f)
  /\ \A f \in Flows : file[f]["envelopes"] - Sum(file[f]) \in 0..1
  /\ \A f, g \in Flows :
       (file[f]["envelopes"] # Sum(file[f]) /\ file[g]["envelopes"] # Sum(file[g])) => f = g

Emitted(f) == count[f]["envelopes"] + IF pc = "envelope" /\ hand.key[1] = f THEN 1 ELSE 0

Replays(f) == Cardinality({j \in DOMAIN Jobs : Jobs[j] = f})
Waiting == {k \in Keys : buffers[k] # NoEntry}
Quiet == job \notin DOMAIN Jobs /\ net = EmptyBag

\* A job's packets are recognised no more often than they were sent, but for
\* datagrams delivered twice; and of a job that is replayed once, when all is
\* quiet, each packet that was sent is recognised, but for at most one packet
\* per datagram lost and per chunk set expired, so that recall is never
\* above 100% and falls only with losses.
RecallIsHonest ==
  \A f \in Flows :
    /\ Emitted(f) <= sent[f] + dups
    /\ (Quiet /\ stops = 0 /\ Replays(f) <= 1) => sent[f] <= Emitted(f) + losses + expired

\* No chunk set is complete but still waiting, and what waits is a proper part
\* of the packet it is filed under.
BuffersHoldParts ==
  \A k \in Waiting :
    /\ buffers[k].count = Pcap[k[1]][k[2]].chunks
    /\ Cardinality(buffers[k].chunks) \in 1..(buffers[k].count - 1)
------------------------------------------------------------------------------
(* What comments of the repository say of this part.                       *)

\* envelope_ressemble.py: expire_stale "Drops chunk sets whose remaining pieces
\* never arrived, so the buffer can't grow unbounded": no chunk set is older
\* than the timeout once a later datagram has been handled.
BufferExpires ==
  pc = "idle" => \A k \in Waiting : heard - buffers[k].since <= EnvelopeTimeout
==============================================================================
