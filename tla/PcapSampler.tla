----------------------------- MODULE PcapSampler -----------------------------
(***************************************************************************)
(* sample_pcap_contiguous of flow_samples.py: contiguous blocks of packets *)
(* are taken from a source pcap, one at a random place of each of several  *)
(* equal segments, in two passes over the file: one that counts the IPv4   *)
(* packets and one that copies those in a block.                           *)
(***************************************************************************)
EXTENDS Integers, FiniteSets, SequencesExt

CONSTANTS
  Sources,      \* the files to choose from: for each packet, whether it is IPv4
  Targets,      \* target_packets
  BlockNumbers, \* num_blocks
  WindowSize,   \* WINDOW_SIZE
  MaxPackets,   \* max_packets: the packets of the source that are looked at
  MaxBlock      \* max_block_packets

ASSUME NumbersAssumption ==
  /\ Targets \subseteq Nat \ {0} /\ BlockNumbers \subseteq Nat \ {0} /\ MaxPackets \in Nat
  /\ WindowSize \in Nat \ {0} /\ MaxBlock \in Nat /\ MaxBlock >= WindowSize
ASSUME SourcesAssumption == \A s \in Sources : s \in Seq(BOOLEAN)

VARIABLES
  source, target, numBlocks,    \* the arguments
  pass,         \* "count", "plan", "copy", "done"
  i,            \* packets of the source read in this pass
  total,        \* total_ip_packets
  blocks,       \* [start, end) of each block, as indexes of IPv4 packets from 0
  seen,         \* ip_seen
  block,        \* block_idx + 1
  written       \* the packets copied: [ip, block]

samplerVars == <<source, target, numBlocks, pass, i, total, blocks, seen, block, written>>
arguments == <<source, target, numBlocks>>

SamplerInit ==
  /\ source \in Sources /\ target \in Targets /\ numBlocks \in BlockNumbers
  /\ pass = "count" /\ i = 0 /\ total = 0 /\ blocks = <<>>
  /\ seen = 0 /\ block = 1 /\ written = <<>>

AtEnd == i = Len(source) \/ i >= MaxPackets
IsIp == source[i + 1]

CountPacket ==
  /\ pass = "count" /\ ~ AtEnd
  /\ i' = i + 1
  /\ total' = IF IsIp THEN total + 1 ELSE total
  /\ UNCHANGED <<arguments, pass, blocks, seen, block, written>>

\* Without an IPv4 packet there is no sample.
EndCount ==
  /\ pass = "count" /\ AtEnd
  /\ pass' = IF total = 0 THEN "done" ELSE "plan"
  /\ UNCHANGED <<arguments, i, total, blocks, seen, block, written>>
------------------------------------------------------------------------------
(* The plan.                                                               *)

AtLeastOne(n) == IF n < 1 THEN 1 ELSE n
Smaller(a, b) == IF a < b THEN a ELSE b
Windows(n) == (n \div WindowSize) * WindowSize

Take == Smaller(target, total)
Wanted == AtLeastOne(Smaller(numBlocks, Take))
TooBig == Windows(Take \div Wanted) > MaxBlock

\* block_size and n_blocks: more blocks of at most MaxBlock packets, and a
\* window where there is less than one for each block.
BlockSize ==
  IF TooBig THEN Windows(MaxBlock)
  ELSE IF Windows(Take \div Wanted) = 0 THEN WindowSize ELSE Windows(Take \div Wanted)
BlockCount == IF TooBig THEN AtLeastOne(Take \div BlockSize) ELSE Wanted
SegmentLen == total \div BlockCount

\* The starts rng.randint can choose for block b.
SegmentStart(b) == (b - 1) * SegmentLen

\* Mutant: the end of a segment is one packet further.
SegmentEndClosed(b) == IF b = BlockCount THEN total + 1 ELSE SegmentStart(b) + SegmentLen + 1

SegmentEnd(b) == IF b = BlockCount THEN total ELSE SegmentStart(b) + SegmentLen
Starts(b) ==
  LET latest == SegmentEnd(b) - BlockSize
  IN IF latest > SegmentStart(b) THEN SegmentStart(b)..latest ELSE {SegmentStart(b)}

PlanBlocks(start) ==
  /\ pass = "plan"
  /\ blocks' = [b \in 1..BlockCount |-> [start |-> start[b], end |-> start[b] + BlockSize]]
  /\ pass' = "copy" /\ i' = 0
  /\ UNCHANGED <<arguments, total, seen, block, written>>

\* The blocks are chosen one after the other, each in its own segment.
StartChoices ==
  {start \in [1..BlockCount -> 0..total] : \A b \in 1..BlockCount : start[b] \in Starts(b)}
------------------------------------------------------------------------------
(* The second pass.                                                        *)

\* Mutant: the end belongs to the block.
InsideClosed == blocks[block].start <= seen /\ seen <= blocks[block].end

Inside == blocks[block].start <= seen /\ seen < blocks[block].end

SkipPacket ==
  /\ pass = "copy" /\ ~ AtEnd /\ block <= Len(blocks) /\ ~ IsIp
  /\ i' = i + 1
  /\ UNCHANGED <<arguments, pass, total, blocks, seen, block, written>>

CopyPacket ==
  /\ pass = "copy" /\ ~ AtEnd /\ block <= Len(blocks) /\ IsIp /\ Inside
  /\ i' = i + 1 /\ seen' = seen + 1
  /\ written' = Append(written, [ip |-> seen, block |-> block])
  /\ UNCHANGED <<arguments, pass, total, blocks, block>>

\* Mutant: a packet in front of a block ends it too.
LeavePacketEarly ==
  /\ pass = "copy" /\ ~ AtEnd /\ block <= Len(blocks) /\ IsIp /\ ~ Inside
  /\ i' = i + 1 /\ seen' = seen + 1
  /\ block' = block + 1
  /\ UNCHANGED <<arguments, pass, total, blocks, written>>

\* A packet behind the block ends it, and is not looked at again.
LeavePacket ==
  /\ pass = "copy" /\ ~ AtEnd /\ block <= Len(blocks) /\ IsIp /\ ~ Inside
  /\ i' = i + 1 /\ seen' = seen + 1
  /\ block' = IF seen >= blocks[block].end THEN block + 1 ELSE block
  /\ UNCHANGED <<arguments, pass, total, blocks, written>>

EndCopy ==
  /\ pass = "copy" /\ (AtEnd \/ block > Len(blocks))
  /\ pass' = "done"
  /\ UNCHANGED <<arguments, i, total, blocks, seen, block, written>>

SamplerNext ==
  \/ CountPacket \/ EndCount
  \/ pass = "plan" /\ \E start \in StartChoices : PlanBlocks(start)
  \/ SkipPacket \/ CopyPacket \/ LeavePacket \/ EndCopy

SamplerSpec == SamplerInit /\ [][SamplerNext]_samplerVars
------------------------------------------------------------------------------
(* Properties.                                                             *)

BlockType == [start : Nat, end : Nat]

\* Every variable stays in its type.
SamplerTypeOK ==
  /\ source \in Seq(BOOLEAN) /\ target \in Nat \ {0} /\ numBlocks \in Nat \ {0}
  /\ pass \in {"count", "plan", "copy", "done"}
  /\ i \in 0..Len(source) /\ total \in 0..Len(source) /\ seen \in 0..total
  /\ blocks \in Seq(BlockType) /\ block \in 1..(Len(blocks) + 1)
  /\ written \in Seq([ip : Nat, block : Nat \ {0}])

\* Where the segments are long enough for a block, no packet is planned twice and
\* every planned packet is in the file.  More packets are planned than asked for
\* only where there is less than a window for each block: then every block asked
\* for is planned, with a whole window.
Roomy == BlockSize <= SegmentLen
PlanFits ==
  (pass \in {"copy", "done"} /\ total > 0 /\ Roomy) =>
    /\ \A b \in DOMAIN blocks : blocks[b].end <= total
    /\ \A b \in 2..Len(blocks) : blocks[b - 1].end <= blocks[b].start
    /\ Len(blocks) * BlockSize <= Take \/ (Len(blocks) = Wanted /\ BlockSize = WindowSize)

\* The sample holds packets of its blocks, in the order of the source and each
\* at most once, under the block they belong to.
SampleIsInOrder ==
  /\ \A k \in DOMAIN written :
       blocks[written[k].block].start <= written[k].ip /\ written[k].ip < blocks[written[k].block].end
  /\ \A k \in 2..Len(written) : written[k - 1].ip < written[k].ip

\* The reference: every packet of the file that is in a block.  When the
\* sampler is done, only packets right behind another block are missing, at
\* most one for each boundary.
Planned == {p \in 0..(total - 1) : \E b \in DOMAIN blocks : blocks[b].start <= p /\ p < blocks[b].end}
Copied == {written[k].ip : k \in DOMAIN written}
BoundaryLoss ==
  pass = "done" =>
    Planned \ Copied \subseteq {blocks[b].end : b \in 1..(Len(blocks) - 1)}

\* "block_size is a multiple of WINDOW_SIZE so a block boundary never splits a
\* live window": what is written before a block is a number of whole windows.
BoundariesDoNotSplit ==
  (pass = "done" /\ Roomy) =>
    \A k \in 2..Len(written) :
      written[k].block # written[k - 1].block => (k - 1) % WindowSize = 0
==============================================================================
