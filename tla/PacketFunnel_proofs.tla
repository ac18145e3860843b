-------------------------- MODULE PacketFunnel_proofs --------------------------
(***************************************************************************)
(* What TLAPS proves of PacketFunnel for any files and manifest and any    *)
(* number of losses, repetitions, failed sends and restarts: typing, that  *)
(* packets come out whole, that the buffer holds proper parts of packets,  *)
(* that the counters add up, and that recall counts what was recognised.   *)
(***************************************************************************)
EXTENDS PacketFunnel, FiniteSetTheorems, TLAPS

USE PcapAssumption, TrainAssumption, FunnelTimeAssumption

\* The keys of the frames there are.
RealKeys == {k \in Keys : k[2] \in DOMAIN Pcap[k[1]]}

SizeOf(k) == Pcap[k[1]][k[2]].chunks

\* Chunk x of the frame with key k, and all of its chunks.
ChunkOf(k, x) == [flow |-> k[1], id |-> k[2], idx |-> x, count |-> SizeOf(k)]
AllOf(k) == {ChunkOf(k, x) : x \in 1..SizeOf(k)}
------------------------------------------------------------------------------
(* Lemmas on bags, keys and chunks.                                        *)

\* What is sent joins what is on its way.
LEMMA AddToTunnel ==
  ASSUME NEW B, NEW e
  PROVE  BagToSet(B (+) SetToBag({e})) = BagToSet(B) \cup {e}
BY DEF (+), SetToBag, BagToSet

\* Taking a copy of a datagram away adds none.
LEMMA TakeFromTunnel ==
  ASSUME NEW B, NEW e
  PROVE  BagToSet(B (-) SetToBag({e})) \subseteq BagToSet(B)
BY DEF (-), SetToBag, BagToSet

\* A frame that is in a file has a key of the right shape.
LEMMA RealKeyFacts ==
  ASSUME NEW k \in RealKeys
  PROVE  /\ k \in Keys
         /\ k[1] \in Flows /\ k[2] \in Nat
         /\ k = <<k[1], k[2]>>
         /\ Pcap[k[1]][k[2]] \in Frame
         /\ SizeOf(k) \in Nat \ {0}
<1>1. PICK f \in Flows, i \in UNION {DOMAIN Pcap[g] : g \in Flows} : k = <<f, i>>
  BY DEF RealKeys, Keys
<1>2. Pcap[f] \in Seq(Frame) /\ i \in DOMAIN Pcap[f]
  BY <1>1 DEF RealKeys
<1>3. i \in Nat /\ Pcap[f][i] \in Frame
  BY <1>2
<1>4. QED
  BY <1>1, <1>3 DEF RealKeys, SizeOf, Frame

\* The frame at a position of a file has a key.
LEMMA KeyOfFrame ==
  ASSUME NEW f \in Flows, NEW i \in DOMAIN Pcap[f]
  PROVE  <<f, i>> \in RealKeys
BY DEF RealKeys, Keys

\* A chunk names the frame it is of.
LEMMA ChunkFacts ==
  ASSUME NEW k \in RealKeys, NEW c \in AllOf(k)
  PROVE  /\ c \in Chunks
         /\ KeyOf(c) = k
         /\ c.count = SizeOf(k)
         /\ c.idx \in 1..SizeOf(k)
         /\ c = ChunkOf(k, c.idx)
<1>1. PICK x \in 1..SizeOf(k) : c = ChunkOf(k, x)
  BY DEF AllOf
<1>2. QED
  BY <1>1, RealKeyFacts DEF ChunkOf, Chunks, KeyOf

\* A frame has as many chunks as it says.
LEMMA AllOfFinite ==
  ASSUME NEW k \in RealKeys
  PROVE  IsFiniteSet(AllOf(k)) /\ Cardinality(AllOf(k)) = SizeOf(k)
<1> DEFINE g == [x \in 1..SizeOf(k) |-> ChunkOf(k, x)]
<1>1. SizeOf(k) \in Nat
  BY RealKeyFacts
<1>2. IsFiniteSet(1..SizeOf(k)) /\ Cardinality(1..SizeOf(k)) = SizeOf(k)
  BY <1>1, FS_Interval
<1>3. g \in Bijection(1..SizeOf(k), AllOf(k))
  <2>1. g \in [1..SizeOf(k) -> AllOf(k)] /\ \A c \in AllOf(k) : \E x \in 1..SizeOf(k) : g[x] = c
    BY DEF AllOf
  <2>2. \A x, y \in 1..SizeOf(k) : g[x] = g[y] => x = y
    BY DEF ChunkOf
  <2>3. QED
    BY <2>1, <2>2 DEF Bijection, Injection, Surjection, IsInjective
<1>4. ExistsBijection(1..SizeOf(k), AllOf(k))
  BY <1>3 DEF ExistsBijection
<1>5. QED
  BY <1>2, <1>4, FS_Bijection

\* What is put together from all chunks of a frame is the frame.
LEMMA JoinAll ==
  ASSUME NEW k \in RealKeys
  PROVE  Join(AllOf(k)) = [x \in 1..SizeOf(k) |-> ChunkOf(k, x)]
<1>1. ASSUME NEW x \in 1..SizeOf(k)
      PROVE  (CHOOSE d \in AllOf(k) : d.idx = x) = ChunkOf(k, x)
  <2>1. ChunkOf(k, x) \in AllOf(k) /\ ChunkOf(k, x).idx = x
    BY DEF AllOf, ChunkOf
  <2>2. \A d \in AllOf(k) : d.idx = x => d = ChunkOf(k, x)
    BY ChunkFacts
  <2>3. QED
    BY <2>1, <2>2
<1>2. QED
  BY <1>1, AllOfFinite DEF Join
------------------------------------------------------------------------------
(* The inductive invariant.                                                *)

\* The sender is within the frame it sends.
SenderInStep ==
  /\ chunk >= 1
  /\ Sending => chunk <= Pcap[Flow][packet].chunks

\* What is on its way are chunks of the files.
TunnelGenuine == \A c \in BagToSet(net) : \E k \in RealKeys : c \in AllOf(k)

\* What waits under a key are chunks of the frame with that key, and only
\* finitely many frames wait.
BuffersGenuine ==
  /\ IsFiniteSet(Waiting)
  /\ \A k \in Waiting : k \in RealKeys /\ buffers[k].chunks \subseteq AllOf(k)

\* The packet in hand is one of the files.
HandReal == hand # NoEnvelope => hand.key \in RealKeys

IInv ==
  /\ TypeOK
  /\ SenderInStep
  /\ TunnelGenuine
  /\ BuffersGenuine
  /\ BuffersHoldParts
  /\ HandReal
  /\ PayloadIntact

\* Every chunk set that waits is in its type, and counts the chunks of its frame.
LEMMA WaitingFacts ==
  ASSUME IInv, NEW k \in RealKeys, buffers[k] # NoEntry
  PROVE  /\ buffers[k].chunks \subseteq AllOf(k)
         /\ buffers[k].count = SizeOf(k)
         /\ buffers[k].since \in Nat
<1>1. k \in Waiting /\ k \in Keys
  BY RealKeyFacts DEF Waiting
<1>2. buffers[k] \in [chunks : SUBSET Chunks, count : Nat, since : Nat]
  BY <1>1 DEF IInv, TypeOK
<1>3. buffers[k].count = SizeOf(k) /\ buffers[k].chunks \subseteq AllOf(k)
  BY <1>1 DEF IInv, BuffersHoldParts, BuffersGenuine, SizeOf
<1>4. QED
  BY <1>2, <1>3

\* A datagram completes its frame, which is then in hand and out of the buffer,
\* or makes it a greater proper part.
LEMMA ReceiveEffect ==
  ASSUME IInv, NEW c \in BagToSet(net), NEW again \in BOOLEAN, Receive(c, again)
  PROVE  \E k \in RealKeys :
           \/ /\ buffers' = [buffers EXCEPT ![k] = NoEntry]
              /\ hand' = [key |-> k, payload |-> Join(AllOf(k))]
              /\ pc' = "envelope"
           \/ \E S \in SUBSET AllOf(k), t \in Nat :
                /\ Cardinality(S) \in 1..(SizeOf(k) - 1)
                /\ buffers' = [buffers EXCEPT ![k] =
                                 [chunks |-> S, count |-> SizeOf(k), since |-> t]]
                /\ hand' = NoEnvelope
                /\ pc' = "idle"
<1>1. PICK k \in RealKeys : c \in AllOf(k)
  BY DEF IInv, TunnelGenuine
<1>2. KeyOf(c) = k /\ <<c.flow, c.id>> = k /\ c.count = SizeOf(k)
  BY <1>1, ChunkFacts DEF KeyOf
<1> DEFINE old == IF buffers[k] = NoEntry
                  THEN [chunks |-> {}, count |-> c.count, since |-> now] ELSE buffers[k]
           entry == PutChunk(old, c)
           S == {d \in old.chunks : d.idx # c.idx} \cup {c}
<1>3. /\ buffers' = [buffers EXCEPT ![k] = LeftOf(entry)]
      /\ hand' = IF IsComplete(entry) THEN [key |-> k, payload |-> Join(entry.chunks)]
                                      ELSE NoEnvelope
      /\ pc' = IF IsComplete(entry) THEN "envelope" ELSE "idle"
  BY <1>2 DEF Receive
<1>4. /\ old.count = SizeOf(k)
      /\ old.chunks \subseteq AllOf(k)
      /\ old.since \in Nat
  <2>1. CASE buffers[k] = NoEntry
    <3>1. old = [chunks |-> {}, count |-> SizeOf(k), since |-> now]
      BY <1>2, <2>1
    <3>2. QED
      BY <3>1 DEF IInv, TypeOK
  <2>2. CASE buffers[k] # NoEntry
    <3>1. old = buffers[k]
      BY <2>2
    <3> HIDE DEF old
    <3>2. QED
      BY <2>2, <3>1, WaitingFacts
  <2>3. QED
    BY <2>1, <2>2
<1> HIDE DEF old
<1>5. entry = [chunks |-> S, count |-> SizeOf(k), since |-> old.since]
  BY <1>4 DEF PutChunk
<1>6. S \in SUBSET AllOf(k) /\ S # {}
  BY <1>1, <1>4
<1>7. /\ IsFiniteSet(AllOf(k)) /\ Cardinality(AllOf(k)) = SizeOf(k) /\ SizeOf(k) \in Nat
  BY AllOfFinite, RealKeyFacts
<1> HIDE DEF S, entry
<1>8. /\ IsFiniteSet(S)
      /\ Cardinality(S) \in Nat
      /\ Cardinality(S) <= SizeOf(k)
      /\ Cardinality(S) = SizeOf(k) => S = AllOf(k)
      /\ Cardinality(S) # 0
  BY <1>6, <1>7, FS_Subset, FS_CardinalityType, FS_EmptySet
<1>9. CASE Cardinality(S) >= SizeOf(k)
  <2>1. IsComplete(entry) /\ entry.chunks = AllOf(k)
    BY <1>5, <1>7, <1>8, <1>9 DEF IsComplete
  <2>2. QED
    BY <1>3, <2>1 DEF LeftOf
<1>10. CASE ~ (Cardinality(S) >= SizeOf(k))
  <2>1. ~ IsComplete(entry) /\ Cardinality(S) \in 1..(SizeOf(k) - 1)
    BY <1>5, <1>7, <1>8, <1>10 DEF IsComplete
  <2>2. QED
    BY <1>3, <1>4, <1>5, <1>6, <2>1 DEF LeftOf
<1>11. QED
  BY <1>9, <1>10
------------------------------------------------------------------------------
(* Every step keeps the invariant, one conjunct at a time.                 *)

\* The manifest and its files hold flows and frames.
LEMMA FrameAt ==
  ASSUME NEW j \in DOMAIN Jobs, NEW i \in DOMAIN Pcap[Jobs[j]]
  PROVE  /\ Jobs[j] \in Flows
         /\ i \in Nat
         /\ Pcap[Jobs[j]][i].chunks \in Nat \ {0}
<1>1. Jobs[j] \in Flows
  OBVIOUS
<1>2. Pcap[Jobs[j]] \in Seq(Frame)
  BY <1>1
<1>3. Pcap[Jobs[j]][i] \in Frame /\ i \in Nat
  BY <1>2
<1>4. QED
  BY <1>1, <1>3 DEF Frame

\* The sender goes on within its frame, or begins another one.
LEMMA SenderStep == IInv /\ [Next]_vars => SenderInStep'
<1> SUFFICES ASSUME IInv, [Next]_vars PROVE SenderInStep'
  OBVIOUS
<1>t. chunk \in Nat /\ packet \in Nat /\ job \in Nat /\ SenderInStep
  BY DEF IInv, TypeOK
<1>f. ASSUME chunk' = 1 PROVE SenderInStep'
  <2>1. ASSUME job' \in DOMAIN Jobs, packet' \in DOMAIN Pcap[Jobs[job']]
        PROVE  1 <= Pcap[Jobs[job']][packet'].chunks
    BY <2>1, FrameAt
  <2>2. QED
    BY <1>f, <2>1 DEF SenderInStep, Sending, Flow
<1>1. CASE SendChunk
  <2>1. CASE chunk < Pcap[Flow][packet].chunks
    <3>1. chunk' = chunk + 1 /\ UNCHANGED <<job, packet>> /\ Sending
      BY <1>1, <2>1 DEF SendChunk
    <3>2. Pcap[Flow][packet].chunks \in Nat
      BY <3>1, FrameAt DEF Sending, Flow
    <3>3. QED
      BY <1>t, <2>1, <3>1, <3>2 DEF SenderInStep, Sending, Flow
  <2>2. CASE ~ (chunk < Pcap[Flow][packet].chunks)
    BY <1>1, <1>f, <2>2 DEF SendChunk
  <2>3. QED
    BY <2>1, <2>2
<1>2. CASE SendFails
  BY <1>2, <1>f DEF SendFails
<1>3. CASE EndJob
  BY <1>3, <1>f DEF EndJob
<1>4. CASE UNCHANGED <<job, packet, chunk>>
  BY <1>t, <1>4 DEF SenderInStep, Sending, Flow
<1>5. QED
  BY <1>1, <1>2, <1>3, <1>4
     DEF Next, vars, sender, Lose, Receive, Decode, DropUndecodable, DropForeign, Drop,
         HoldFragment,
         Process, ExpireTrains, ExpireEnvelopes, Tick, Stop

\* Only the sender puts datagrams into the tunnel.
LEMMA TunnelStep ==
  ASSUME IInv, [Next]_vars
  PROVE  TunnelGenuine' /\ BagToSet(net') \subseteq Chunks
<1>g. \A c \in BagToSet(net) : \E k \in RealKeys : c \in AllOf(k)
  BY DEF IInv, TunnelGenuine
<1>1. \A c \in BagToSet(net') : \E k \in RealKeys : c \in AllOf(k)
  <2>1. CASE SendChunk
    <3> DEFINE k == <<Flow, packet>>
               c == [flow |-> Flow, id |-> packet, idx |-> chunk,
                     count |-> Pcap[Flow][packet].chunks]
    <3>1. Sending /\ net' = net (+) SetToBag({c})
      BY <2>1 DEF SendChunk
    <3>2. k \in RealKeys
      BY <3>1, KeyOfFrame, FrameAt DEF Sending, Flow
    <3>3. chunk \in 1..SizeOf(k)
      <4>1. SizeOf(k) \in Nat /\ SizeOf(k) = Pcap[Flow][packet].chunks
        BY <3>2, RealKeyFacts DEF SizeOf
      <4>2. chunk \in Nat /\ chunk >= 1 /\ chunk <= Pcap[Flow][packet].chunks
        BY <3>1 DEF IInv, TypeOK, SenderInStep
      <4>3. QED
        BY <4>1, <4>2
    <3>4. c \in AllOf(k)
      BY <3>3 DEF AllOf, ChunkOf, SizeOf
    <3>5. BagToSet(net') = BagToSet(net) \cup {c}
      BY <3>1, AddToTunnel
    <3> HIDE DEF k, c
    <3>6. QED
      BY <1>g, <3>2, <3>4, <3>5
  <2>2. CASE \E c \in BagToSet(net) : Lose(c)
    <3>1. PICK c \in BagToSet(net) : net' = net (-) SetToBag({c})
      BY <2>2 DEF Lose
    <3>2. QED
      BY <1>g, <3>1, TakeFromTunnel
  <2>3. CASE \E c \in BagToSet(net), again \in BOOLEAN : Receive(c, again)
    <3>1. PICK c \in BagToSet(net) : net' = net \/ net' = net (-) SetToBag({c})
      BY <2>3 DEF Receive
    <3>2. BagToSet(net') \subseteq BagToSet(net)
      BY <3>1, TakeFromTunnel
    <3>3. QED
      BY <1>g, <3>2
  <2>4. CASE UNCHANGED net
    BY <1>g, <2>4
  <2>5. QED
    BY <2>1, <2>2, <2>3, <2>4
       DEF Next, vars, SendFails, EndJob, Decode, DropUndecodable, DropForeign, Drop, HoldFragment,
           Process, ExpireTrains, ExpireEnvelopes, Tick, Stop
<1>2. QED
  BY <1>1, ChunkFacts DEF TunnelGenuine

\* The conjuncts of the invariant that are about the buffer, of a buffer b.
Entry == [chunks : SUBSET Chunks, count : Nat, since : Nat]
GoodBuffer(b) ==
  /\ b \in [Keys -> Entry]
  /\ IsFiniteSet({k \in Keys : b[k] # NoEntry})
  /\ \A k \in Keys : b[k] # NoEntry =>
       /\ k \in RealKeys
       /\ b[k].chunks \subseteq AllOf(k)
       /\ b[k].count = SizeOf(k)
       /\ Cardinality(b[k].chunks) \in 1..(SizeOf(k) - 1)

LEMMA GoodBufferNow == IInv => GoodBuffer(buffers)
BY DEF IInv, TypeOK, BuffersGenuine, BuffersHoldParts, Waiting, GoodBuffer, Entry, SizeOf

LEMMA GoodBufferNext ==
  GoodBuffer(buffers') => BuffersGenuine' /\ BuffersHoldParts' /\ buffers' \in [Keys -> Entry]
BY DEF BuffersGenuine, BuffersHoldParts, Waiting, GoodBuffer, SizeOf

LEMMA NoEntryType == NoEntry \in Entry
BY DEF NoEntry, Entry

\* Taking entries out of a buffer leaves it good.
LEMMA FewerEntries ==
  ASSUME NEW b, GoodBuffer(b), NEW d, d \in [Keys -> Entry],
         \A k \in Keys : d[k] = b[k] \/ d[k] = NoEntry
  PROVE  GoodBuffer(d)
<1>1. {k \in Keys : d[k] # NoEntry} \subseteq {k \in Keys : b[k] # NoEntry}
  OBVIOUS
<1>2. IsFiniteSet({k \in Keys : d[k] # NoEntry})
  BY <1>1, FS_Subset DEF GoodBuffer
<1>3. QED
  BY <1>2 DEF GoodBuffer

\* Putting a proper part of a frame into a buffer leaves it good.
LEMMA OneEntry ==
  ASSUME NEW b, GoodBuffer(b), NEW k \in RealKeys, NEW S \in SUBSET AllOf(k), NEW t \in Nat,
         Cardinality(S) \in 1..(SizeOf(k) - 1)
  PROVE  GoodBuffer([b EXCEPT ![k] = [chunks |-> S, count |-> SizeOf(k), since |-> t]])
<1> DEFINE e == [chunks |-> S, count |-> SizeOf(k), since |-> t]
           d == [b EXCEPT ![k] = e]
<1>1. k \in Keys /\ SizeOf(k) \in Nat
  BY RealKeyFacts
<1>2. e \in Entry /\ e.chunks = S /\ e.count = SizeOf(k)
  BY <1>1, ChunkFacts DEF Entry
<1> HIDE DEF e
<1>3. d \in [Keys -> Entry] /\ d[k] = e /\ \A j \in Keys : j # k => d[j] = b[j]
  BY <1>1, <1>2 DEF GoodBuffer
<1> HIDE DEF d
<1>4. {j \in Keys : d[j] # NoEntry} \subseteq {j \in Keys : b[j] # NoEntry} \cup {k}
  BY <1>3
<1>5. IsFiniteSet({j \in Keys : b[j] # NoEntry} \cup {k})
  BY FS_AddElement DEF GoodBuffer
<1>6. IsFiniteSet({j \in Keys : d[j] # NoEntry})
  BY <1>4, <1>5, FS_Subset
<1>7. GoodBuffer(d)
  BY <1>2, <1>3, <1>6 DEF GoodBuffer
<1>8. QED
  BY <1>7 DEF d, e

\* The buffer grows by Receive only, and loses entries as a whole.
LEMMA BufferStep ==
  ASSUME IInv, [Next]_vars
  PROVE  BuffersGenuine' /\ BuffersHoldParts' /\ buffers' \in [Keys -> Entry]
<1>b. GoodBuffer(buffers) /\ buffers \in [Keys -> Entry]
  BY GoodBufferNow DEF GoodBuffer
<1>1. CASE \E c \in BagToSet(net), again \in BOOLEAN : Receive(c, again)
  <2>1. PICK k \in RealKeys :
          \/ buffers' = [buffers EXCEPT ![k] = NoEntry]
          \/ \E S \in SUBSET AllOf(k), t \in Nat :
               /\ Cardinality(S) \in 1..(SizeOf(k) - 1)
               /\ buffers' = [buffers EXCEPT ![k] =
                                [chunks |-> S, count |-> SizeOf(k), since |-> t]]
    <3>1. PICK c \in BagToSet(net), again \in BOOLEAN : Receive(c, again)
      BY <1>1
    <3>2. QED
      BY <3>1, ReceiveEffect
  <2>2. CASE buffers' = [buffers EXCEPT ![k] = NoEntry]
    <3>1. k \in Keys
      BY RealKeyFacts
    <3>2. /\ buffers' \in [Keys -> Entry]
          /\ \A j \in Keys : buffers'[j] = buffers[j] \/ buffers'[j] = NoEntry
      BY <1>b, <2>2, <3>1, NoEntryType
    <3>3. QED
      BY <1>b, <3>2, FewerEntries, GoodBufferNext
  <2>3. CASE \E S \in SUBSET AllOf(k), t \in Nat :
               /\ Cardinality(S) \in 1..(SizeOf(k) - 1)
               /\ buffers' = [buffers EXCEPT ![k] =
                                [chunks |-> S, count |-> SizeOf(k), since |-> t]]
    <3>1. PICK S \in SUBSET AllOf(k), t \in Nat :
            /\ Cardinality(S) \in 1..(SizeOf(k) - 1)
            /\ buffers' = [buffers EXCEPT ![k] = [chunks |-> S, count |-> SizeOf(k), since |-> t]]
      BY <2>3
    <3>2. GoodBuffer([buffers EXCEPT ![k] = [chunks |-> S, count |-> SizeOf(k), since |-> t]])
      BY <1>b, <3>1, OneEntry
    <3>3. QED
      BY <3>1, <3>2, GoodBufferNext
  <2>4. QED
    BY <2>1, <2>2, <2>3
<1>2. CASE ExpireEnvelopes \/ Stop \/ UNCHANGED buffers
  <2>1. /\ buffers' \in [Keys -> Entry]
        /\ \A j \in Keys : buffers'[j] = buffers[j] \/ buffers'[j] = NoEntry
    BY <1>b, <1>2, NoEntryType DEF ExpireEnvelopes, Stop
  <2>2. QED
    BY <1>b, <2>1, FewerEntries, GoodBufferNext
<1>3. QED
  BY <1>1, <1>2
     DEF Next, vars, receiver, SendChunk, SendFails, EndJob, Lose, Decode, DropUndecodable,
         DropForeign,
         Drop, HoldFragment, Process, ExpireTrains, Tick

\* The packet in hand comes from Receive, as a whole.
LEMMA HandStep ==
  ASSUME IInv, [Next]_vars
  PROVE  HandReal' /\ PayloadIntact'
<1>1. CASE \E c \in BagToSet(net), again \in BOOLEAN : Receive(c, again)
  <2>1. PICK k \in RealKeys : hand' = [key |-> k, payload |-> Join(AllOf(k))] \/ hand' = NoEnvelope
    <3>1. PICK c \in BagToSet(net), again \in BOOLEAN : Receive(c, again)
      BY <1>1
    <3>2. QED
      BY <3>1, ReceiveEffect
  <2>2. CASE hand' = NoEnvelope
    BY <2>2 DEF HandReal, PayloadIntact
  <2>3. CASE hand' = [key |-> k, payload |-> Join(AllOf(k))]
    BY <2>3, JoinAll DEF HandReal, PayloadIntact, ChunkOf, SizeOf
  <2>4. QED
    BY <2>1, <2>2, <2>3
<1>2. CASE hand' = hand \/ hand' = NoEnvelope
  BY <1>2 DEF HandReal, PayloadIntact, IInv
<1>3. QED
  BY <1>1, <1>2
     DEF Next, vars, receiver, SendChunk, SendFails, EndJob, Lose, Decode, DropUndecodable,
         DropForeign,
         Drop, HoldFragment, Process, ExpireTrains, ExpireEnvelopes, Stop, Tick

\* The counters stay in their type.
LEMMA TallyType ==
  ASSUME IInv, NEW c \in [Flows -> [Stages -> Nat]], Tally(c)
  PROVE  /\ count' \in [Flows -> [Stages -> Nat]]
         /\ file' \in [Flows -> [Stages -> Nat]]
         /\ bumps' \in Nat
<1>1. file' = c \/ file' = file
  BY Zenon DEF Tally
<1>2. count' = c /\ bumps' = bumps + 1
  BY DEF Tally
<1>3. file \in [Flows -> [Stages -> Nat]] /\ bumps \in Nat
  BY DEF IInv, TypeOK
<1>4. bumps + 1 \in Nat
  BY <1>3
<1>5. file' \in [Flows -> [Stages -> Nat]]
  BY <1>1, <1>3
<1>6. QED
  BY <1>2, <1>4, <1>5

LEMMA InHandType ==
  ASSUME IInv, pc # "idle"
  PROVE  /\ hand # NoEnvelope
         /\ hand.key \in RealKeys
         /\ hand.key[1] \in Flows
         /\ InHand \in Frame
<1>1. hand # NoEnvelope
  BY DEF IInv, TypeOK
<1>2. hand.key \in RealKeys
  BY <1>1 DEF IInv, HandReal
<1>3. QED
  BY <1>1, <1>2, RealKeyFacts DEF InHand

LEMMA BumpType ==
  ASSUME IInv, pc # "idle", NEW s \in Stages, Bump(s)
  PROVE  /\ count' \in [Flows -> [Stages -> Nat]]
         /\ file' \in [Flows -> [Stages -> Nat]]
         /\ bumps' \in Nat
<1> DEFINE c == [count EXCEPT ![hand.key[1]][s] = @ + 1]
<1>1. hand.key[1] \in Flows /\ count \in [Flows -> [Stages -> Nat]]
  BY InHandType DEF IInv, TypeOK
<1>2. count[hand.key[1]][s] + 1 \in Nat
  BY <1>1
<1>3. c \in [Flows -> [Stages -> Nat]]
  BY <1>1, <1>2
<1>4. QED
  BY <1>3, TallyType DEF Bump

\* A train with one part more is a train.
LEMMA ExtendedType ==
  ASSUME IInv, pc # "idle", IsFragment
  PROVE  /\ InHand.train \in Trains
         /\ Extended \in [parts : Seq(Nat), since : Nat]
<1>1. InHand.train \in Trains /\ InHand.part \in Nat
  BY InHandType DEF Frame, IsFragment
<1>2. trains[InHand.train] \in [parts : Seq(Nat), since : Nat] /\ now \in Nat
  BY <1>1 DEF IInv, TypeOK
<1>3. <<>> \in Seq(Nat)
  OBVIOUS
<1>4. QED
  BY <1>1, <1>2, <1>3 DEF Extended

\* The packet in hand, if there is one, is a sequence of chunks.
PayloadTyped == hand # NoEnvelope => hand.key \in Keys /\ hand.payload \in Seq(Chunks)

LEMMA PayloadType == HandReal /\ PayloadIntact => PayloadTyped
<1> SUFFICES ASSUME HandReal, PayloadIntact, hand # NoEnvelope
             PROVE  hand.key \in Keys /\ hand.payload \in Seq(Chunks)
  BY DEF PayloadTyped
<1>1. hand.key \in RealKeys
  BY DEF HandReal
<1>2. hand.payload = [x \in 1..SizeOf(hand.key) |-> ChunkOf(hand.key, x)]
  BY DEF PayloadIntact, ChunkOf, SizeOf
<1>3. \A x \in 1..SizeOf(hand.key) : ChunkOf(hand.key, x) \in Chunks
  BY <1>1, ChunkFacts DEF AllOf
<1>4. SizeOf(hand.key) \in Nat /\ hand.key \in Keys
  BY <1>1, RealKeyFacts
<1>5. QED
  BY <1>2, <1>3, <1>4, SMTT(30)

LEMMA EmptyTrainType == EmptyTrain \in [parts : Seq(Nat), since : Nat]
BY DEF EmptyTrain

\* Keys are no empty tuples, so an envelope in hand is not "none".
LEMMA EnvelopeInHand ==
  ASSUME NEW k \in RealKeys, NEW p
  PROVE  [key |-> k, payload |-> p] # NoEnvelope
<1>1. k = <<k[1], k[2]>>
  BY RealKeyFacts
<1>2. k # <<>>
  <2> DEFINE f == k[1]
             i == k[2]
  <2>1. Len(<<f, i>>) = 2 /\ Len(<<>>) = 0
    OBVIOUS
  <2> HIDE DEF f, i
  <2>2. k = <<f, i>>
    BY <1>1 DEF f, i
  <2>3. QED
    BY <2>1, <2>2
<1>3. [key |-> k, payload |-> p].key = k /\ NoEnvelope.key = <<>>
  BY DEF NoEnvelope
<1>4. QED
  BY <1>2, <1>3

\* The sender's part of the type invariant.
LEMMA SenderType ==
  ASSUME IInv, [Next]_vars
  PROVE  /\ job' \in Nat /\ packet' \in Nat /\ chunk' \in Nat
         /\ sent' \in [Flows -> Nat]
<1>t. job \in Nat /\ packet \in Nat /\ chunk \in Nat /\ sent \in [Flows -> Nat]
  BY DEF IInv, TypeOK
<1>1. CASE SendChunk
  <2>1. Flow \in Flows
    BY <1>1, FrameAt DEF SendChunk, Sending, Flow
  <2>2. chunk' \in {chunk + 1, 1} /\ packet' \in {packet, packet + 1} /\ job' = job
    BY <1>1, Zenon DEF SendChunk
  <2>3. sent' = sent \/ sent' = [sent EXCEPT ![Flow] = @ + 1]
    BY <1>1, Zenon DEF SendChunk
  <2>4. [sent EXCEPT ![Flow] = @ + 1] \in [Flows -> Nat]
    BY <1>t, <2>1
  <2>5. chunk' \in Nat /\ packet' \in Nat /\ job' \in Nat
    BY <1>t, <2>2
  <2>6. QED
    BY <1>t, <2>3, <2>4, <2>5, Zenon
<1>2. CASE SendFails \/ EndJob
  BY <1>t, <1>2 DEF SendFails, EndJob
<1>3. CASE UNCHANGED sender
  BY <1>t, <1>3 DEF sender
<1>4. QED
  BY <1>1, <1>2, <1>3
     DEF Next, vars, Lose, Receive, Decode, DropUndecodable, DropForeign, Drop, HoldFragment,
         Process, ExpireTrains, ExpireEnvelopes, Tick, Stop

\* The program point and the packet in hand go together.
LEMMA PointType ==
  ASSUME IInv, [Next]_vars
  PROVE  /\ pc' \in {"idle", "envelope", "undecodable", "foreign", "ip", "expire_trains", "expire"}
         /\ pc' = "idle" <=> hand' = NoEnvelope
<1>t. /\ pc \in {"idle", "envelope", "undecodable", "foreign", "ip", "expire_trains", "expire"}
      /\ pc = "idle" <=> hand = NoEnvelope
  BY DEF IInv, TypeOK
<1>1. CASE \E c \in BagToSet(net), again \in BOOLEAN : Receive(c, again)
  <2>1. PICK c \in BagToSet(net), again \in BOOLEAN : Receive(c, again)
    BY <1>1
  <2>2. PICK k \in RealKeys : \/ hand' = [key |-> k, payload |-> Join(AllOf(k))] /\ pc' = "envelope"
                              \/ hand' = NoEnvelope /\ pc' = "idle"
    BY <2>1, ReceiveEffect
  <2>3. QED
    BY <2>2, EnvelopeInHand
<1>2. CASE Decode
  BY <1>t, <1>2 DEF Decode
<1>3. CASE DropUndecodable \/ DropForeign \/ ExpireEnvelopes \/ Stop
  BY <1>3 DEF DropUndecodable, DropForeign, Drop, ExpireEnvelopes, Stop
<1>4. CASE HoldFragment \/ Process \/ ExpireTrains
  BY <1>t, <1>4 DEF HoldFragment, Process, ExpireTrains
<1>5. CASE UNCHANGED <<pc, hand>>
  BY <1>t, <1>5
<1>6. QED
  BY <1>1, <1>2, <1>3, <1>4, <1>5
     DEF Next, vars, receiver, SendChunk, SendFails, EndJob, Lose, Tick

\* The trains' part of the type invariant.
LEMMA TrainType ==
  ASSUME IInv, [Next]_vars
  PROVE  trains' \in [Trains -> [parts : Seq(Nat), since : Nat]]
<1>t. trains \in [Trains -> [parts : Seq(Nat), since : Nat]]
  BY DEF IInv, TypeOK
<1>1. CASE HoldFragment
  <2>1. /\ Extended \in [parts : Seq(Nat), since : Nat] /\ InHand.train \in Trains
        /\ trains' = [trains EXCEPT ![InHand.train] = IF InHand.last THEN EmptyTrain ELSE Extended]
    BY <1>1, ExtendedType DEF HoldFragment
  <2>2. QED
    BY <1>t, <2>1, EmptyTrainType
<1>2. CASE Process \/ ExpireTrains \/ Stop
  BY <1>t, <1>2, EmptyTrainType DEF Process, ExpireTrains, Stop
<1>3. CASE UNCHANGED trains
  BY <1>t, <1>3
<1>4. QED
  BY <1>1, <1>2, <1>3
     DEF Next, vars, receiver, SendChunk, SendFails, EndJob, Lose, Receive, Decode, DropUndecodable,
         DropForeign, Drop, ExpireEnvelopes, Tick

\* The counters' part of the type invariant.
LEMMA CounterType ==
  ASSUME IInv, [Next]_vars
  PROVE  /\ count' \in [Flows -> [Stages -> Nat]]
         /\ file' \in [Flows -> [Stages -> Nat]]
         /\ bumps' \in Nat
<1>t. count \in [Flows -> [Stages -> Nat]] /\ file \in [Flows -> [Stages -> Nat]] /\ bumps \in Nat
  BY DEF IInv, TypeOK
<1>s. {"envelopes", "decode_failed", "non_ip_dropped", "held_fragment", "processed"}
        \subseteq Stages
  BY DEF Stages
<1>1. CASE \E c \in BagToSet(net), again \in BOOLEAN : Receive(c, again)
  BY <1>t, <1>1, TallyType DEF Receive
<1>2. CASE Decode
  BY <1>s, <1>2, BumpType DEF Decode
<1>3. CASE DropUndecodable
  BY <1>s, <1>3, BumpType DEF DropUndecodable, Drop
<1>4. CASE DropForeign
  BY <1>s, <1>4, BumpType DEF DropForeign, Drop
<1>5. CASE HoldFragment
  BY <1>s, <1>5, BumpType DEF HoldFragment
<1>6. CASE Process
  BY <1>s, <1>6, BumpType DEF Process
<1>7. CASE Stop
  BY <1>t, <1>7 DEF Stop, NoCounts
<1>8. CASE UNCHANGED counters
  BY <1>t, <1>8 DEF counters
<1>9. QED
  BY <1>1, <1>2, <1>3, <1>4, <1>5, <1>6, <1>7, <1>8
     DEF Next, vars, SendChunk, SendFails, EndJob, Lose, ExpireTrains, ExpireEnvelopes, Tick

\* The clock and the recorded history.
LEMMA HistoryType ==
  ASSUME IInv, [Next]_vars
  PROVE  /\ now' \in Nat /\ heard' \in Nat /\ expired' \in Nat
         /\ losses' \in Nat /\ dups' \in Nat /\ errors' \in Nat /\ stops' \in Nat
<1>t. /\ now \in Nat /\ heard \in Nat /\ expired \in Nat
      /\ losses \in Nat /\ dups \in Nat /\ errors \in Nat /\ stops \in Nat
  BY DEF IInv, TypeOK
<1>1. CASE ExpireEnvelopes
  <2>1. {k \in Keys : Stale(k)} \subseteq Waiting /\ IsFiniteSet(Waiting)
    BY DEF Stale, Waiting, IInv, BuffersGenuine
  <2>2. Cardinality({k \in Keys : Stale(k)}) \in Nat
    BY <2>1, FS_Subset, FS_CardinalityType
  <2>3. QED
    BY <1>t, <1>1, <2>2 DEF ExpireEnvelopes
<1>2. CASE \E c \in BagToSet(net), again \in BOOLEAN : Receive(c, again)
  BY <1>t, <1>2 DEF Receive
<1>3. CASE SendFails
  BY <1>t, <1>3 DEF SendFails
<1>10. CASE Tick
  BY <1>t, <1>10 DEF Tick, history
<1>11. CASE Stop
  <2>1. UNCHANGED <<now, losses, dups, errors, expired, heard>> /\ stops' = stops + 1
    BY <1>11, Zenon DEF Stop
  <2>2. QED
    BY <1>t, <2>1
<1>9. CASE \E c \in BagToSet(net) : Lose(c)
  BY <1>t, <1>9 DEF Lose
<1>4. CASE UNCHANGED <<now, history>>
  BY <1>t, <1>4 DEF history
<1>5. SendChunk \/ EndJob \/ Decode => UNCHANGED <<now, history>>
  BY DEF SendChunk, EndJob, Decode
<1>6. DropUndecodable \/ DropForeign => UNCHANGED <<now, history>>
  BY DEF DropUndecodable, DropForeign, Drop
<1>7. HoldFragment \/ Process \/ ExpireTrains \/ UNCHANGED vars => UNCHANGED <<now, history>>
  BY DEF HoldFragment, Process, ExpireTrains, vars
<1>8. QED
  BY <1>1, <1>2, <1>3, <1>4, <1>5, <1>6, <1>7, <1>9, <1>10, <1>11 DEF Next
------------------------------------------------------------------------------
(* The invariant holds.                                                    *)

LEMMA InvInit == Init => IInv
<1> SUFFICES ASSUME Init PROVE IInv
  OBVIOUS
<1>1. TypeOK
  <2>1. BagToSet(net) = {}
    BY DEF Init, EmptyBag, BagToSet, SetToBag
  <2>2. buffers \in [Keys -> [chunks : SUBSET Chunks, count : Nat, since : Nat]]
    BY NoEntryType DEF Init, Entry
  <2>3. trains \in [Trains -> [parts : Seq(Nat), since : Nat]]
    BY EmptyTrainType DEF Init
  <2>4. QED
    BY <2>1, <2>2, <2>3 DEF Init, TypeOK, NoCounts
<1>2. SenderInStep
  <2>1. ASSUME Sending PROVE Pcap[Flow][packet].chunks \in Nat \ {0}
    BY <2>1, FrameAt DEF Sending, Flow
  <2>2. chunk = 1
    BY DEF Init
  <2>3. QED
    BY <2>1, <2>2 DEF SenderInStep
<1>3. TunnelGenuine
  BY DEF Init, EmptyBag, BagToSet, SetToBag, TunnelGenuine
<1>4. Waiting = {}
  BY DEF Init, Waiting
<1>5. BuffersGenuine /\ BuffersHoldParts
  BY <1>4, FS_EmptySet DEF BuffersGenuine, BuffersHoldParts
<1>6. HandReal /\ PayloadIntact
  BY DEF Init, HandReal, PayloadIntact
<1>7. QED
  BY <1>1, <1>2, <1>3, <1>5, <1>6 DEF IInv

LEMMA InvNext == IInv /\ [Next]_vars => IInv'
<1> SUFFICES ASSUME IInv, [Next]_vars PROVE IInv'
  OBVIOUS
<1>1. /\ SenderInStep' /\ TunnelGenuine' /\ BuffersGenuine'
      /\ BuffersHoldParts' /\ HandReal' /\ PayloadIntact'
  BY SenderStep, TunnelStep, BufferStep, HandStep
<1>2. hand' # NoEnvelope => hand'.key \in Keys /\ hand'.payload \in Seq(Chunks)
  <2>1. PayloadTyped'
    BY <1>1, PayloadType, PTL
  <2>2. QED
    BY <2>1 DEF PayloadTyped
<1>3. TypeOK'
  BY <1>2, SenderType, TunnelStep, PointType, BufferStep, TrainType, CounterType, HistoryType
     DEF TypeOK, Entry
<1>4. QED
  BY <1>1, <1>3 DEF IInv

LEMMA FunnelInvariance == Spec => []IInv
BY InvInit, InvNext, PTL DEF Spec

\* Every variable of the funnel stays in its type, whatever the files and the
\* manifest hold and however often the tunnel and the sender fail.
THEOREM FunnelTypeCorrect == Spec => []TypeOK
<1>1. IInv => TypeOK
  BY DEF IInv
<1>2. QED
  BY <1>1, FunnelInvariance, PTL

\* Under any loss, repetition, reordering, failed send and restart, the packet
\* that EnvelopeReassembler.feed hands on is the one that was sent, whole and in
\* order, however many chunks it has.
THEOREM PacketsAreWhole == Spec => []PayloadIntact
<1>1. IInv => PayloadIntact
  BY DEF IInv
<1>2. QED
  BY <1>1, FunnelInvariance, PTL

\* What waits in the reassembler is always a proper, non-empty part of one packet.
THEOREM BufferHoldsParts == Spec => []BuffersHoldParts
<1>1. IInv => BuffersHoldParts
  BY DEF IInv
<1>2. QED
  BY <1>1, FunnelInvariance, PTL
------------------------------------------------------------------------------
(* The counters add up.                                                    *)

\* The conjuncts of FunnelBalance that are about the counters file.
Balanced(c) ==
  /\ \A f \in Flows : c[f]["envelopes"] - Sum(c[f]) \in 0..1
  /\ \A f, g \in Flows :
       (c[f]["envelopes"] # Sum(c[f]) /\ c[g]["envelopes"] # Sum(c[g])) => f = g

\* The sum is over four of the stages.
LEMMA SumOf ==
  ASSUME NEW x \in [Stages -> Nat]
  PROVE  /\ Sum(x) \in Nat /\ x["envelopes"] \in Nat
         /\ x["decode_failed"] \in Nat /\ x["non_ip_dropped"] \in Nat
         /\ x["held_fragment"] \in Nat /\ x["processed"] \in Nat
<1>1. /\ x["envelopes"] \in Nat
      /\ x["decode_failed"] \in Nat /\ x["non_ip_dropped"] \in Nat
      /\ x["held_fragment"] \in Nat /\ x["processed"] \in Nat
  BY DEF Stages
<1>2. QED
  BY <1>1, SMTT(30) DEF Sum

\* One more in one stage stays in the type.
LEMMA Bumped ==
  ASSUME NEW x \in [Stages -> Nat], NEW s \in Stages
  PROVE  [x EXCEPT ![s] = @ + 1] \in [Stages -> Nat]
OBVIOUS

\* One more in one stage is one more in the sum, if the stage is an end.
LEMMA SumBump ==
  ASSUME NEW x \in [Stages -> Nat], NEW s \in Stages,
         NEW y \in [Stages -> Nat], y = [x EXCEPT ![s] = @ + 1]
  PROVE  /\ s \in Ends => Sum(y) = Sum(x) + 1 /\ y["envelopes"] = x["envelopes"]
         /\ s \notin Ends => Sum(y) = Sum(x) /\ y["envelopes"] = x["envelopes"] + 1
<1>1. /\ x["envelopes"] \in Nat
      /\ x["decode_failed"] \in Nat /\ x["non_ip_dropped"] \in Nat
      /\ x["held_fragment"] \in Nat /\ x["processed"] \in Nat
  BY SumOf
<1>2. CASE s = "envelopes"
  BY <1>1, <1>2 DEF Sum, Ends, Stages
<1>3. CASE s = "decode_failed"
  BY <1>1, <1>3 DEF Sum, Ends, Stages
<1>4. CASE s = "non_ip_dropped"
  BY <1>1, <1>4 DEF Sum, Ends, Stages
<1>5. CASE s = "held_fragment"
  BY <1>1, <1>5 DEF Sum, Ends, Stages
<1>6. CASE s = "processed"
  BY <1>1, <1>6 DEF Sum, Ends, Stages
<1>7. QED
  BY <1>2, <1>3, <1>4, <1>5, <1>6 DEF Stages

\* Counters in which at most the flow h is short by one are balanced.
LEMMA BalancedBut ==
  ASSUME NEW c \in [Flows -> [Stages -> Nat]], NEW h,
         \A f \in Flows : f # h => c[f]["envelopes"] = Sum(c[f]),
         h \in Flows => c[h]["envelopes"] - Sum(c[h]) \in 0..1
  PROVE  Balanced(c)
<1>1. \A f \in Flows : Sum(c[f]) \in Nat
  BY SumOf
<1>2. ASSUME NEW f \in Flows PROVE c[f]["envelopes"] - Sum(c[f]) \in 0..1
  <2>1. CASE f = h
    BY <2>1
  <2>2. CASE f # h
    BY <1>1, <2>2
  <2>3. QED
    BY <2>1, <2>2
<1>4. QED
  BY <1>2 DEF Balanced

\* Every envelope that was counted was counted at one end, or is in hand.
Counted == \A f \in Flows : count[f]["envelopes"] = Sum(count[f]) + Pending(f)

\* What a step must do to keep the balance.
LEMMA BalanceFrom ==
  ASSUME IInv, FunnelBalance, [Next]_vars, Counted', file' \in {file, count, count'}
  PROVE  FunnelBalance'
<1>1. /\ count \in [Flows -> [Stages -> Nat]] /\ count' \in [Flows -> [Stages -> Nat]]
      /\ file \in [Flows -> [Stages -> Nat]]
  BY CounterType DEF IInv, TypeOK
<1>2. \A f \in Flows : Sum(count[f]) \in Nat /\ Sum(count'[f]) \in Nat
  BY <1>1, SumOf
<1>3. Balanced(file)
  BY DEF FunnelBalance, Balanced
<1>4. Balanced(count)
  <2>1. \A f \in Flows : f # hand.key[1] => count[f]["envelopes"] = Sum(count[f])
    BY <1>2 DEF FunnelBalance, Pending
  <2>2. \A f \in Flows : count[f]["envelopes"] - Sum(count[f]) \in 0..1
    BY <1>2 DEF FunnelBalance, Pending
  <2>3. QED
    BY <1>1, <2>1, <2>2, BalancedBut
<1>5. Balanced(count')
  <2>1. \A f \in Flows : f # hand'.key[1] => count'[f]["envelopes"] = Sum(count'[f])
    BY <1>2 DEF Counted, Pending
  <2>2. ASSUME NEW f \in Flows PROVE count'[f]["envelopes"] - Sum(count'[f]) \in 0..1
    <3>1. Pending(f)' \in {0, 1}
      BY DEF Pending
    <3>2. count'[f]["envelopes"] = Sum(count'[f]) + Pending(f)'
      BY DEF Counted
    <3>3. QED
      BY <1>2, <3>1, <3>2
  <2>3. QED
    BY <1>1, <2>1, <2>2, BalancedBut
<1>6. Balanced(file')
  BY <1>3, <1>4, <1>5
<1>7. QED
  BY <1>6 DEF FunnelBalance, Counted, Balanced

\* A step at an end of the funnel puts the envelope in hand away.
LEMMA CountedAtEnd ==
  ASSUME IInv, FunnelBalance, NEW s \in Ends, Bump(s),
         pc \in {"undecodable", "foreign", "ip"},
         pc' \notin {"undecodable", "foreign", "ip"}
  PROVE  Counted' /\ file' \in {file, count, count'}
<1>1. hand.key[1] \in Flows /\ count \in [Flows -> [Stages -> Nat]] /\ s \in Stages
  BY InHandType DEF IInv, TypeOK, Ends
<1>2. ASSUME NEW f \in Flows PROVE count'[f]["envelopes"] = Sum(count'[f]) + Pending(f)'
  <2>1. count[f] \in [Stages -> Nat] /\ count[f]["envelopes"] = Sum(count[f]) + Pending(f)
    BY <1>1 DEF FunnelBalance
  <2>2. Pending(f)' = 0
    BY DEF Pending
  <2>3. CASE f = hand.key[1]
    <3>1. count'[f] = [count[f] EXCEPT ![s] = @ + 1]
      BY <1>1, <2>3 DEF Bump, Tally
    <3>2. [count[f] EXCEPT ![s] = @ + 1] \in [Stages -> Nat]
      BY <1>1, <2>1, Bumped
    <3>3. Sum(count'[f]) = Sum(count[f]) + 1 /\ count'[f]["envelopes"] = count[f]["envelopes"]
      <4> DEFINE x == count[f]
                 y == count'[f]
      <4>1. x \in [Stages -> Nat] /\ y \in [Stages -> Nat] /\ y = [x EXCEPT ![s] = @ + 1]
        BY <2>1, <3>1, <3>2
      <4> HIDE DEF x, y
      <4>2. Sum(y) = Sum(x) + 1 /\ y["envelopes"] = x["envelopes"]
        BY <1>1, <4>1, SumBump
      <4>3. QED
        BY <4>2 DEF x, y
    <3>4. Sum(count[f]) \in Nat /\ Pending(f) = 1
      BY <2>1, <2>3, SumOf DEF Pending
    <3>5. QED
      BY <2>1, <2>2, <3>3, <3>4
  <2>4. CASE f # hand.key[1]
    <3>1. count'[f] = count[f]
      BY <1>1, <2>4 DEF Bump, Tally
    <3>2. Pending(f) = 0
      BY <2>4 DEF Pending
    <3>3. QED
      BY <2>1, <2>2, <3>1, <3>2
  <2>5. QED
    BY <2>3, <2>4
<1>3. file' \in {file, count'}
  BY Zenon DEF Bump, Tally
<1>4. QED
  BY <1>2, <1>3 DEF Counted

\* A step that counts nothing and takes up or puts away no envelope.
LEMMA CountedAsBefore ==
  ASSUME FunnelBalance, count' = count, \A f \in Flows : Pending(f)' = Pending(f)
  PROVE  Counted'
BY DEF FunnelBalance, Counted

\* bump("envelopes") takes up the envelope in hand.
LEMMA CountedAtDecode ==
  ASSUME IInv, FunnelBalance, Decode
  PROVE  Counted' /\ file' \in {file, count, count'}
<1>1. hand.key[1] \in Flows /\ count \in [Flows -> [Stages -> Nat]] /\ "envelopes" \in Stages \ Ends
  BY InHandType DEF IInv, TypeOK, Decode, Stages, Ends
<1>2. pc = "envelope" /\ pc' \in {"undecodable", "foreign", "ip"} /\ hand' = hand
  BY DEF Decode
<1>3. ASSUME NEW f \in Flows PROVE count'[f]["envelopes"] = Sum(count'[f]) + Pending(f)'
  <2>1. count[f] \in [Stages -> Nat] /\ count[f]["envelopes"] = Sum(count[f]) + Pending(f)
    BY <1>1 DEF FunnelBalance
  <2>2. Pending(f) = 0 /\ Sum(count[f]) \in Nat
    BY <1>2, <2>1, SumOf DEF Pending
  <2>3. CASE f = hand.key[1]
    <3>1. count'[f] = [count[f] EXCEPT !["envelopes"] = @ + 1]
      BY <1>1, <2>3 DEF Decode, Bump, Tally
    <3>2. [count[f] EXCEPT !["envelopes"] = @ + 1] \in [Stages -> Nat]
      BY <1>1, <2>1, Bumped
    <3>3. Sum(count'[f]) = Sum(count[f]) /\ count'[f]["envelopes"] = count[f]["envelopes"] + 1
      <4>1. count'[f] \in [Stages -> Nat]
        BY <3>1, <3>2
      <4>2. QED
        BY <1>1, <2>1, <3>1, <4>1, SumBump
    <3>4. Pending(f)' = 1
      BY <1>2, <2>3 DEF Pending
    <3>5. QED
      BY <2>1, <2>2, <3>3, <3>4
  <2>4. CASE f # hand.key[1]
    <3>1. count'[f] = count[f]
      BY <1>1, <2>4 DEF Decode, Bump, Tally
    <3>2. Pending(f)' = 0
      BY <1>2, <2>4 DEF Pending
    <3>3. QED
      BY <2>1, <2>2, <3>1, <3>2
  <2>5. QED
    BY <2>3, <2>4
<1>4. file' \in {file, count'}
  BY Zenon DEF Decode, Bump, Tally
<1>5. QED
  BY <1>3, <1>4 DEF Counted

\* Empty counters are balanced.
LEMMA NothingCounted ==
  ASSUME NEW f \in Flows
  PROVE  NoCounts[f]["envelopes"] = Sum(NoCounts[f]) /\ Sum(NoCounts[f]) = 0
BY DEF NoCounts, Sum, Stages

LEMMA BalanceStep == IInv /\ FunnelBalance /\ [Next]_vars => FunnelBalance'
<1> SUFFICES ASSUME IInv, FunnelBalance, [Next]_vars PROVE FunnelBalance'
  OBVIOUS
<1>e. {"decode_failed", "non_ip_dropped", "held_fragment", "processed"} \subseteq Ends
  BY DEF Ends, Stages
<1> DEFINE Done == Counted' /\ file' \in {file, count, count'}
<1>1. ASSUME NEW c \in BagToSet(net), NEW again \in BOOLEAN, Receive(c, again) PROVE Done
  <2>1. pc = "idle" /\ pc' \in {"envelope", "idle"} /\ count' = count
    BY <1>1 DEF Receive, Tally
  <2>2. file' \in {file, count}
    BY <1>1, Zenon DEF Receive, Tally
  <2>3. \A f \in Flows : Pending(f)' = Pending(f)
    BY <2>1 DEF Pending
  <2>4. QED
    BY <2>1, <2>2, <2>3, CountedAsBefore
<1>2. Decode => Done
  BY CountedAtDecode
<1>3. DropUndecodable => Done
  BY <1>e, CountedAtEnd DEF DropUndecodable, Drop
<1>4. DropForeign => Done
  BY <1>e, CountedAtEnd DEF DropForeign, Drop
<1>5. HoldFragment => Done
  BY <1>e, CountedAtEnd DEF HoldFragment
<1>6. Process => Done
  BY <1>e, CountedAtEnd DEF Process
<1>7. ExpireTrains \/ ExpireEnvelopes => Done
  <2> SUFFICES ASSUME ExpireTrains \/ ExpireEnvelopes PROVE Done
    OBVIOUS
  <2>1. count' = count /\ file' = file /\ pc \in {"expire_trains", "expire"}
    BY DEF ExpireTrains, ExpireEnvelopes, counters
  <2>2. pc' \in {"expire", "idle"}
    BY DEF ExpireTrains, ExpireEnvelopes
  <2>3. \A f \in Flows : Pending(f)' = Pending(f)
    BY <2>1, <2>2 DEF Pending
  <2>4. QED
    BY <2>1, <2>3, CountedAsBefore
<1>8. Stop => Done
  <2> SUFFICES ASSUME Stop PROVE Done
    OBVIOUS
  <2>1. count' = NoCounts /\ file' \in {count, file} /\ pc' = "idle"
    BY DEF Stop
  <2>2. \A f \in Flows : Pending(f)' = 0
    BY <2>1 DEF Pending
  <2>3. QED
    BY <2>1, <2>2, NothingCounted DEF Counted
<1>9. UNCHANGED <<receiver, counters>> => Done
  <2> SUFFICES ASSUME UNCHANGED <<receiver, counters>> PROVE Done
    OBVIOUS
  <2>1. count' = count /\ file' = file /\ pc' = pc /\ hand' = hand
    BY DEF receiver, counters
  <2>2. \A f \in Flows : Pending(f)' = Pending(f)
    BY <2>1 DEF Pending
  <2>3. QED
    BY <2>1, <2>2, CountedAsBefore
<1>10. SendChunk \/ SendFails \/ EndJob \/ Tick \/ (\E c \in BagToSet(net) : Lose(c))
         \/ UNCHANGED vars => UNCHANGED <<receiver, counters>>
  BY DEF SendChunk, SendFails, EndJob, Tick, Lose, vars
<1>11. Done
  BY <1>1, <1>2, <1>3, <1>4, <1>5, <1>6, <1>7, <1>8, <1>9, <1>10 DEF Next
<1>12. QED
  BY <1>11, BalanceFrom

\* capture_counters.json tells where each packet stops: under any loss,
\* repetition, failed send and restart, and whenever the file was written, each
\* flow's envelopes are those of its four ends, but for the one in hand.
THEOREM CountersBalance == Spec => []FunnelBalance
<1>1. Init => FunnelBalance
  BY NothingCounted DEF Init, FunnelBalance, Pending
<1>2. QED
  BY <1>1, FunnelInvariance, BalanceStep, PTL DEF Spec
------------------------------------------------------------------------------
(* Recall: what is needed of bags, cardinalities and the steps.            *)

\* One more copy in a bag, and one less.
IsBag(b) == \A c \in DOMAIN b : b[c] \in Nat \ {0}

LEMMA AddOne ==
  ASSUME NEW b, IsBag(b), NEW e
  PROVE  LET d == b (+) SetToBag({e}) IN
           /\ DOMAIN d = DOMAIN b \cup {e}
           /\ \A c \in DOMAIN b : c # e => d[c] = b[c]
           /\ d[e] = IF e \in DOMAIN b THEN b[e] + 1 ELSE 1
           /\ IsBag(d)
BY DEF (+), SetToBag, IsBag

LEMMA TakeOne ==
  ASSUME NEW b, IsBag(b), NEW e \in DOMAIN b
  PROVE  LET d == b (-) SetToBag({e}) IN
           /\ DOMAIN d = IF b[e] = 1 THEN DOMAIN b \ {e} ELSE DOMAIN b
           /\ \A c \in DOMAIN d : c # e => d[c] = b[c]
           /\ e \in DOMAIN d => d[e] = b[e] - 1
           /\ IsBag(d)
BY DEF (-), SetToBag, IsBag

\* A finite set that gains or loses an element.
LEMMA GainsOne ==
  ASSUME NEW S, IsFiniteSet(S), NEW a, NEW T \in SUBSET (S \cup {a})
  PROVE  /\ IsFiniteSet(T) /\ Cardinality(T) \in Nat /\ Cardinality(S) \in Nat
         /\ Cardinality(T) <= Cardinality(S) + 1
<1>1. /\ IsFiniteSet(S \cup {a}) /\ Cardinality(S) \in Nat
      /\ Cardinality(S \cup {a}) <= Cardinality(S) + 1
  <2>1. Cardinality(S) \in Nat
    BY FS_CardinalityType
  <2>2. /\ IsFiniteSet(S \cup {a})
        /\ Cardinality(S \cup {a}) = IF a \in S THEN Cardinality(S) ELSE Cardinality(S) + 1
    BY FS_AddElement
  <2>3. QED
    BY <2>1, <2>2
<1>2. IsFiniteSet(T) /\ Cardinality(T) <= Cardinality(S \cup {a})
  BY <1>1, FS_Subset
<1>3. Cardinality(T) \in Nat /\ Cardinality(S \cup {a}) \in Nat
  BY <1>1, <1>2, FS_CardinalityType
<1>4. QED
  BY <1>1, <1>2, <1>3

LEMMA LosesOne ==
  ASSUME NEW S, IsFiniteSet(S), NEW a \in S, NEW T \in SUBSET (S \ {a})
  PROVE  /\ IsFiniteSet(T) /\ Cardinality(T) \in Nat /\ Cardinality(S) \in Nat
         /\ Cardinality(T) + 1 <= Cardinality(S)
<1>1. /\ IsFiniteSet(S \ {a}) /\ Cardinality(S \ {a}) = Cardinality(S) - 1
      /\ Cardinality(S) \in Nat
  BY FS_RemoveElement, FS_CardinalityType
<1>2. IsFiniteSet(T) /\ Cardinality(T) <= Cardinality(S \ {a}) /\ Cardinality(T) \in Nat
  BY <1>1, FS_Subset, FS_CardinalityType
<1>3. QED
  BY <1>1, <1>2

LEMMA StaysWithin ==
  ASSUME NEW S, IsFiniteSet(S), NEW T \in SUBSET S
  PROVE  /\ IsFiniteSet(T) /\ Cardinality(T) \in Nat /\ Cardinality(S) \in Nat
         /\ Cardinality(T) <= Cardinality(S)
BY FS_Subset, FS_CardinalityType

\* What waits under a key, if anything does, are chunks of its frame.
LEMMA HeldChunks ==
  ASSUME IInv, NEW k \in RealKeys
  PROVE  buffers[k].chunks \subseteq AllOf(k)
<1>1. CASE buffers[k] = NoEntry
  BY <1>1 DEF NoEntry
<1>2. CASE buffers[k] # NoEntry
  BY <1>2, WaitingFacts
<1>3. QED
  BY <1>1, <1>2

\* feed puts the chunk to those that wait, and takes them all out if it was the last.
LEMMA ReceiveAdds ==
  ASSUME IInv, NEW c \in BagToSet(net), NEW again \in BOOLEAN, Receive(c, again)
  PROVE  /\ KeyOf(c) \in RealKeys /\ c \in AllOf(KeyOf(c))
         /\ \A j \in Keys : j # KeyOf(c) => buffers'[j] = buffers[j]
         /\ \/ /\ pc' = "envelope" /\ hand'.key = KeyOf(c) /\ buffers'[KeyOf(c)].chunks = {}
               /\ AllOf(KeyOf(c)) \subseteq buffers[KeyOf(c)].chunks \cup {c}
            \/ /\ pc' = "idle"
               /\ buffers'[KeyOf(c)].chunks = buffers[KeyOf(c)].chunks \cup {c}
<1>1. PICK k \in RealKeys : c \in AllOf(k)
  BY DEF IInv, TunnelGenuine
<1>2. KeyOf(c) = k /\ <<c.flow, c.id>> = k /\ c.count = SizeOf(k) /\ k \in Keys
  BY <1>1, ChunkFacts, RealKeyFacts DEF KeyOf
<1> DEFINE old == IF buffers[k] = NoEntry
                  THEN [chunks |-> {}, count |-> c.count, since |-> now] ELSE buffers[k]
           entry == PutChunk(old, c)
<1>3. /\ buffers' = [buffers EXCEPT ![k] = LeftOf(entry)]
      /\ hand' = IF IsComplete(entry) THEN [key |-> k, payload |-> Join(entry.chunks)]
                                      ELSE NoEnvelope
      /\ pc' = IF IsComplete(entry) THEN "envelope" ELSE "idle"
  BY <1>2 DEF Receive
<1>4. old.chunks = buffers[k].chunks /\ old.count = SizeOf(k)
  <2>1. CASE buffers[k] = NoEntry
    BY <1>2, <2>1 DEF NoEntry
  <2>2. CASE buffers[k] # NoEntry
    <3>1. old = buffers[k] /\ buffers[k].count = SizeOf(k)
      BY <2>2, WaitingFacts
    <3> HIDE DEF old
    <3>2. QED
      BY <3>1
  <2>3. QED
    BY <2>1, <2>2
<1>5. buffers[k].chunks \subseteq AllOf(k)
  BY HeldChunks
<1> HIDE DEF old
<1>6. \A d \in AllOf(k) : d.idx = c.idx => d = c
  BY <1>1, ChunkFacts
<1>7. entry.chunks = buffers[k].chunks \cup {c} /\ entry.count = SizeOf(k)
  BY <1>4, <1>5, <1>6 DEF PutChunk
<1> HIDE DEF entry
<1>8. buffers \in [Keys -> Entry]
  BY DEF IInv, TypeOK, Entry
<1>9. buffers'[k] = LeftOf(entry) /\ \A j \in Keys : j # k => buffers'[j] = buffers[j]
  BY <1>2, <1>3, <1>8
<1>10. CASE IsComplete(entry)
  <2>1. pc' = "envelope" /\ hand'.key = k /\ buffers'[k].chunks = {}
    BY <1>3, <1>9, <1>10 DEF LeftOf, NoEntry
  <2>2. entry.chunks \in SUBSET AllOf(k) /\ IsFiniteSet(AllOf(k)) /\ Cardinality(AllOf(k)) = SizeOf(k)
    BY <1>1, <1>5, <1>7, AllOfFinite
  <2>3. Cardinality(entry.chunks) >= SizeOf(k)
    BY <1>7, <1>10 DEF IsComplete
  <2>4. entry.chunks = AllOf(k)
    BY <2>2, <2>3, StaysWithin, FS_Subset
  <2>5. QED
    BY <1>1, <1>2, <1>7, <1>9, <2>1, <2>4
<1>11. CASE ~ IsComplete(entry)
  BY <1>1, <1>2, <1>3, <1>7, <1>9, <1>11 DEF LeftOf
<1>12. QED
  BY <1>10, <1>11
------------------------------------------------------------------------------
(* Recall is never above one.                                              *)

\* The copies on their way of last chunks of frames of f, and the frames of f
\* whose last chunk waits.
IsLast(c, f) == c.flow = f /\ c.idx = c.count
LastCopies(f, b) ==
  {x \in Chunks \X (Nat \ {0}) : x[1] \in DOMAIN b /\ x[2] <= b[x[1]] /\ IsLast(x[1], f)}
LastHeld(f, bs) == {k \in RealKeys : k[1] = f /\ ChunkOf(k, SizeOf(k)) \in bs[k].chunks}

\* Every frame that was recognised, and every last chunk that may yet complete
\* one, is of a frame that was sent whole or of a datagram delivered twice.
NeverMore ==
  /\ IsBag(net)
  /\ \A f \in Flows :
       /\ IsFiniteSet(LastCopies(f, net))
       /\ Emitted(f) + Cardinality(LastHeld(f, buffers)) + Cardinality(LastCopies(f, net)) <= sent[f] + dups

\* The numbers of the invariants.
LEMMA RecallTypes ==
  ASSUME IInv, NEW f \in Flows
  PROVE  /\ Emitted(f) \in Nat /\ sent[f] \in Nat /\ dups \in Nat
         /\ count[f]["envelopes"] \in Nat /\ losses \in Nat /\ expired \in Nat /\ stops \in Nat
         /\ IsFiniteSet(LastHeld(f, buffers))
<1>1. count[f] \in [Stages -> Nat] /\ sent[f] \in Nat /\ dups \in Nat /\ losses \in Nat
      /\ expired \in Nat /\ stops \in Nat
  BY DEF IInv, TypeOK
<1>2. count[f]["envelopes"] \in Nat
  BY <1>1 DEF Stages
<1>3. Emitted(f) \in Nat
  BY <1>2 DEF Emitted
<1>4. LastHeld(f, buffers) \subseteq Waiting /\ IsFiniteSet(Waiting)
  BY RealKeyFacts DEF LastHeld, Waiting, NoEntry, IInv, BuffersGenuine
<1>5. QED
  BY <1>1, <1>2, <1>3, <1>4, FS_Subset

\* Decode counts the envelope that Receive took in; nothing else changes Emitted
\* but a restart.
LEMMA EmittedKept ==
  ASSUME IInv, [Next]_vars, ~ Stop, ~ \E c \in BagToSet(net), again \in BOOLEAN : Receive(c, again),
         NEW f \in Flows
  PROVE  Emitted(f)' = Emitted(f)
<1>1. count \in [Flows -> [Stages -> Nat]] /\ "envelopes" \in Stages
  BY DEF IInv, TypeOK, Stages
<1>2. CASE Decode
  <2>1. /\ pc = "envelope" /\ pc' # "envelope" /\ hand.key[1] \in Flows
        /\ count' = [count EXCEPT ![hand.key[1]]["envelopes"] = @ + 1]
    BY <1>2, InHandType DEF Decode, Bump, Tally
  <2>2. QED
    BY <1>1, <2>1 DEF Emitted
<1>3. ASSUME NEW s \in Ends, Bump(s), pc # "idle", pc # "envelope", pc' # "envelope"
      PROVE  Emitted(f)' = Emitted(f)
  <2>1. s # "envelopes" /\ hand.key[1] \in Flows
    BY <1>3, InHandType DEF Ends
  <2>2. count' = [count EXCEPT ![hand.key[1]][s] = @ + 1]
    BY <1>3 DEF Bump, Tally
  <2>3. count'[f]["envelopes"] = count[f]["envelopes"]
    BY <1>1, <2>1, <2>2
  <2>4. QED
    BY <1>3, <2>3 DEF Emitted
<1>4. {"decode_failed", "non_ip_dropped", "held_fragment", "processed"} \subseteq Ends
  BY DEF Ends, Stages
<1>5. DropUndecodable \/ DropForeign \/ HoldFragment \/ Process => Emitted(f)' = Emitted(f)
  BY <1>3, <1>4 DEF DropUndecodable, DropForeign, Drop, HoldFragment, Process
<1>6. ExpireTrains \/ ExpireEnvelopes => Emitted(f)' = Emitted(f)
  BY DEF ExpireTrains, ExpireEnvelopes, counters, Emitted
<1>7. UNCHANGED <<receiver, counters>> => Emitted(f)' = Emitted(f)
  BY DEF receiver, counters, Emitted
<1>8. SendChunk \/ SendFails \/ EndJob \/ Tick \/ (\E c \in BagToSet(net) : Lose(c)) \/ UNCHANGED vars
        => UNCHANGED <<receiver, counters>>
  BY DEF SendChunk, SendFails, EndJob, Tick, Lose, vars
<1>9. QED
  BY <1>2, <1>5, <1>6, <1>7, <1>8 DEF Next

\* Receive takes in an envelope of its flow if the frame is complete.
LEMMA EmittedReceive ==
  ASSUME IInv, NEW c \in BagToSet(net), NEW again \in BOOLEAN, Receive(c, again), NEW f \in Flows
  PROVE  Emitted(f)' = Emitted(f) + IF pc' = "envelope" /\ f = KeyOf(c)[1] THEN 1 ELSE 0
<1>1. pc = "idle" /\ count' = count
  BY DEF Receive, Tally
<1>2. pc' = "envelope" => hand'.key = KeyOf(c)
  BY ReceiveAdds
<1>3. Emitted(f) = count[f]["envelopes"] /\ count[f]["envelopes"] \in Nat
  BY <1>1, RecallTypes DEF Emitted
<1>4. Emitted(f)' = count[f]["envelopes"] + IF pc' = "envelope" /\ f = KeyOf(c)[1] THEN 1 ELSE 0
  BY <1>1, <1>2 DEF Emitted
<1>5. QED
  BY <1>3, <1>4

\* The three quantities of NeverMore, for a step that changes none of the others.
LEMMA NeverMoreFrame ==
  ASSUME IInv, NeverMore, [Next]_vars, NEW f \in Flows, Emitted(f)' = Emitted(f),
         LastHeld(f, buffers') \subseteq LastHeld(f, buffers),
         LastCopies(f, net') \subseteq LastCopies(f, net),
         sent'[f] = sent[f], dups' = dups
  PROVE  /\ IsFiniteSet(LastCopies(f, net'))
         /\ Emitted(f)' + Cardinality(LastHeld(f, buffers')) + Cardinality(LastCopies(f, net'))
              <= sent'[f] + dups'
<1>1. /\ Cardinality(LastHeld(f, buffers')) \in Nat /\ Cardinality(LastHeld(f, buffers)) \in Nat
      /\ Cardinality(LastHeld(f, buffers')) <= Cardinality(LastHeld(f, buffers))
  BY RecallTypes, StaysWithin
<1>2. /\ IsFiniteSet(LastCopies(f, net'))
      /\ Cardinality(LastCopies(f, net')) \in Nat /\ Cardinality(LastCopies(f, net)) \in Nat
      /\ Cardinality(LastCopies(f, net')) <= Cardinality(LastCopies(f, net))
  BY StaysWithin DEF NeverMore
<1>3. QED
  BY <1>1, <1>2, RecallTypes, SMTT(30) DEF NeverMore

\* A copy taken off the tunnel.
LEMMA FewerCopies ==
  ASSUME IsBag(net), NEW c \in DOMAIN net, net' = net (-) SetToBag({c}), NEW f
  PROVE  IsBag(net') /\ LastCopies(f, net') \subseteq LastCopies(f, net)
<1>1. /\ DOMAIN net' = IF net[c] = 1 THEN DOMAIN net \ {c} ELSE DOMAIN net
      /\ \A d \in DOMAIN net' : d # c => net'[d] = net[d]
      /\ c \in DOMAIN net' => net'[c] = net[c] - 1
      /\ IsBag(net')
  <2>1. LET d == net (-) SetToBag({c}) IN
          /\ DOMAIN d = IF net[c] = 1 THEN DOMAIN net \ {c} ELSE DOMAIN net
          /\ \A e \in DOMAIN d : e # c => d[e] = net[e]
          /\ c \in DOMAIN d => d[c] = net[c] - 1
          /\ IsBag(d)
    BY TakeOne
  <2>2. QED
    BY <2>1
<1>2. net[c] \in Nat \ {0}
  BY DEF IsBag
<1>3. DOMAIN net' \subseteq DOMAIN net
  BY <1>1
<1>4. ASSUME NEW d \in DOMAIN net', NEW m \in Nat \ {0}, m <= net'[d]
      PROVE  d \in DOMAIN net /\ m <= net[d]
  <2>1. CASE d = c
    BY <1>1, <1>2, <1>4, <2>1
  <2>2. CASE d # c
    BY <1>1, <1>3, <1>4, <2>2
  <2>3. QED
    BY <2>1, <2>2
<1>5. QED
  BY <1>1, <1>4 DEF LastCopies

\* Sending the last chunk of a frame counts the frame.
LEMMA NeverMoreSend ==
  ASSUME IInv, NeverMore, SendChunk
  PROVE  NeverMore'
<1>a. PICK c : c = [flow |-> Flow, id |-> packet, idx |-> chunk, count |-> Pcap[Flow][packet].chunks]
  OBVIOUS
<1> DEFINE n == IF c \in DOMAIN net THEN net[c] + 1 ELSE 1
<1>1. Sending /\ net' = net (+) SetToBag({c}) /\ UNCHANGED <<buffers, dups>>
  BY <1>a DEF SendChunk, receiver, history
<1>2. Flow \in Flows /\ Pcap[Flow][packet].chunks \in Nat \ {0} /\ chunk \in Nat
      /\ chunk <= Pcap[Flow][packet].chunks /\ sent \in [Flows -> Nat]
  BY <1>1, FrameAt DEF Sending, Flow, IInv, TypeOK, SenderInStep
<1>3. /\ DOMAIN net' = DOMAIN net \cup {c}
      /\ \A d \in DOMAIN net : d # c => net'[d] = net[d]
      /\ net'[c] = n /\ IsBag(net')
  <2>1. IsBag(net) /\ net' = net (+) SetToBag({c})
    BY <1>1 DEF NeverMore
  <2>2. LET d == net (+) SetToBag({c}) IN
          /\ DOMAIN d = DOMAIN net \cup {c}
          /\ \A e \in DOMAIN net : e # c => d[e] = net[e]
          /\ d[c] = IF c \in DOMAIN net THEN net[c] + 1 ELSE 1
          /\ IsBag(d)
    BY <2>1, AddOne
  <2>3. QED
    BY <2>1, <2>2
<1>4. \A f \in Flows : Emitted(f)' = Emitted(f)
  BY EmittedKept DEF Next, SendChunk, Emitted, receiver, counters
<1>5. c.flow = Flow /\ (c.idx = c.count <=> ~ (chunk < Pcap[Flow][packet].chunks))
  BY <1>2, <1>a
<1>6. sent' = IF c.idx = c.count THEN [sent EXCEPT ![Flow] = @ + 1] ELSE sent
  BY <1>5 DEF SendChunk
<1>7. ASSUME NEW f \in Flows
      PROVE  /\ IsFiniteSet(LastCopies(f, net'))
             /\ Emitted(f)' + Cardinality(LastHeld(f, buffers')) + Cardinality(LastCopies(f, net'))
                  <= sent'[f] + dups'
  <2>1. CASE IsLast(c, f)
    <3>1. f = Flow /\ sent'[f] = sent[f] + 1
      BY <1>2, <1>5, <1>6, <2>1 DEF IsLast
    <3>2. LastCopies(f, net') \in SUBSET (LastCopies(f, net) \cup {<<c, n>>})
      <4>1. SUFFICES ASSUME NEW x \in LastCopies(f, net'), x \notin LastCopies(f, net)
                     PROVE  x = <<c, n>>
        OBVIOUS
      <4>2. /\ x \in Chunks \X (Nat \ {0}) /\ x[1] \in DOMAIN net' /\ x[2] <= net'[x[1]]
            /\ IsLast(x[1], f)
        BY <4>1 DEF LastCopies
      <4>3. x[1] = c
        BY <1>3, <4>1, <4>2 DEF LastCopies
      <4>4. x[2] = n
        <5>1. CASE c \in DOMAIN net
          <6>1. ~ (x[2] <= net[c]) /\ net[c] \in Nat
            BY <4>1, <4>2, <4>3, <5>1 DEF LastCopies, NeverMore, IsBag
          <6>2. QED
            BY <1>3, <4>2, <4>3, <5>1, <6>1
        <5>2. CASE c \notin DOMAIN net
          BY <1>3, <4>2, <4>3, <5>2
        <5>3. QED
          BY <5>1, <5>2
      <4>5. QED
        BY <4>2, <4>3, <4>4
    <3> HIDE DEF n
    <3>3. /\ IsFiniteSet(LastCopies(f, net')) /\ Cardinality(LastCopies(f, net')) \in Nat
          /\ Cardinality(LastCopies(f, net)) \in Nat
          /\ Cardinality(LastCopies(f, net')) <= Cardinality(LastCopies(f, net)) + 1
      BY <3>2, GainsOne DEF NeverMore
    <3>4. Cardinality(LastHeld(f, buffers)) \in Nat
      BY RecallTypes, FS_CardinalityType
    <3>5. /\ LastHeld(f, buffers') = LastHeld(f, buffers) /\ dups' = dups
          /\ Emitted(f)' = Emitted(f) /\ sent'[f] = sent[f] + 1
      BY <1>1, <1>4, <3>1
    <3>6. Emitted(f) + Cardinality(LastHeld(f, buffers)) + Cardinality(LastCopies(f, net)) <= sent[f] + dups
      BY DEF NeverMore
    <3>7. Emitted(f) \in Nat /\ sent[f] \in Nat /\ dups \in Nat
      BY RecallTypes
    <3>8. QED
      BY <3>3, <3>4, <3>5, <3>6, <3>7, SMTT(30)
  <2>2. CASE ~ IsLast(c, f)
    <3>1. sent'[f] = sent[f]
      BY <1>2, <1>5, <1>6, <2>2 DEF IsLast
    <3>2. LastCopies(f, net') \subseteq LastCopies(f, net)
      BY <1>3, <2>2 DEF LastCopies
    <3>3. [Next]_vars /\ LastHeld(f, buffers') = LastHeld(f, buffers)
      BY <1>1 DEF Next
    <3>4. QED
      BY <1>1, <1>4, <3>1, <3>2, <3>3, NeverMoreFrame
  <2>3. QED
    BY <2>1, <2>2
<1>8. QED
  BY <1>3, <1>7 DEF NeverMore

\* Receiving a last chunk takes it off its way, or is one of the repetitions.
LEMMA NeverMoreReceive ==
  ASSUME IInv, NeverMore, NEW c \in BagToSet(net), NEW again \in BOOLEAN, Receive(c, again)
  PROVE  NeverMore'
<1> DEFINE k == KeyOf(c)
<1>1. /\ k \in RealKeys /\ c \in AllOf(k)
      /\ \A j \in Keys : j # k => buffers'[j] = buffers[j]
      /\ \/ /\ pc' = "envelope" /\ buffers'[k].chunks = {} /\ AllOf(k) \subseteq buffers[k].chunks \cup {c}
         \/ pc' = "idle" /\ buffers'[k].chunks = buffers[k].chunks \cup {c}
  BY ReceiveAdds
<1>2. /\ \A f \in Flows : Emitted(f)' = Emitted(f) + IF pc' = "envelope" /\ f = k[1] THEN 1 ELSE 0
      /\ sent' = sent
      /\ IF again THEN net' = net /\ dups' = dups + 1 ELSE net' = net (-) SetToBag({c}) /\ dups' = dups
  BY EmittedReceive DEF Receive, sender
<1>3. c.flow = k[1] /\ c.idx \in 1..SizeOf(k) /\ c.count = SizeOf(k) /\ c = ChunkOf(k, c.idx) /\ c \in Chunks
      /\ SizeOf(k) \in Nat \ {0} /\ c \in DOMAIN net
  BY <1>1, ChunkFacts, RealKeyFacts DEF KeyOf, BagToSet
<1> HIDE DEF k
<1>t. ~ again => /\ DOMAIN net' = IF net[c] = 1 THEN DOMAIN net \ {c} ELSE DOMAIN net
                 /\ \A d \in DOMAIN net' : d # c => net'[d] = net[d]
                 /\ c \in DOMAIN net' => net'[c] = net[c] - 1
                 /\ IsBag(net')
  <2>1. IsBag(net) /\ c \in DOMAIN net /\ (~ again => net' = net (-) SetToBag({c}))
    BY <1>2, <1>3 DEF NeverMore
  <2>2. LET d == net (-) SetToBag({c}) IN
          /\ DOMAIN d = IF net[c] = 1 THEN DOMAIN net \ {c} ELSE DOMAIN net
          /\ \A e \in DOMAIN d : e # c => d[e] = net[e]
          /\ c \in DOMAIN d => d[c] = net[c] - 1
          /\ IsBag(d)
    BY <2>1, TakeOne
  <2>3. QED
    BY <2>1, <2>2
<1>n. net[c] \in Nat \ {0}
  BY <1>3 DEF NeverMore, IsBag
<1>4. IsBag(net')
  BY <1>2, <1>t DEF NeverMore
<1>5. \A f : LastCopies(f, net') \subseteq LastCopies(f, net)
  BY <1>2, <1>3, FewerCopies DEF NeverMore
<1>6. ASSUME NEW f \in Flows, IsLast(c, f), ~ again
      PROVE  Cardinality(LastCopies(f, net')) + 1 <= Cardinality(LastCopies(f, net))
  <2>1. net[c] \in Nat \ {0} /\ <<c, net[c]>> \in LastCopies(f, net)
    BY <1>3, <1>6 DEF NeverMore, IsBag, LastCopies
  <2>2. <<c, net[c]>> \notin LastCopies(f, net')
    BY <1>t, <1>n, <1>6 DEF LastCopies
  <2>3. LastCopies(f, net') \in SUBSET (LastCopies(f, net) \ {<<c, net[c]>>})
    BY <1>5, <2>2
  <2>4. QED
    BY <2>1, <2>3, LosesOne DEF NeverMore
<1>7. ASSUME NEW f \in Flows
      PROVE  /\ IsFiniteSet(LastCopies(f, net'))
             /\ Emitted(f)' + Cardinality(LastHeld(f, buffers')) + Cardinality(LastCopies(f, net'))
                  <= sent'[f] + dups'
  <2> DEFINE H == LastHeld(f, buffers)
             H2 == LastHeld(f, buffers')
             C == LastCopies(f, net)
             C2 == LastCopies(f, net')
  <2>1. /\ IsFiniteSet(H) /\ Cardinality(H) \in Nat /\ IsFiniteSet(C2) /\ Cardinality(C2) \in Nat
        /\ Cardinality(C) \in Nat /\ Cardinality(C2) <= Cardinality(C)
    BY <1>5, RecallTypes, StaysWithin DEF NeverMore
  <2>2. Cardinality(C2) + (IF IsLast(c, f) THEN 1 ELSE 0) + dups <= Cardinality(C) + dups'
    BY <1>2, <1>6, <2>1, RecallTypes, SMTT(30)
  <2>3. \A j \in RealKeys : j # k => (j \in H2 <=> j \in H)
    BY <1>1, RealKeyFacts DEF LastHeld
  <2>4. Emitted(f) + Cardinality(H) + Cardinality(C) <= sent[f] + dups
    BY DEF NeverMore
  <2>5. k \in H => f = k[1]
    BY DEF LastHeld
  <2>6. IsLast(c, f) <=> f = k[1] /\ c = ChunkOf(k, SizeOf(k))
    BY <1>3 DEF IsLast, ChunkOf
  <2>7. H2 \in SUBSET (H \cup {k}) /\ (H2 \in SUBSET H \/ IsLast(c, f))
    <3>1. k \in H2 /\ k \notin H => IsLast(c, f)
      BY <1>1, <2>6 DEF LastHeld
    <3>2. H2 \subseteq RealKeys
      BY DEF LastHeld
    <3>3. QED
      BY <2>3, <3>1, <3>2
  <2>8. pc' = "envelope" /\ f = k[1] => H2 \in SUBSET (H \ {k}) /\ (k \in H \/ IsLast(c, f))
    <3>1. SUFFICES ASSUME pc' = "envelope", f = k[1] PROVE H2 \in SUBSET (H \ {k}) /\ (k \in H \/ IsLast(c, f))
      OBVIOUS
    <3>2. buffers'[k].chunks = {} /\ AllOf(k) \subseteq buffers[k].chunks \cup {c}
      BY <1>1, <3>1
    <3>3. k \notin H2 /\ H2 \subseteq RealKeys
      BY <3>2 DEF LastHeld
    <3>4. ChunkOf(k, SizeOf(k)) \in AllOf(k)
      BY <1>3 DEF AllOf
    <3>5. k \in H \/ c = ChunkOf(k, SizeOf(k))
      BY <1>1, <3>1, <3>2, <3>4 DEF LastHeld
    <3>6. QED
      BY <2>3, <2>6, <3>1, <3>3, <3>5
  <2> HIDE DEF H, H2, C, C2
  <2>9. Cardinality(H2) \in Nat
    BY <2>1, <2>7, GainsOne
  <2>10. Cardinality(H2) + (IF pc' = "envelope" /\ f = k[1] THEN 1 ELSE 0)
           <= Cardinality(H) + (IF IsLast(c, f) THEN 1 ELSE 0)
    <3>1. CASE pc' = "envelope" /\ f = k[1] /\ k \in H
      <4>1. Cardinality(H2) + 1 <= Cardinality(H)
        BY <2>1, <2>8, <3>1, LosesOne
      <4>2. QED
        BY <2>1, <2>9, <3>1, <4>1
    <3>2. CASE pc' = "envelope" /\ f = k[1] /\ k \notin H
      <4>1. IsLast(c, f) /\ H2 \in SUBSET H
        BY <2>8, <3>2
      <4>2. Cardinality(H2) <= Cardinality(H)
        BY <2>1, <4>1, StaysWithin
      <4>3. QED
        BY <2>1, <2>9, <4>1, <4>2
    <3>3. CASE ~ (pc' = "envelope" /\ f = k[1])
      <4>1. CASE IsLast(c, f)
        <5>1. Cardinality(H2) <= Cardinality(H) + 1
          BY <2>1, <2>7, GainsOne
        <5>2. QED
          BY <2>1, <2>9, <3>3, <4>1, <5>1
      <4>2. CASE ~ IsLast(c, f)
        BY <2>1, <2>7, <2>9, <3>3, <4>2, StaysWithin
      <4>3. QED
        BY <4>1, <4>2
    <3>4. QED
      BY <3>1, <3>2, <3>3
  <2>11. Emitted(f)' + Cardinality(H2) + Cardinality(C2) <= sent'[f] + dups'
    <3> DEFINE e == IF pc' = "envelope" /\ f = k[1] THEN 1 ELSE 0
               l == IF IsLast(c, f) THEN 1 ELSE 0
               m == Emitted(f)
               s == sent[f]
               h == Cardinality(H)
               h2 == Cardinality(H2)
               w == Cardinality(C)
               w2 == Cardinality(C2)
               d2 == dups'
    <3>1. m \in Nat /\ s \in Nat /\ dups \in Nat /\ d2 \in Nat /\ e \in Nat /\ l \in Nat
      BY <1>2, RecallTypes
    <3>2. h \in Nat /\ h2 \in Nat /\ w \in Nat /\ w2 \in Nat
      BY <2>1, <2>9
    <3>3. h2 + e <= h + l /\ w2 + l + dups <= w + d2 /\ m + h + w <= s + dups
      BY <2>2, <2>4, <2>10
    <3>4. Emitted(f)' = m + e /\ sent'[f] = s
      BY <1>2
    <3> HIDE DEF e, l, m, s, h, h2, w, w2, d2
    <3>5. m + e + h2 + w2 <= s + d2
      BY <3>1, <3>2, <3>3
    <3>6. QED
      BY <3>4, <3>5 DEF h2, w2, d2
  <2>12. QED
    BY <2>1, <2>11 DEF H2, C2
<1>8. QED
  BY <1>4, <1>7 DEF NeverMore

LEMMA NeverMoreInit == Init => NeverMore
<1>1. SUFFICES ASSUME Init PROVE NeverMore
  OBVIOUS
<1>2. net = EmptyBag /\ sent = [f \in Flows |-> 0] /\ dups = 0 /\ pc = "idle"
      /\ count = NoCounts /\ buffers = [k \in Keys |-> NoEntry]
  BY <1>1 DEF Init
<1>a. DOMAIN net = {}
  BY <1>2 DEF EmptyBag, SetToBag
<1>3. ASSUME NEW f \in Flows
      PROVE  LastCopies(f, net) = {} /\ LastHeld(f, buffers) = {} /\ Emitted(f) = 0 /\ sent[f] = 0
  BY <1>2, <1>a, RealKeyFacts DEF LastCopies, LastHeld, NoEntry, Emitted, NoCounts, Stages
<1>4. ASSUME NEW f \in Flows
      PROVE  /\ IsFiniteSet(LastCopies(f, net)) /\ Cardinality(LastCopies(f, net)) = 0
             /\ Cardinality(LastHeld(f, buffers)) = 0
  BY <1>3, FS_EmptySet
<1>5. ASSUME NEW f \in Flows
      PROVE  /\ IsFiniteSet(LastCopies(f, net))
             /\ Emitted(f) + Cardinality(LastHeld(f, buffers)) + Cardinality(LastCopies(f, net)) <= sent[f] + dups
  BY <1>2, <1>3, <1>4
<1>6. QED
  BY <1>a, <1>5 DEF NeverMore, IsBag

LEMMA NeverMoreNext == IInv /\ NeverMore /\ [Next]_vars => NeverMore'
<1>1. SUFFICES ASSUME IInv, NeverMore, [Next]_vars PROVE NeverMore'
  OBVIOUS
<1>2. CASE SendChunk
  BY <1>1, <1>2, NeverMoreSend
<1>3. CASE \E c \in BagToSet(net), again \in BOOLEAN : Receive(c, again)
  BY <1>1, <1>3, NeverMoreReceive
<1>4. CASE Stop
  <2>1. /\ count' = NoCounts /\ pc' = "idle" /\ buffers' = [k \in Keys |-> NoEntry]
        /\ net' = net /\ sent' = sent /\ dups' = dups
    BY <1>4 DEF Stop, sender
  <2>2. ASSUME NEW f \in Flows
        PROVE  LastHeld(f, buffers') = {} /\ Emitted(f)' = 0
    BY <2>1, RealKeyFacts DEF LastHeld, NoEntry, Emitted, NoCounts, Stages
  <2>3. ASSUME NEW f \in Flows
        PROVE  /\ IsFiniteSet(LastCopies(f, net'))
               /\ Emitted(f)' + Cardinality(LastHeld(f, buffers')) + Cardinality(LastCopies(f, net'))
                    <= sent'[f] + dups'
    <3>1. /\ IsFiniteSet(LastCopies(f, net)) /\ Cardinality(LastCopies(f, net)) \in Nat
          /\ Cardinality(LastHeld(f, buffers)) \in Nat /\ Emitted(f) \in Nat
          /\ sent[f] \in Nat /\ dups \in Nat
      BY <1>1, RecallTypes, FS_CardinalityType DEF NeverMore
    <3>2. Cardinality(LastCopies(f, net)) <= sent[f] + dups
      <4> DEFINE a == Emitted(f)  h == Cardinality(LastHeld(f, buffers))
                 w == Cardinality(LastCopies(f, net))  z == sent[f] + dups
      <4>1. a \in Nat /\ h \in Nat /\ w \in Nat /\ z \in Nat /\ a + h + w <= z
        BY <1>1, <3>1 DEF NeverMore
      <4> HIDE DEF a, h, w, z
      <4>2. w <= z
        BY <4>1
      <4>3. QED
        BY <4>2 DEF w, z
    <3>3. /\ Emitted(f)' = 0 /\ Cardinality(LastHeld(f, buffers')) = 0
          /\ LastCopies(f, net') = LastCopies(f, net) /\ sent'[f] + dups' = sent[f] + dups
      BY <2>1, <2>2, FS_EmptySet
    <3>4. QED
      BY <3>1, <3>2, <3>3
  <2>4. QED
    BY <1>1, <2>1, <2>3 DEF NeverMore
<1>5. CASE ~ SendChunk /\ ~ Stop /\ ~ \E c \in BagToSet(net), again \in BOOLEAN : Receive(c, again)
  <2>1. sent' = sent /\ dups' = dups
    BY <1>1, <1>5 DEF Next, SendFails, EndJob, Lose, Decode, DropUndecodable, DropForeign, Drop,
      HoldFragment, Process, ExpireTrains, ExpireEnvelopes, Tick, sender, history, vars
  <2>2. net' = net \/ \E c \in DOMAIN net : net' = net (-) SetToBag({c})
    BY <1>1, <1>5 DEF Next, SendFails, EndJob, Lose, Decode, DropUndecodable, DropForeign, Drop,
      HoldFragment, Process, ExpireTrains, ExpireEnvelopes, Tick, vars, BagToSet
  <2>3. IsBag(net') /\ \A f : LastCopies(f, net') \subseteq LastCopies(f, net)
    BY <1>1, <2>2, FewerCopies DEF NeverMore
  <2>4. buffers' = buffers \/ ExpireEnvelopes
    BY <1>1, <1>5 DEF Next, SendFails, EndJob, Lose, Decode, DropUndecodable, DropForeign, Drop,
      HoldFragment, Process, ExpireTrains, Tick, receiver, vars
  <2>5. \A j \in Keys : buffers'[j].chunks \subseteq buffers[j].chunks
    BY <2>4 DEF ExpireEnvelopes, NoEntry
  <2>6. \A f : LastHeld(f, buffers') \subseteq LastHeld(f, buffers)
    BY <2>5, RealKeyFacts DEF LastHeld
  <2>7. QED
    BY <1>1, <1>5, <2>1, <2>3, <2>6, EmittedKept, NeverMoreFrame DEF NeverMore
<1>6. QED
  BY <1>2, <1>3, <1>4, <1>5

LEMMA NeverMoreInvariance == Spec => []NeverMore
<1>1. Spec => []IInv
  BY FunnelInvariance
<1>2. QED
  BY <1>1, NeverMoreInit, NeverMoreNext, PTL DEF Spec
------------------------------------------------------------------------------
(* Recall falls only with losses.                                          *)

\* The frame that is being sent, the frames that are done with, and how many of
\* a frame's first chunks are on their way or wait.
Current(k) == Sending /\ k = <<Flow, packet>>
Gone(k) == \E h \in DOMAIN Jobs : Jobs[h] = k[1] /\ (h < job \/ (h = job /\ k[2] < packet))
Has(k, n) == \A x \in 1..n : ChunkOf(k, x) \in DOMAIN net \cup buffers[k].chunks

\* The frames of f that can yet be recognised, as far as they were sent.
Ready(f) == {k \in RealKeys : k[1] = f /\ (\/ Gone(k) /\ Has(k, SizeOf(k))
                                           \/ Current(k) /\ Has(k, chunk - 1))}
InWork(f) == IF Sending /\ Flow = f THEN 1 ELSE 0

\* Every frame that was sent, and the one that is being sent, was recognised, can
\* yet be, or is made up for by a datagram lost or a chunk set expired.
NeverLessOf(f) ==
  sent[f] + InWork(f) <= Emitted(f) + losses + expired + Cardinality(Ready(f))
NeverLess == \A f \in Flows : (stops = 0 /\ Replays(f) <= 1) => NeverLessOf(f)

LEMMA ReplayedOnce ==
  ASSUME NEW f \in Flows, Replays(f) <= 1, NEW h \in DOMAIN Jobs, NEW j \in DOMAIN Jobs,
         Jobs[h] = f, Jobs[j] = f
  PROVE  h = j
<1> DEFINE S == {i \in DOMAIN Jobs : Jobs[i] = f}
<1>1. IsFiniteSet(S)
  <2>1. DOMAIN Jobs = 1..Len(Jobs) /\ Len(Jobs) \in Nat
    BY PcapAssumption
  <2>2. IsFiniteSet(DOMAIN Jobs) /\ S \subseteq DOMAIN Jobs
    BY <2>1, FS_Interval
  <2>3. QED
    BY <2>2, FS_Subset
<1>2. SUFFICES ASSUME h # j PROVE FALSE
  OBVIOUS
<1>3. {h, j} \subseteq S /\ Cardinality(S) <= 1
  BY DEF Replays
<1> HIDE DEF S
<1>4. Cardinality({h, j}) = 2 /\ Cardinality({h, j}) <= Cardinality(S) /\ Cardinality(S) \in Nat
  <2>1. Cardinality({h}) = 1 /\ IsFiniteSet({h})
    BY FS_Singleton
  <2>2. Cardinality({h} \cup {j}) = Cardinality({h}) + 1
    BY <1>2, <2>1, FS_AddElement
  <2>3. {h} \cup {j} = {h, j}
    OBVIOUS
  <2>4. Cardinality({h, j}) = 2
    BY <2>1, <2>2, <2>3
  <2>5. {h, j} \in SUBSET S
    BY <1>3
  <2>6. Cardinality({h, j}) <= Cardinality(S)
    BY <1>1, <2>5, FS_Subset
  <2>7. QED
    BY <1>1, <2>4, <2>6, FS_CardinalityType
<1>5. QED
  BY <1>3, <1>4

LEMMA ReadyFinite ==
  ASSUME NEW f \in Flows
  PROVE  IsFiniteSet({k \in RealKeys : k[1] = f})
<1> DEFINE T == DOMAIN Pcap[f]
           g == [i \in T |-> <<f, i>>]
           S == {k \in RealKeys : k[1] = f}
<1>1. IsFiniteSet(T)
  <2>1. T = 1..Len(Pcap[f]) /\ Len(Pcap[f]) \in Nat
    BY PcapAssumption
  <2>2. QED
    BY <2>1, FS_Interval
<1>2. \A k \in S : k[2] \in T /\ k = <<f, k[2]>>
  BY RealKeyFacts DEF RealKeys, Keys
<1>3. {g[i] : i \in T} = S
  <2>1. \A i \in T : <<f, i>> \in S
    BY KeyOfFrame
  <2>2. QED
    BY <1>2, <2>1
<1>4. g \in Surjection(T, S)
  BY <1>2, <1>3 DEF Surjection
<1>5. QED
  BY <1>1, <1>4, FS_Surjection

\* Sets that gain some elements and lose others.
LEMMA GainsAndLoses ==
  ASSUME NEW R, NEW R2, IsFiniteSet(R), IsFiniteSet(R2),
         NEW A \in SUBSET R2, NEW B, IsFiniteSet(B), A \cap R = {}, R \subseteq R2 \cup B
  PROVE  /\ Cardinality(R) \in Nat /\ Cardinality(R2) \in Nat
         /\ Cardinality(A) \in Nat /\ Cardinality(B) \in Nat
         /\ Cardinality(R) + Cardinality(A) <= Cardinality(R2) + Cardinality(B)
<1>1. /\ IsFiniteSet(A) /\ Cardinality(R) \in Nat /\ Cardinality(R2) \in Nat
      /\ Cardinality(A) \in Nat /\ Cardinality(B) \in Nat
  BY FS_Subset, FS_CardinalityType
<1>2. /\ IsFiniteSet(R \cup A)
      /\ Cardinality(R \cup A) = Cardinality(R) + Cardinality(A) - Cardinality(R \cap A)
  BY <1>1, FS_Union
<1>3. /\ IsFiniteSet(R2 \cup B)
      /\ Cardinality(R2 \cup B) = Cardinality(R2) + Cardinality(B) - Cardinality(R2 \cap B)
  BY <1>1, FS_Union
<1>4. Cardinality(R \cap A) = 0
  <2>1. R \cap A = {}
    OBVIOUS
  <2>2. QED
    BY <2>1, FS_EmptySet
<1>5. Cardinality(R2 \cap B) \in Nat
  BY <1>1, FS_Subset, FS_CardinalityType
<1>6. Cardinality(R \cup A) <= Cardinality(R2 \cup B)
  <2>1. R \cup A \subseteq R2 \cup B
    OBVIOUS
  <2>2. QED
    BY <1>3, <2>1, FS_Subset
<1> DEFINE r == Cardinality(R)  r2 == Cardinality(R2)  a == Cardinality(A)  b == Cardinality(B)
           u == Cardinality(R2 \cap B)
<1>7. r \in Nat /\ r2 \in Nat /\ a \in Nat /\ b \in Nat /\ u \in Nat /\ r + a - 0 <= r2 + b - u
  BY <1>1, <1>2, <1>3, <1>4, <1>5, <1>6
<1> HIDE DEF r, r2, a, b, u
<1>8. r + a <= r2 + b
  BY <1>7
<1>9. QED
  BY <1>1, <1>8 DEF r, r2, a, b

\* The books of a step: frames A come to those that are ready, no more than B go.
LEMMA Books ==
  ASSUME IInv, NEW f \in Flows, NeverLessOf(f),
         NEW A, NEW B, IsFiniteSet(B), A \subseteq Ready(f)', A \cap Ready(f) = {},
         Ready(f) \subseteq Ready(f)' \cup B,
         NEW s \in Nat, sent'[f] + InWork(f)' = s,
         NEW e \in Nat, Emitted(f)' + losses' + expired' = e,
         (s + Cardinality(B)) + (Emitted(f) + losses + expired)
           <= (sent[f] + InWork(f) + Cardinality(A)) + e
  PROVE  NeverLessOf(f)'
<1> DEFINE U == {k \in RealKeys : k[1] = f}
           R == Ready(f)
           R2 == Ready(f)'
<1>1. IsFiniteSet(R) /\ IsFiniteSet(R2)
  <2>1. R \subseteq U /\ R2 \subseteq U
    BY DEF Ready
  <2>2. QED
    BY <2>1, ReadyFinite, FS_Subset
<1>2. /\ Cardinality(R) \in Nat /\ Cardinality(R2) \in Nat
      /\ Cardinality(A) \in Nat /\ Cardinality(B) \in Nat
      /\ Cardinality(R) + Cardinality(A) <= Cardinality(R2) + Cardinality(B)
  BY <1>1, GainsAndLoses
<1>3. Emitted(f) \in Nat /\ sent[f] \in Nat /\ losses \in Nat /\ expired \in Nat
  BY RecallTypes
<1> DEFINE r == Cardinality(R)  r2 == Cardinality(R2)  a == Cardinality(A)  b == Cardinality(B)
           s0 == sent[f] + InWork(f)  e0 == Emitted(f) + losses + expired
<1>a. InWork(f) \in Nat
  BY DEF InWork
<1>b. s0 \in Nat /\ e0 \in Nat
  BY <1>3, <1>a
<1>c. s0 <= e0 + r
  BY DEF NeverLessOf
<1>d. (s + b) + e0 <= (s0 + a) + e
  OBVIOUS
<1>4. /\ r \in Nat /\ r2 \in Nat /\ a \in Nat /\ b \in Nat /\ s0 \in Nat /\ e0 \in Nat
      /\ r + a <= r2 + b /\ s0 <= e0 + r /\ (s + b) + e0 <= (s0 + a) + e
  BY <1>2, <1>b, <1>c, <1>d
<1> HIDE DEF r, r2, a, b, s0, e0
<1>5. s <= e + r2
  BY <1>4
<1>6. QED
  BY <1>5 DEF r2, NeverLessOf

\* What is on its way or waits stays within reach, but for frames D.
LEMMA StaysReady ==
  ASSUME IInv, NEW f \in Flows, UNCHANGED <<job, packet, chunk>>, NEW D,
         \A k \in RealKeys : (k[1] = f /\ k \notin D) =>
           \A x \in Nat : ChunkOf(k, x) \in DOMAIN net \cup buffers[k].chunks
                            => ChunkOf(k, x) \in DOMAIN net' \cup buffers'[k].chunks
  PROVE  Ready(f) \subseteq Ready(f)' \cup D /\ InWork(f)' = InWork(f)
<1>1. \A k \in RealKeys : (Current(k)' <=> Current(k)) /\ (Gone(k)' <=> Gone(k))
  BY DEF Current, Gone, Sending, Flow
<1>2. InWork(f)' = InWork(f)
  BY DEF InWork, Sending, Flow
<1>3. ASSUME NEW k \in RealKeys, k[1] = f, k \notin D, NEW n \in Int, Has(k, n)
      PROVE  Has(k, n)'
  BY <1>3 DEF Has
<1>4. chunk - 1 \in Int /\ chunk' - 1 = chunk - 1 /\ \A k \in RealKeys : SizeOf(k) \in Int
  BY RealKeyFacts, SMTT(30) DEF IInv, TypeOK
<1>5. ASSUME NEW k \in Ready(f), k \notin D
      PROVE  k \in Ready(f)'
  <2>1. k \in RealKeys /\ k[1] = f
    BY DEF Ready
  <2>2. CASE Gone(k) /\ Has(k, SizeOf(k))
    <3>1. Gone(k)' /\ Has(k, SizeOf(k))'
      BY <1>1, <1>3, <1>4, <1>5, <2>1, <2>2
    <3>2. QED
      BY <2>1, <3>1 DEF Ready
  <2>3. CASE Current(k) /\ Has(k, chunk - 1)
    <3>1. Current(k)' /\ Has(k, chunk - 1)'
      BY <1>1, <1>3, <1>4, <1>5, <2>1, <2>3
    <3>2. QED
      BY <2>1, <3>1 DEF Ready
  <2>4. QED
    BY <2>2, <2>3 DEF Ready
<1>6. QED
  BY <1>2, <1>5

\* More on its way, and nothing taken from what waits.
LEMMA HasMore ==
  ASSUME DOMAIN net \subseteq DOMAIN net', buffers' = buffers, NEW k, NEW n, Has(k, n)
  PROVE  Has(k, n)'
BY DEF Has

\* Another flow than the one that is sent.
LEMMA OtherFlow ==
  ASSUME IInv, job \in DOMAIN Jobs, NEW f \in Flows, f # Flow, job' = job,
         DOMAIN net \subseteq DOMAIN net', buffers' = buffers
  PROVE  Ready(f) \subseteq Ready(f)' /\ InWork(f) = 0 /\ InWork(f)' = 0
<1>1. InWork(f) = 0 /\ InWork(f)' = 0
  BY DEF InWork, Flow
<1>2. ASSUME NEW k \in Ready(f) PROVE k \in Ready(f)'
  <2>1. k \in RealKeys /\ k[1] = f /\ ~ Current(k)
    BY DEF Ready, Current
  <2>2. Gone(k) /\ Has(k, SizeOf(k))
    BY <2>1 DEF Ready
  <2>3. Gone(k)'
    BY <2>1, <2>2 DEF Gone, Flow
  <2>4. Has(k, SizeOf(k))'
    BY <2>2, HasMore
  <2>5. QED
    BY <2>1, <2>3, <2>4 DEF Ready
<1>3. QED
  BY <1>1, <1>2

\* The sender goes on to the next frame of the file, which is then ready as far
\* as it was sent; the frame that was sent may be so or not.
LEMMA NextFrame ==
  ASSUME IInv, Sending, Replays(Flow) <= 1, job' = job, packet' = packet + 1, chunk' = 1,
         DOMAIN net \subseteq DOMAIN net', buffers' = buffers,
         NEW f, f = Flow, NEW A,
         A = IF packet + 1 \in DOMAIN Pcap[f] THEN {<<f, packet + 1>>} ELSE {}
  PROVE  /\ A \subseteq Ready(f)' /\ A \cap Ready(f) = {}
         /\ Ready(f) \subseteq Ready(f)' \cup {<<f, packet>>}
         /\ InWork(f) = 1 /\ InWork(f)' = Cardinality(A)
<1>1. job \in DOMAIN Jobs /\ packet \in DOMAIN Pcap[f] /\ f \in Flows /\ f = Jobs[job] /\ packet \in Nat
      /\ job \in Nat
  BY FrameAt DEF Sending, Flow, IInv, TypeOK
<1>2. InWork(f) = 1 /\ InWork(f)' = Cardinality(A)
  <2>1. InWork(f)' = IF packet + 1 \in DOMAIN Pcap[f] THEN 1 ELSE 0
    BY <1>1 DEF InWork, Sending, Flow
  <2>2. Cardinality({<<f, packet + 1>>}) = 1 /\ Cardinality({}) = 0
    BY FS_Singleton, FS_EmptySet
  <2>3. Cardinality(A) = IF packet + 1 \in DOMAIN Pcap[f] THEN 1 ELSE 0
    BY <2>2
  <2>4. QED
    BY <2>1, <2>3 DEF InWork
<1>3. ASSUME packet + 1 \in DOMAIN Pcap[f]
      PROVE  <<f, packet + 1>> \in Ready(f)' /\ <<f, packet + 1>> \notin Ready(f)
  <2>0. PICK q : q = <<f, packet + 1>>
    OBVIOUS
  <2>1. q \in RealKeys /\ q[1] = f
    BY <1>1, <1>3, <2>0, KeyOfFrame
  <2>2. Current(q)'
    BY <1>1, <1>3, <2>0 DEF Current, Sending, Flow
  <2>3. Has(q, chunk - 1)'
    BY <1>1 DEF Has
  <2>4. ~ Current(q)
    BY <1>1, <2>0 DEF Current, Flow
  <2>5. ~ Gone(q)
    <3>1. SUFFICES ASSUME NEW h \in DOMAIN Jobs, Jobs[h] = f, h < job \/ (h = job /\ packet + 1 < packet)
                   PROVE  FALSE
      BY <2>0, <2>1 DEF Gone
    <3>2. h = job
      BY <1>1, <3>1, ReplayedOnce
    <3>3. QED
      BY <1>1, <3>1, <3>2
  <2>6. q \in Ready(f)' /\ q \notin Ready(f)
    BY <2>1, <2>2, <2>3, <2>4, <2>5 DEF Ready
  <2>7. QED
    BY <2>0, <2>6
<1>4. ASSUME NEW k \in Ready(f), k # <<f, packet>>
      PROVE  k \in Ready(f)'
  <2>1. k \in RealKeys /\ k[1] = f /\ ~ Current(k) /\ k[2] \in Nat
    BY <1>1, <1>4, RealKeyFacts DEF Ready, Current
  <2>2. Gone(k) /\ Has(k, SizeOf(k))
    BY <1>4, <2>1 DEF Ready
  <2>3. Gone(k)'
    <3>1. PICK h \in DOMAIN Jobs : Jobs[h] = k[1] /\ (h < job \/ (h = job /\ k[2] < packet))
      BY <2>2 DEF Gone
    <3>2. h < job' \/ (h = job' /\ k[2] < packet')
      BY <1>1, <2>1, <3>1
    <3>3. QED
      BY <3>1, <3>2 DEF Gone
  <2>4. Has(k, SizeOf(k))'
    BY <2>2, HasMore
  <2>5. QED
    BY <2>1, <2>3, <2>4 DEF Ready
<1>5. QED
  BY <1>2, <1>3, <1>4

\* The frame that was sent whole is ready to be recognised.
LEMMA FrameSent ==
  ASSUME IInv, Sending, job' = job, packet' = packet + 1, buffers' = buffers,
         NEW f, f = Flow, NEW k, k = <<f, packet>>, k \in Ready(f), SizeOf(k) = chunk,
         DOMAIN net' = DOMAIN net \cup {ChunkOf(k, chunk)}, ~ Gone(k)
  PROVE  k \in Ready(f)'
<1>1. k \in RealKeys /\ k[1] = f /\ f = Jobs[job] /\ job \in DOMAIN Jobs /\ packet \in Nat /\ chunk \in Nat
  BY DEF Ready, Flow, Sending, IInv, TypeOK
<1>2. Has(k, chunk - 1)
  BY DEF Ready
<1>3. Has(k, SizeOf(k))'
  <2>1. ASSUME NEW x \in 1..chunk PROVE ChunkOf(k, x) \in DOMAIN net' \cup buffers'[k].chunks
    <3>1. CASE x = chunk
      BY <3>1
    <3>2. CASE x # chunk
      <4>1. x \in 1..(chunk - 1)
        BY <1>1, <3>2
      <4>2. QED
        BY <1>2, <4>1 DEF Has
    <3>3. QED
      BY <3>1, <3>2
  <2>2. QED
    BY <2>1 DEF Has
<1>4. Gone(k)'
  BY <1>1 DEF Gone, Sending, Flow
<1>5. QED
  BY <1>1, <1>3, <1>4 DEF Ready

\* What the books need of a step that recognises and gives up nothing.
LEMMA SameBooks ==
  ASSUME IInv, NEW f \in Flows, NeverLessOf(f), Emitted(f)' = Emitted(f), losses' = losses,
         expired' = expired, NEW A, NEW B, IsFiniteSet(B), A \subseteq Ready(f)',
         A \cap Ready(f) = {}, Ready(f) \subseteq Ready(f)' \cup B,
         NEW s \in Nat, sent'[f] + InWork(f)' = s,
         s + Cardinality(B) <= sent[f] + InWork(f) + Cardinality(A)
  PROVE  NeverLessOf(f)'
<1> DEFINE e == Emitted(f) + losses + expired
           z == sent[f] + InWork(f) + Cardinality(A)
<1>1. e \in Nat /\ Emitted(f)' + losses' + expired' = e
  BY RecallTypes
<1>2. Cardinality(B) \in Nat /\ IsFiniteSet(A)
  <2>1. Ready(f)' \subseteq {k \in RealKeys : k[1] = f}
    BY DEF Ready
  <2>2. QED
    BY <2>1, ReadyFinite, FS_Subset, FS_CardinalityType
<1>3. z \in Nat
  BY <1>2, RecallTypes, FS_CardinalityType, SMTT(30) DEF InWork
<1>4. (s + Cardinality(B)) + e <= z + e
  <2> HIDE DEF e, z
  <2> DEFINE b == Cardinality(B)
  <2>1. b \in Nat /\ s + b <= z
    BY <1>2 DEF z
  <2> HIDE DEF b
  <2>2. (s + b) + e <= z + e
    BY <1>1, <1>3, <2>1
  <2>3. QED
    BY <2>2 DEF b
<1>5. QED
  BY <1>1, <1>4, Books

\* The frame that is sent is not yet done with, if its file is replayed once.
LEMMA NotGone ==
  ASSUME IInv, job \in DOMAIN Jobs, Replays(Flow) <= 1, NEW i \in Nat, i >= packet
  PROVE  ~ Gone(<<Flow, i>>)
<1>1. Flow \in Flows /\ job \in Nat /\ packet \in Nat /\ Flow = Jobs[job]
  BY DEF IInv, TypeOK, Flow
<1>2. SUFFICES ASSUME NEW h \in DOMAIN Jobs, Jobs[h] = Flow, h < job \/ (h = job /\ i < packet)
               PROVE  FALSE
  BY DEF Gone
<1>3. h = job
  BY <1>1, <1>2, ReplayedOnce
<1>4. QED
  BY <1>1, <1>2, <1>3

LEMMA NeverLessSend ==
  ASSUME IInv, SendChunk, NEW f \in Flows, Replays(f) <= 1, NeverLessOf(f)
  PROVE  NeverLessOf(f)'
<1>1. PICK k : k = <<Flow, packet>>
  OBVIOUS
<1>2. /\ Sending /\ job \in DOMAIN Jobs /\ Flow \in Flows /\ packet \in Nat /\ chunk \in Nat
      /\ SizeOf(k) = Pcap[Flow][packet].chunks
      /\ chunk <= SizeOf(k) /\ SizeOf(k) \in Nat /\ k \in RealKeys /\ k[1] = Flow
      /\ sent \in [Flows -> Nat]
  BY <1>1, FrameAt, KeyOfFrame DEF SendChunk, Sending, Flow, IInv, TypeOK, SenderInStep, SizeOf
<1>3. DOMAIN net' = DOMAIN net \cup {ChunkOf(k, chunk)}
  <2>1. net' = net (+) SetToBag({ChunkOf(k, chunk)})
    BY <1>1, <1>2 DEF SendChunk, ChunkOf
  <2>2. QED
    BY <2>1, AddToTunnel DEF BagToSet
<1>4. job' = job /\ buffers' = buffers /\ losses' = losses /\ expired' = expired
  BY DEF SendChunk, receiver, history
<1>5. Emitted(f)' = Emitted(f)
  BY DEF SendChunk, Emitted, receiver, counters
<1>6. Cardinality({}) = 0 /\ IsFiniteSet({})
  BY FS_EmptySet
<1>7. CASE f # Flow
  <2>1. Ready(f) \subseteq Ready(f)' /\ InWork(f) = 0 /\ InWork(f)' = 0
    BY <1>2, <1>3, <1>4, <1>7, OtherFlow
  <2>2. sent'[f] = sent[f] /\ sent[f] \in Nat
    BY <1>2, <1>7 DEF SendChunk
  <2>3. sent'[f] + InWork(f)' = sent[f] /\ sent[f] + 0 <= sent[f] + InWork(f) + 0
    BY <2>1, <2>2
  <2>4. QED
    BY <1>4, <1>5, <1>6, <2>1, <2>2, <2>3, SameBooks
<1>8. CASE f = Flow /\ chunk < SizeOf(k)
  <2>1. chunk' = chunk + 1 /\ packet' = packet /\ sent' = sent
    BY <1>2, <1>8 DEF SendChunk
  <2>2. InWork(f)' = 1 /\ InWork(f) = 1 /\ Flow' = Flow
    BY <1>2, <1>4, <1>8, <2>1 DEF InWork, Sending, Flow
  <2>3. ASSUME NEW q \in Ready(f) PROVE q \in Ready(f)'
    <3>1. q \in RealKeys /\ q[1] = f
      BY DEF Ready
    <3>2. CASE Gone(q) /\ Has(q, SizeOf(q))
      <4>1. Gone(q)'
        BY <1>4, <2>1, <3>2 DEF Gone
      <4>2. Has(q, SizeOf(q))'
        BY <1>3, <1>4, <3>2, HasMore
      <4>3. QED
        BY <3>1, <4>1, <4>2 DEF Ready
    <3>3. CASE Current(q) /\ Has(q, chunk - 1)
      <4>1. q = k /\ Current(q)'
        BY <1>1, <1>4, <2>1, <3>3 DEF Current, Sending, Flow
      <4>2. ASSUME NEW x \in 1..chunk PROVE ChunkOf(q, x) \in DOMAIN net' \cup buffers'[q].chunks
        <5>1. CASE x = chunk
          BY <1>3, <4>1, <5>1
        <5>2. CASE x # chunk
          <6>1. x \in 1..(chunk - 1)
            BY <1>2, <5>2
          <6>2. QED
            BY <1>3, <1>4, <3>3, <6>1 DEF Has
        <5>3. QED
          BY <5>1, <5>2
      <4>3. chunk' - 1 = chunk
        BY <1>2, <2>1
      <4>4. Has(q, chunk - 1)'
        BY <4>2, <4>3 DEF Has
      <4>5. QED
        BY <3>1, <4>1, <4>4 DEF Ready
    <3>4. QED
      BY <3>2, <3>3 DEF Ready
  <2>4. /\ sent[f] + 1 \in Nat /\ sent'[f] + InWork(f)' = sent[f] + 1
        /\ (sent[f] + 1) + 0 <= sent[f] + InWork(f) + 0
    BY <1>2, <2>1, <2>2, SMTT(30)
  <2>5. QED
    BY <1>4, <1>5, <1>6, <2>3, <2>4, SameBooks
<1>9. CASE f = Flow /\ ~ (chunk < SizeOf(k))
  <2>1. /\ chunk' = 1 /\ packet' = packet + 1 /\ sent' = [sent EXCEPT ![Flow] = @ + 1]
        /\ SizeOf(k) = chunk
    <3>1. SizeOf(k) = chunk
      BY <1>2, <1>9
    <3>2. ~ (chunk < Pcap[Flow][packet].chunks)
      BY <1>2, <1>9
    <3>3. QED
      BY <3>1, <3>2, ZenonT(30) DEF SendChunk
  <2>2. PICK A : A = IF packet + 1 \in DOMAIN Pcap[f] THEN {<<f, packet + 1>>} ELSE {}
    OBVIOUS
  <2>3. /\ A \subseteq Ready(f)' /\ A \cap Ready(f) = {}
        /\ Ready(f) \subseteq Ready(f)' \cup {k}
        /\ InWork(f) = 1 /\ InWork(f)' = Cardinality(A)
    BY <1>1, <1>2, <1>3, <1>4, <1>9, <2>1, <2>2, NextFrame
  <2>4. k \in Ready(f) => k \in Ready(f)'
    <3>1. ~ Gone(k)
      BY <1>1, <1>2, <1>9, NotGone
    <3>2. QED
      BY <1>1, <1>2, <1>3, <1>4, <1>9, <2>1, <3>1, FrameSent
  <2>5. Ready(f) \subseteq Ready(f)' \cup {}
    BY <2>3, <2>4
  <2>6. Cardinality(A) \in Nat
    <3>1. Cardinality({<<f, packet + 1>>}) = 1
      BY FS_Singleton
    <3>2. QED
      BY <1>6, <2>2, <3>1
  <2>7. /\ sent[f] + 1 + Cardinality(A) \in Nat /\ sent'[f] + InWork(f)' = sent[f] + 1 + Cardinality(A)
        /\ (sent[f] + 1 + Cardinality(A)) + 0 <= sent[f] + InWork(f) + Cardinality(A)
    BY <1>2, <1>9, <2>1, <2>3, <2>6
  <2>8. QED
    BY <1>4, <1>5, <1>6, <2>3, <2>5, <2>7, SameBooks
<1>10. QED
  BY <1>7, <1>8, <1>9

\* A send that fails gives up the frame, sent or not.
LEMMA NeverLessFails ==
  ASSUME IInv, SendFails, NEW f \in Flows, Replays(f) <= 1, NeverLessOf(f)
  PROVE  NeverLessOf(f)'
<1>1. /\ Sending /\ job \in DOMAIN Jobs /\ job' = job /\ net' = net /\ buffers' = buffers
      /\ losses' = losses /\ expired' = expired /\ sent' = sent
      /\ chunk' = 1 /\ packet' = packet + 1 /\ sent[f] \in Nat
  BY RecallTypes DEF SendFails, Sending, receiver
<1>2. Emitted(f)' = Emitted(f)
  BY DEF SendFails, Emitted, receiver, counters
<1>3. Cardinality({}) = 0 /\ IsFiniteSet({})
  BY FS_EmptySet
<1>4. CASE f # Flow
  <2>1. Ready(f) \subseteq Ready(f)' /\ InWork(f) = 0 /\ InWork(f)' = 0
    BY <1>1, <1>4, OtherFlow
  <2>2. sent'[f] + InWork(f)' = sent[f] /\ sent[f] + 0 <= sent[f] + InWork(f) + 0
    BY <1>1, <2>1
  <2>3. QED
    BY <1>1, <1>2, <1>3, <2>1, <2>2, SameBooks
<1>5. CASE f = Flow
  <2>1. PICK A : A = IF packet + 1 \in DOMAIN Pcap[f] THEN {<<f, packet + 1>>} ELSE {}
    OBVIOUS
  <2>2. PICK k : k = <<f, packet>>
    OBVIOUS
  <2>3. /\ A \subseteq Ready(f)' /\ A \cap Ready(f) = {}
        /\ Ready(f) \subseteq Ready(f)' \cup {k}
        /\ InWork(f) = 1 /\ InWork(f)' = Cardinality(A)
    BY <1>1, <1>5, <2>1, <2>2, NextFrame
  <2>4. Cardinality({k}) = 1 /\ IsFiniteSet({k})
    BY FS_Singleton
  <2>5. Cardinality(A) \in Nat
    <3>1. Cardinality({<<f, packet + 1>>}) = 1
      BY FS_Singleton
    <3>2. QED
      BY <1>3, <2>1, <3>1
  <2>6. /\ sent[f] + Cardinality(A) \in Nat /\ sent'[f] + InWork(f)' = sent[f] + Cardinality(A)
        /\ (sent[f] + Cardinality(A)) + Cardinality({k}) <= sent[f] + InWork(f) + Cardinality(A)
    BY <1>1, <2>3, <2>4, <2>5, SMTT(30)
  <2>7. QED
    BY <1>1, <1>2, <2>3, <2>4, <2>6, SameBooks
<1>6. QED
  BY <1>4, <1>5

\* The next job begins at the first frame of its file; the rest of a file that is
\* given up was never sent.
LEMMA NeverLessEnd ==
  ASSUME IInv, EndJob, NEW f \in Flows, Replays(f) <= 1, NeverLessOf(f)
  PROVE  NeverLessOf(f)'
<1>1. /\ job \in DOMAIN Jobs /\ job' = job + 1 /\ packet' = 1 /\ chunk' = 1 /\ chunk = 1
      /\ net' = net /\ buffers' = buffers /\ losses' = losses /\ expired' = expired
      /\ sent' = sent /\ sent[f] \in Nat /\ job \in Nat
  BY RecallTypes DEF EndJob, receiver, history, IInv, TypeOK
<1>2. Emitted(f)' = Emitted(f)
  BY DEF EndJob, Emitted, receiver, counters
<1>3. PICK A : A = IF job + 1 \in DOMAIN Jobs /\ Jobs[job + 1] = f /\ 1 \in DOMAIN Pcap[f]
                   THEN {<<f, 1>>} ELSE {}
  OBVIOUS
<1>4. PICK B : B = IF Sending /\ Flow = f THEN {<<f, packet>>} ELSE {}
  OBVIOUS
<1>5. Cardinality({}) = 0 /\ IsFiniteSet({})
  BY FS_EmptySet
<1>6. InWork(f)' = Cardinality(A) /\ Cardinality(A) \in Nat
  <2>1. Cardinality({<<f, 1>>}) = 1
    BY FS_Singleton
  <2>2. InWork(f)' = IF job + 1 \in DOMAIN Jobs /\ Jobs[job + 1] = f /\ 1 \in DOMAIN Pcap[f] THEN 1 ELSE 0
    BY <1>1 DEF InWork, Sending, Flow
  <2>3. QED
    BY <1>3, <1>5, <2>1, <2>2
<1>7. Cardinality(B) = InWork(f) /\ IsFiniteSet(B) /\ InWork(f) \in Nat
  <2>1. Cardinality({<<f, packet>>}) = 1 /\ IsFiniteSet({<<f, packet>>})
    BY FS_Singleton
  <2>2. QED
    BY <1>4, <1>5, <2>1 DEF InWork
<1>8. A \subseteq Ready(f)' /\ A \cap Ready(f) = {}
  <2>1. SUFFICES ASSUME job + 1 \in DOMAIN Jobs, Jobs[job + 1] = f, 1 \in DOMAIN Pcap[f]
                 PROVE  <<f, 1>> \in Ready(f)' /\ <<f, 1>> \notin Ready(f)
    BY <1>3
  <2>2. <<f, 1>> \in RealKeys
    BY <2>1, KeyOfFrame
  <2>3. Current(<<f, 1>>)' /\ Has(<<f, 1>>, chunk - 1)'
    BY <1>1, <2>1 DEF Current, Has, Sending, Flow
  <2>4. \A h \in DOMAIN Jobs : Jobs[h] = f => h = job + 1
    BY <2>1, ReplayedOnce
  <2>5. ~ Current(<<f, 1>>) /\ ~ Gone(<<f, 1>>)
    BY <1>1, <2>1, <2>4 DEF Current, Gone, Sending, Flow
  <2>6. QED
    BY <2>2, <2>3, <2>5 DEF Ready
<1>9. Ready(f) \subseteq Ready(f)' \cup B
  <2>1. SUFFICES ASSUME NEW k \in Ready(f), k \notin B PROVE k \in Ready(f)'
    OBVIOUS
  <2>2. k \in RealKeys /\ k[1] = f /\ ~ Current(k)
    BY <1>4, <2>1 DEF Ready, Current
  <2>3. Gone(k) /\ Has(k, SizeOf(k))
    BY <2>1, <2>2 DEF Ready
  <2>4. Gone(k)'
    <3>1. PICK h \in DOMAIN Jobs : Jobs[h] = k[1] /\ (h < job \/ h = job)
      BY <2>3 DEF Gone
    <3>2. h < job'
      BY <1>1, <3>1
    <3>3. QED
      BY <3>1, <3>2 DEF Gone
  <2>5. Has(k, SizeOf(k))'
    BY <1>1, <2>3, HasMore
  <2>6. QED
    BY <2>2, <2>4, <2>5 DEF Ready
<1>10. /\ sent[f] + Cardinality(A) \in Nat /\ sent'[f] + InWork(f)' = sent[f] + Cardinality(A)
       /\ (sent[f] + Cardinality(A)) + Cardinality(B) <= sent[f] + InWork(f) + Cardinality(A)
  BY <1>1, <1>6, <1>7, SMTT(30)
<1>11. QED
  BY <1>1, <1>2, <1>7, <1>8, <1>9, <1>10, SameBooks

\* A step that leaves the sender alone: frames D are no longer in reach, and as
\* many were recognised or given up.
LEMMA OtherBooks ==
  ASSUME IInv, NEW f \in Flows, NeverLessOf(f), UNCHANGED sender, NEW D, IsFiniteSet(D),
         \A k \in RealKeys : (k[1] = f /\ k \notin D) =>
           \A x \in Nat : ChunkOf(k, x) \in DOMAIN net \cup buffers[k].chunks
                            => ChunkOf(k, x) \in DOMAIN net' \cup buffers'[k].chunks,
         NEW e \in Nat, Emitted(f)' + losses' + expired' = e,
         Emitted(f) + losses + expired + Cardinality(D) <= e
  PROVE  NeverLessOf(f)'
<1>1. UNCHANGED <<job, packet, chunk>> /\ sent' = sent
  BY DEF sender
<1>2. Ready(f) \subseteq Ready(f)' \cup D /\ InWork(f)' = InWork(f)
  BY <1>1, StaysReady
<1> DEFINE s == sent[f] + InWork(f)
           d == Cardinality(D)
           e0 == Emitted(f) + losses + expired
<1>3. s \in Nat /\ d \in Nat /\ e0 \in Nat
  BY RecallTypes, FS_CardinalityType, SMTT(30) DEF InWork
<1>4. e0 + d <= e
  OBVIOUS
<1>5. sent'[f] + InWork(f)' = s
  BY <1>1, <1>2
<1>6. (s + Cardinality(D)) + (Emitted(f) + losses + expired)
        <= (sent[f] + InWork(f) + Cardinality({})) + e
  <2>1. Cardinality({}) = 0
    BY FS_EmptySet
  <2> HIDE DEF s, d, e0
  <2>2. \A a, b, c, g \in Nat : c + b <= g => (a + b) + c <= (a + 0) + g
    OBVIOUS
  <2>3. (s + d) + e0 <= (s + 0) + e
    BY <1>3, <1>4, <2>2
  <2>4. QED
    BY <2>1, <2>3 DEF s, d, e0
<1>7. QED
  BY <1>2, <1>3, <1>5, <1>6, Books

\* A chunk is of one frame only.
LEMMA OneFrame ==
  ASSUME NEW k \in RealKeys, NEW j \in RealKeys, NEW x, NEW y, ChunkOf(k, x) = ChunkOf(j, y)
  PROVE  k = j
<1>1. k[1] = j[1] /\ k[2] = j[2]
  BY DEF ChunkOf
<1>2. QED
  BY <1>1, RealKeyFacts

LEMMA NeverLessLose ==
  ASSUME IInv, NeverMore, NEW c \in BagToSet(net), Lose(c), NEW f \in Flows, NeverLessOf(f)
  PROVE  NeverLessOf(f)'
<1>1. PICK j \in RealKeys : c \in AllOf(j)
  BY DEF IInv, TunnelGenuine
<1>2. c = ChunkOf(j, c.idx)
  BY <1>1, ChunkFacts
<1>3. /\ UNCHANGED sender /\ buffers' = buffers /\ losses' = losses + 1 /\ expired' = expired
      /\ net' = net (-) SetToBag({c}) /\ Emitted(f)' = Emitted(f)
  BY DEF Lose, receiver, counters, Emitted
<1>4. DOMAIN net \subseteq DOMAIN net' \cup {c}
  <2>1. LET d == net (-) SetToBag({c}) IN
          /\ DOMAIN d = IF net[c] = 1 THEN DOMAIN net \ {c} ELSE DOMAIN net
          /\ \A e \in DOMAIN d : e # c => d[e] = net[e]
          /\ c \in DOMAIN d => d[c] = net[c] - 1
          /\ IsBag(d)
    BY TakeOne DEF NeverMore, BagToSet
  <2>2. QED
    BY <1>3, <2>1
<1>5. \A k \in RealKeys : (k[1] = f /\ k \notin {j}) =>
        \A x \in Nat : ChunkOf(k, x) \in DOMAIN net \cup buffers[k].chunks
                         => ChunkOf(k, x) \in DOMAIN net' \cup buffers'[k].chunks
  BY <1>2, <1>3, <1>4, OneFrame
<1>6. Cardinality({j}) = 1 /\ IsFiniteSet({j})
  BY FS_Singleton
<1>7. /\ Emitted(f) + losses + expired + 1 \in Nat
      /\ Emitted(f)' + losses' + expired' = Emitted(f) + losses + expired + 1
  <2>1. Emitted(f) \in Nat /\ losses \in Nat /\ expired \in Nat
    BY RecallTypes
  <2>2. QED
    BY <1>3, <2>1
<1>8. Emitted(f) + losses + expired + Cardinality({j}) <= Emitted(f) + losses + expired + 1
  BY <1>6, <1>7
<1>9. QED
  BY <1>3, <1>5, <1>6, <1>7, <1>8, OtherBooks

LEMMA NeverLessReceive ==
  ASSUME IInv, NeverMore, NEW c \in BagToSet(net), NEW again \in BOOLEAN, Receive(c, again),
         NEW f \in Flows, NeverLessOf(f)
  PROVE  NeverLessOf(f)'
<1>1. PICK j : j = KeyOf(c)
  OBVIOUS
<1>2. /\ j \in RealKeys /\ c \in AllOf(j)
      /\ \A k \in Keys : k # j => buffers'[k] = buffers[k]
      /\ \/ pc' = "envelope"
         \/ pc' = "idle" /\ buffers'[j].chunks = buffers[j].chunks \cup {c}
  BY <1>1, ReceiveAdds
<1>3. c = ChunkOf(j, c.idx)
  BY <1>2, ChunkFacts
<1>4. UNCHANGED sender /\ losses' = losses /\ expired' = expired
  BY DEF Receive
<1>5. Emitted(f)' = Emitted(f) + IF pc' = "envelope" /\ f = j[1] THEN 1 ELSE 0
  BY <1>1, EmittedReceive
<1>6. DOMAIN net \subseteq DOMAIN net' \cup {c}
  <2>1. LET d == net (-) SetToBag({c}) IN
          /\ DOMAIN d = IF net[c] = 1 THEN DOMAIN net \ {c} ELSE DOMAIN net
          /\ \A e \in DOMAIN d : e # c => d[e] = net[e]
          /\ c \in DOMAIN d => d[c] = net[c] - 1
          /\ IsBag(d)
    BY TakeOne DEF NeverMore, BagToSet
  <2>2. net' = net \/ net' = net (-) SetToBag({c})
    BY DEF Receive
  <2>3. QED
    BY <2>1, <2>2
<1>7. \A k \in RealKeys : k # j =>
        \A x \in Nat : ChunkOf(k, x) \in DOMAIN net \cup buffers[k].chunks
                         => ChunkOf(k, x) \in DOMAIN net' \cup buffers'[k].chunks
  <2>1. SUFFICES ASSUME NEW k \in RealKeys, k # j, NEW x \in Nat,
                        ChunkOf(k, x) \in DOMAIN net \cup buffers[k].chunks
                 PROVE  ChunkOf(k, x) \in DOMAIN net' \cup buffers'[k].chunks
    OBVIOUS
  <2>2. buffers'[k] = buffers[k] /\ ChunkOf(k, x) # c
    BY <1>2, <1>3, <2>1, RealKeyFacts, OneFrame
  <2>3. QED
    BY <1>6, <2>1, <2>2
<1>8. CASE pc' = "envelope" /\ f = j[1]
  <2>1. Cardinality({j}) = 1 /\ IsFiniteSet({j})
    BY FS_Singleton
  <2>2. /\ Emitted(f) + losses + expired + 1 \in Nat
        /\ Emitted(f)' + losses' + expired' = Emitted(f) + losses + expired + 1
        /\ Emitted(f) + losses + expired + Cardinality({j}) <= Emitted(f) + losses + expired + 1
    BY <1>4, <1>5, <1>8, <2>1, RecallTypes
  <2>3. QED
    BY <1>4, <1>7, <2>1, <2>2, OtherBooks
<1>9. CASE ~ (pc' = "envelope" /\ f = j[1])
  <2>1. Cardinality({}) = 0 /\ IsFiniteSet({})
    BY FS_EmptySet
  <2>2. /\ Emitted(f) + losses + expired \in Nat
        /\ Emitted(f)' + losses' + expired' = Emitted(f) + losses + expired
        /\ Emitted(f) + losses + expired + Cardinality({}) <= Emitted(f) + losses + expired
    BY <1>4, <1>5, <1>9, <2>1, RecallTypes
  <2>3. \A k \in RealKeys : (k[1] = f /\ k \notin {}) =>
          \A x \in Nat : ChunkOf(k, x) \in DOMAIN net \cup buffers[k].chunks
                           => ChunkOf(k, x) \in DOMAIN net' \cup buffers'[k].chunks
    <3>1. ASSUME NEW x \in Nat, f = j[1], ChunkOf(j, x) \in DOMAIN net \cup buffers[j].chunks
          PROVE  ChunkOf(j, x) \in DOMAIN net' \cup buffers'[j].chunks
      BY <1>2, <1>6, <1>9, <3>1
    <3>2. QED
      BY <1>7, <3>1
  <2>4. QED
    BY <1>4, <2>1, <2>2, <2>3, OtherBooks
<1>10. QED
  BY <1>8, <1>9

LEMMA NeverLessExpire ==
  ASSUME IInv, ExpireEnvelopes, NEW f \in Flows, NeverLessOf(f)
  PROVE  NeverLessOf(f)'
<1> DEFINE D == {k \in Keys : Stale(k)}
<1>1. /\ UNCHANGED sender /\ losses' = losses /\ expired' = expired + Cardinality(D)
      /\ net' = net /\ count' = count /\ pc = "expire" /\ pc' = "idle"
      /\ \A k \in Keys : k \notin D => buffers'[k] = buffers[k]
  BY DEF ExpireEnvelopes, counters
<1>2. Emitted(f)' = Emitted(f)
  BY <1>1 DEF Emitted
<1>3. IsFiniteSet(D) /\ Cardinality(D) \in Nat
  <2>1. D \subseteq Waiting
    BY DEF Stale, Waiting
  <2>2. IsFiniteSet(Waiting)
    BY DEF IInv, BuffersGenuine
  <2>3. QED
    BY <2>1, <2>2, FS_Subset, FS_CardinalityType
<1>4. PICK E : E = D
  OBVIOUS
<1>5. \A k \in RealKeys : (k[1] = f /\ k \notin E) =>
        \A x \in Nat : ChunkOf(k, x) \in DOMAIN net \cup buffers[k].chunks
                         => ChunkOf(k, x) \in DOMAIN net' \cup buffers'[k].chunks
  BY <1>1, <1>4, RealKeyFacts
<1> HIDE DEF D
<1>6. /\ Emitted(f) + losses + expired + Cardinality(E) \in Nat
      /\ Emitted(f)' + losses' + expired' = Emitted(f) + losses + expired + Cardinality(E)
      /\ Emitted(f) + losses + expired + Cardinality(E) <= Emitted(f) + losses + expired + Cardinality(E)
  BY <1>1, <1>2, <1>3, <1>4, RecallTypes
<1>7. QED
  BY <1>1, <1>3, <1>4, <1>5, <1>6, OtherBooks

LEMMA NeverLessInit == Init => NeverLess
<1>1. SUFFICES ASSUME Init, NEW f \in Flows PROVE NeverLessOf(f)
  BY DEF NeverLess
<1>2. /\ sent[f] = 0 /\ losses = 0 /\ expired = 0 /\ job = 1 /\ packet = 1 /\ chunk = 1
      /\ pc = "idle" /\ count = NoCounts
  BY <1>1 DEF Init
<1>3. Emitted(f) = 0
  BY <1>2 DEF Emitted, NoCounts, Stages
<1>4. IsFiniteSet(Ready(f)) /\ Cardinality(Ready(f)) \in Nat
  <2>1. Ready(f) \subseteq {k \in RealKeys : k[1] = f}
    BY DEF Ready
  <2>2. QED
    BY <2>1, ReadyFinite, FS_Subset, FS_CardinalityType
<1>5. CASE ~ (Sending /\ Flow = f)
  BY <1>2, <1>3, <1>4, <1>5 DEF NeverLessOf, InWork
<1>6. CASE Sending /\ Flow = f
  <2>1. <<f, packet>> \in RealKeys /\ Current(<<f, packet>>)
    BY <1>6, KeyOfFrame DEF Current, Sending
  <2>2. Has(<<f, packet>>, chunk - 1)
    BY <1>2 DEF Has
  <2>3. {<<f, packet>>} \subseteq Ready(f)
    BY <2>1, <2>2 DEF Ready
  <2>4. Cardinality({<<f, packet>>}) <= Cardinality(Ready(f))
    BY <1>4, <2>3, FS_Subset
  <2>5. 1 <= Cardinality(Ready(f))
    BY <2>4, FS_Singleton
  <2>6. QED
    BY <1>2, <1>3, <1>4, <1>6, <2>5 DEF NeverLessOf, InWork
<1>7. QED
  BY <1>5, <1>6

LEMMA NeverLessNext == IInv /\ NeverMore /\ NeverLess /\ [Next]_vars => NeverLess'
<1>1. SUFFICES ASSUME IInv, NeverMore, NeverLess, [Next]_vars, NEW f \in Flows,
                      stops' = 0, Replays(f) <= 1
               PROVE  NeverLessOf(f)'
  BY DEF NeverLess, Replays
<1>2. ~ Stop
  BY <1>1, RecallTypes DEF Stop
<1>3. stops = 0
  BY <1>1, <1>2 DEF Next, SendChunk, SendFails, EndJob, Lose, Receive, Decode, DropUndecodable,
    DropForeign, Drop, HoldFragment, Process, ExpireTrains, ExpireEnvelopes, Tick, history, vars
<1>4. NeverLessOf(f)
  BY <1>1, <1>3 DEF NeverLess
<1>5. CASE SendChunk
  BY <1>1, <1>4, <1>5, NeverLessSend
<1>6. CASE SendFails
  BY <1>1, <1>4, <1>6, NeverLessFails
<1>7. CASE EndJob
  BY <1>1, <1>4, <1>7, NeverLessEnd
<1>8. CASE \E c \in BagToSet(net) : Lose(c)
  BY <1>1, <1>4, <1>8, NeverLessLose
<1>9. CASE \E c \in BagToSet(net), again \in BOOLEAN : Receive(c, again)
  BY <1>1, <1>4, <1>9, NeverLessReceive
<1>10. CASE ExpireEnvelopes
  BY <1>1, <1>4, <1>10, NeverLessExpire
<1>11. CASE \/ Decode \/ DropUndecodable \/ DropForeign \/ HoldFragment \/ Process
            \/ ExpireTrains \/ Tick \/ UNCHANGED vars
  <2>1. UNCHANGED sender /\ net' = net /\ buffers' = buffers /\ losses' = losses /\ expired' = expired
    BY <1>11 DEF Decode, DropUndecodable, DropForeign, Drop, HoldFragment, Process, ExpireTrains,
      Tick, receiver, history, vars
  <2>2. CASE ~ \E c \in BagToSet(net), again \in BOOLEAN : Receive(c, again)
    <3>1. Emitted(f)' = Emitted(f)
      BY <1>1, <1>2, <2>2, EmittedKept
    <3>2. Cardinality({}) = 0 /\ IsFiniteSet({})
      BY FS_EmptySet
    <3>3. Emitted(f) \in Nat /\ losses \in Nat /\ expired \in Nat
      BY <1>1, RecallTypes
    <3>4. /\ Emitted(f) + losses + expired \in Nat
          /\ Emitted(f)' + losses' + expired' = Emitted(f) + losses + expired
          /\ Emitted(f) + losses + expired + Cardinality({}) <= Emitted(f) + losses + expired
      BY <2>1, <3>1, <3>2, <3>3
    <3>5. QED
      BY <1>1, <1>4, <2>1, <3>2, <3>4, OtherBooks
  <2>3. QED
    BY <1>9, <2>2
<1>12. QED
  BY <1>1, <1>2, <1>5, <1>6, <1>7, <1>8, <1>9, <1>10, <1>11 DEF Next

LEMMA NeverLessInvariance == Spec => []NeverLess
<1>1. Spec => [](IInv /\ NeverMore)
  BY FunnelInvariance, NeverMoreInvariance, PTL
<1>2. QED
  BY <1>1, NeverLessInit, NeverLessNext, PTL DEF Spec

\* When all is quiet no frame can yet be recognised: a complete one does not wait.
LEMMA NothingDue ==
  ASSUME IInv, Quiet, NEW f \in Flows
  PROVE  InWork(f) = 0 /\ Ready(f) = {}
<1>1. DOMAIN net = {} /\ job \notin DOMAIN Jobs
  BY DEF Quiet, EmptyBag, SetToBag
<1>2. SUFFICES ASSUME NEW k \in Ready(f) PROVE FALSE
  BY <1>1 DEF InWork, Sending
<1>3. k \in RealKeys /\ Has(k, SizeOf(k))
  BY <1>1, <1>2 DEF Ready, Current, Sending
<1>4. AllOf(k) \subseteq buffers[k].chunks
  BY <1>1, <1>3 DEF Has, AllOf
<1>5. SizeOf(k) \in Nat \ {0} /\ k \in Keys /\ 1 \in 1..SizeOf(k)
  BY <1>3, RealKeyFacts
<1>6. buffers[k] # NoEntry /\ k \in Waiting
  <2>1. ChunkOf(k, 1) \in AllOf(k)
    BY <1>5 DEF AllOf
  <2>2. QED
    BY <1>4, <1>5, <2>1 DEF NoEntry, Waiting
<1>7. buffers[k].chunks \subseteq AllOf(k)
  BY <1>3, HeldChunks
<1>8. buffers[k].chunks = AllOf(k)
  BY <1>4, <1>7
<1>9. buffers[k].count = SizeOf(k) /\ Cardinality(buffers[k].chunks) \in 1..(buffers[k].count - 1)
  BY <1>6 DEF IInv, BuffersHoldParts, SizeOf
<1>10. Cardinality(AllOf(k)) = SizeOf(k)
  BY <1>3, AllOfFinite
<1>11. QED
  BY <1>5, <1>8, <1>9, <1>10

\* For any files and manifest and whatever the tunnel does, a job's packets are
\* recognised no more often than they were sent, but for datagrams delivered
\* twice; and of a job that is replayed once every packet that was sent has been
\* recognised when all is quiet, but for one per datagram lost and chunk set expired.
THEOREM RecallStaysHonest == Spec => []RecallIsHonest
<1>1. ASSUME IInv, NeverMore, NeverLess PROVE RecallIsHonest
  <2>1. SUFFICES ASSUME NEW f \in Flows
                 PROVE  /\ Emitted(f) <= sent[f] + dups
                        /\ (Quiet /\ stops = 0 /\ Replays(f) <= 1)
                             => sent[f] <= Emitted(f) + losses + expired
    BY DEF RecallIsHonest
  <2>2. /\ Emitted(f) \in Nat /\ sent[f] \in Nat /\ dups \in Nat /\ losses \in Nat /\ expired \in Nat
        /\ IsFiniteSet(LastHeld(f, buffers))
    BY <1>1, RecallTypes
  <2>3. Emitted(f) <= sent[f] + dups
    <3> DEFINE h == Cardinality(LastHeld(f, buffers))
               w == Cardinality(LastCopies(f, net))
               m == Emitted(f)
               z == sent[f] + dups
    <3>1. h \in Nat /\ w \in Nat
      BY <1>1, <2>2, FS_CardinalityType DEF NeverMore
    <3>2. m \in Nat /\ z \in Nat /\ m + h + w <= z
      BY <1>1, <2>2 DEF NeverMore
    <3> HIDE DEF h, w, m, z
    <3>3. m <= z
      BY <3>1, <3>2
    <3>4. QED
      BY <3>3 DEF m, z
  <2>4. ASSUME Quiet, stops = 0, Replays(f) <= 1
        PROVE  sent[f] <= Emitted(f) + losses + expired
    <3>1. NeverLessOf(f)
      BY <1>1, <2>4 DEF NeverLess
    <3>2. InWork(f) = 0 /\ Cardinality(Ready(f)) = 0
      BY <1>1, <2>4, NothingDue, FS_EmptySet
    <3>3. QED
      BY <2>2, <3>1, <3>2 DEF NeverLessOf
  <2>5. QED
    BY <2>3, <2>4
<1>2. QED
  BY <1>1, FunnelInvariance, NeverMoreInvariance, NeverLessInvariance, PTL
==============================================================================
