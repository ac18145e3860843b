------------------------ MODULE ExperimentRun_proofs ------------------------
(***************************************************************************)
(* What holds of every experiment: of the truth log and what the dashboard  *)
(* shows, of the packets behind the joined rows, and of the archive.        *)
(***************************************************************************)
EXTENDS ExperimentRun, FiniteSetTheorems, WellFoundedInduction, TLAPS

(***************************************************************************)
(* The inductive invariant.                                                *)
(***************************************************************************)
StartedRecord(k) ==
  [replay |-> jobs[k].replay, flow |-> jobs[k].pcap, status |-> "started", start |-> k, read |-> 0]

\* Records come in pairs, one pair for each job in turn; of the last pair the
\* second may be missing.
InPairs ==
  \A i \in DOMAIN truth : \E k \in 1..Len(jobs) :
    /\ k <= current
    /\ \/ i = 2 * k - 1 /\ truth[i] = StartedRecord(k)
       \/ i = 2 * k /\ k < current /\ truth[i].status = "completed"
            /\ truth[i].replay = jobs[k].replay /\ truth[i].flow = jobs[k].pcap
AtWork == gen \in {"replay", "drain"}
TruthInv ==
  /\ InPairs
  /\ AtWork => current <= Len(jobs) /\ Len(truth) = 2 * current - 1
  /\ gen \in {"boot", "next", "done"} => Len(truth) = 2 * current - 2
  /\ gen = "dead" => Len(truth) \in {2 * current - 2, 2 * current - 1}

\* The script goes on only after the generator, and the archive has the truth
\* log as it is and the rows there are but for those that come after it.
ArchiveIsOfLogs ==
  archive.truth = truth /\ \A i \in DOMAIN archive.items : i \in DOMAIN items /\ archive.items[i] = items[i]
ScriptInv ==
  /\ script # "wait" => gen \in {"done", "dead"}
  /\ Archived => ArchiveIsOfLogs

\* A packet that was read is on its way to a window of each size, in one, in a
\* row, or missing.
Accounted(p, s) ==
  \/ <<p, s>> \in missing
  \/ p \in ToSet(link) \cup ToSet(open[s])
  \/ \E i \in DOMAIN items : items[i].size = s /\ p \in items[i].packets
AllAccounted(flow, n) ==
  \A id \in 0..(n - 1), s \in Sizes : Accounted([flow |-> flow, id |-> id], s)
\* A row is attributed to the flow of its packets, if to any.
RowsAttributed ==
  \A i \in DOMAIN items : \A p \in items[i].packets : items[i].flow \in {NoFlow, p.flow}
PacketsInv ==
  /\ \A i \in DOMAIN truth : truth[i].status = "completed" => AllAccounted(truth[i].flow, truth[i].read)
  /\ AtWork => AllAccounted(Job.pcap, read)
  /\ RowsAttributed

\* The settle loop: rounds without a row, while a packet is in the tunnel, are
\* paid for by the packets that came into the small window.
Pace == EdgeRate * stable + pace <= Len(open[SmallWindow])
PaceInv ==
  /\ script = "wait" => stable = 0 /\ waited = 0
  /\ ~ Archived => stable < Settle /\ seen <= Len(items)
  /\ (script = "settle" /\ waited > 0 /\ link # <<>> /\ seen = Len(items) /\ missing = {}) => Pace

\* The packets that have yet to come into a row of the small window, in order.
Queue == open[SmallWindow] \o link
HasRow(flow) == \E i \in DOMAIN items : items[i].flow = flow
\* The packets of a job are next to each other and in order.
InRuns ==
  \A i, j \in DOMAIN Queue : i < j =>
    /\ Queue[j].id <= Queue[i].id + (j - i)
    /\ Queue[j].flow # Queue[i].flow => Queue[j].id < j - i
InTurn ==
  \A i \in DOMAIN Queue : i + 1 \in DOMAIN Queue =>
    \/ Queue[i + 1].id = 0
    \/ Queue[i + 1].flow = Queue[i].flow /\ Queue[i + 1].id = Queue[i].id + 1
\* A flow none of whose packets is in a row of its own has given away no more
\* packets than go together with one of another flow.
Early(p) == HasRow(p.flow) \/ p.id < SmallWindow
HeadIsEarly == Queue # <<>> => Early(Queue[1])
EndIsCurrent ==
  gen = "replay" /\ read > 0 =>
    IF Queue = <<>> THEN Early(Packet) ELSE Queue[Len(Queue)] = [flow |-> Job.pcap, id |-> read - 1]
\* A long job has a row or its end is yet to come.
Long(n) == n >= 2 * SmallWindow - 1
Served(flow) ==
  HasRow(flow) \/ \E e \in DOMAIN Queue : Queue[e].flow = flow /\ Queue[e].id >= 2 * SmallWindow - 2
QueueInv ==
  missing = {} =>
    /\ InRuns /\ InTurn /\ HeadIsEarly /\ EndIsCurrent
    /\ \A i \in DOMAIN truth : truth[i].status = "completed" /\ Long(truth[i].read) => Served(truth[i].flow)
    /\ AtWork /\ Long(read) => Served(Job.pcap)

\* Logs that settle while the edge node keeps up leave nothing in the tunnel, and
\* so no row comes after the archive.
SettledInv ==
  (Archived /\ SmallWindow <= EdgeRate * Settle /\ missing = {} /\ stable >= Settle) =>
    link = <<>> /\ items = archive.items

IInv == TypeOK /\ TruthInv /\ ScriptInv /\ PacketsInv /\ PaceInv /\ QueueInv /\ SettledInv
------------------------------------------------------------------------------
(* Types.                                                                   *)

LEMMA Constants ==
  /\ SmallWindow \in Nat /\ LargeWindow \in Nat /\ 0 < SmallWindow /\ SmallWindow < LargeWindow
  /\ SmallWindow \in Sizes /\ LargeWindow \in Sizes /\ Sizes \subseteq Nat
  /\ Settle \in Nat /\ 0 < Settle /\ MaxSettle \in Nat /\ EdgeRate \in Nat /\ 0 < EdgeRate /\ MaxTrouble \in Nat
BY WindowAssumption, SettleAssumption DEF Sizes

\* The job at hand, its packet and its records have their types.
LEMMA JobTypes ==
  ASSUME TypeOK, TruthInv, AtWork \/ current <= Len(jobs)
  PROVE  /\ current \in DOMAIN jobs /\ Job \in JobType /\ Packet \in PacketType
         /\ Job.pcap \in Pcaps /\ Job.packets \in Nat
         /\ \A n \in Nat : Record("started", n) \in RecordType /\ Record("completed", n) \in RecordType
<1>1. current \in DOMAIN jobs /\ jobs \in Seq(JobType) /\ read \in Nat
  BY DEF TypeOK, TruthInv
<1>2. Job \in JobType
  BY <1>1 DEF Job
<1>3. Job.pcap \in Pcaps /\ Job.packets \in Nat /\ Job.replay \in Nat
  BY <1>2 DEF JobType
<1>4. QED
  BY <1>1, <1>2, <1>3 DEF Packet, PacketType, Record, RecordType

LEMMA InitType == Init => TypeOK
<1> SUFFICES ASSUME Init PROVE TypeOK
  OBVIOUS
<1>1. jobs \in Seq(JobType)
  <2>1. PICK manifest \in Manifests : \E order \in Orders(manifest) :
          jobs = [i \in DOMAIN manifest |-> manifest[order[i]]]
    BY DEF Init
  <2>2. PICK order \in Orders(manifest) : jobs = [i \in DOMAIN manifest |-> manifest[order[i]]]
    BY <2>1
  <2>3. manifest \in Seq(JobType) /\ DOMAIN manifest = 1..Len(manifest) /\ Len(manifest) \in Nat
    BY ManifestAssumption
  <2>4. order \in [DOMAIN manifest -> DOMAIN manifest]
    BY DEF Orders, Bijection, Injection, Surjection
  <2>5. \A i \in DOMAIN manifest : manifest[order[i]] \in JobType
    BY <2>3, <2>4
  <2>6. jobs \in [1..Len(manifest) -> JobType]
    BY <2>2, <2>3, <2>5
  <2>7. QED
    BY <2>3, <2>6
<1>2. current \in 1..(Len(jobs) + 1)
  BY <1>1 DEF Init
<1>3. open \in [Sizes -> Seq(PacketType)] /\ \A s \in Sizes : Len(open[s]) < s
  BY Constants DEF Init, Sizes
<1>4. archive.truth \in Seq(RecordType) /\ archive.items \in Seq(RowType)
  BY DEF Init
<1>5. truth \in Seq(RecordType) /\ items \in Seq(RowType) /\ link \in Seq(PacketType)
  BY DEF Init
<1>6. /\ gen \in {"boot", "next", "replay", "drain", "done", "dead"}
      /\ script \in {"wait", "settle", "archived", "removed"}
      /\ answered \in BOOLEAN /\ expired \in BOOLEAN
  BY Zenon DEF Init
<1>7. /\ read \in Nat /\ sent \in 0..read /\ seen \in Nat /\ stable \in 0..Settle /\ waited \in 0..MaxSettle /\ pace \in 0..EdgeRate
      /\ trouble \in 0..MaxTrouble
  BY Constants DEF Init
<1>8. aged \subseteq Sizes /\ missing \subseteq PacketType \X Sizes
  BY DEF Init
<1>9. QED
  BY <1>1, <1>2, <1>3, <1>4, <1>5, <1>6, <1>7, <1>8 DEF TypeOK

\* What comes of two sequences, one after the other.
LEMMA Concat ==
  ASSUME NEW S, NEW a \in Seq(S), NEW b \in Seq(S)
  PROVE  /\ a \o b \in Seq(S) /\ Len(a \o b) = Len(a) + Len(b) /\ Len(a) \in Nat /\ Len(b) \in Nat
         /\ \A i \in 1..Len(a) : (a \o b)[i] = a[i]
         /\ \A i \in 1..Len(b) : (a \o b)[Len(a) + i] = b[i]
         /\ DOMAIN (a \o b) = 1..(Len(a) + Len(b)) /\ DOMAIN a = 1..Len(a) /\ DOMAIN b = 1..Len(b)
OBVIOUS

LEMMA AppendOne ==
  ASSUME NEW S, NEW q \in Seq(S), NEW x \in S
  PROVE  /\ Append(q, x) \in Seq(S) /\ Len(Append(q, x)) = Len(q) + 1 /\ Len(q) \in Nat
         /\ DOMAIN q = 1..Len(q) /\ DOMAIN Append(q, x) = 1..(Len(q) + 1)
         /\ Append(q, x)[Len(q) + 1] = x /\ \A i \in 1..Len(q) : Append(q, x)[i] = q[i]
OBVIOUS

LEMMA SameSequence ==
  ASSUME NEW S, NEW a \in Seq(S), NEW b \in Seq(S), Len(a) = Len(b), \A i \in 1..Len(b) : a[i] = b[i]
  PROVE  a = b
<1>1. a \in [1..Len(b) -> S] /\ b \in [1..Len(b) -> S]
  OBVIOUS
<1>2. QED
  BY <1>1

LEMMA NoDomain ==
  ASSUME NEW S, NEW q \in Seq(S), DOMAIN q = {}
  PROVE  q = <<>>
<1>1. DOMAIN q = 1..Len(q) /\ Len(q) \in Nat
  OBVIOUS
<1>2. 1 \notin 1..Len(q)
  BY <1>1
<1>3. Len(q) = 0
  BY <1>1, <1>2
<1>4. QED
  BY <1>3

LEMMA Concat3 ==
  ASSUME NEW S, NEW a \in Seq(S), NEW b \in Seq(S), NEW c \in Seq(S)
  PROVE  /\ a \o b \o c \in Seq(S) /\ Len(a \o b \o c) = Len(a) + Len(b) + Len(c)
         /\ Len(a) \in Nat /\ Len(b) \in Nat /\ Len(c) \in Nat
         /\ \A i \in 1..Len(a) : (a \o b \o c)[i] = a[i]
         /\ \A i \in 1..Len(b) : (a \o b \o c)[Len(a) + i] = b[i]
         /\ \A i \in 1..Len(c) : (a \o b \o c)[Len(a) + Len(b) + i] = c[i]
         /\ DOMAIN (a \o b \o c) = 1..(Len(a) + Len(b) + Len(c))
         /\ DOMAIN a = 1..Len(a) /\ DOMAIN b = 1..Len(b) /\ DOMAIN c = 1..Len(c)
OBVIOUS

\* The row of a window has the packets of the window.
LEMMA RowTypes ==
  ASSUME NEW w \in Seq(PacketType), w # <<>>, NEW s \in Sizes
  PROVE  RowOf(w, s) \in RowType
<1>1. w[1].flow \in Pcaps
  <2>1. w[1] \in PacketType
    OBVIOUS
  <2>2. QED
    BY <2>1 DEF PacketType
<1>2. ToSet(w) \subseteq PacketType
  BY DEF ToSet
<1>3. QED
  BY <1>1, <1>2 DEF RowOf, RowType

\* A row for each of the windows, and for no other.
LEMMA RowsAreOfWindows ==
  ASSUME NEW w \in [Sizes -> Seq(PacketType)], NEW C \in SUBSET Sizes, \A s \in C : w[s] # <<>>
  PROVE  /\ RowsOf(w, C) \in Seq(RowType)
         /\ \A s \in C : \E i \in DOMAIN RowsOf(w, C) : RowsOf(w, C)[i] = RowOf(w[s], s)
         /\ \A i \in DOMAIN RowsOf(w, C) : \E s \in C : RowsOf(w, C)[i] = RowOf(w[s], s)
<1> DEFINE R(s) == IF s \in C THEN <<RowOf(w[s], s)>> ELSE <<>>
           a == R(SmallWindow)
           b == R(LargeWindow)
<1>1. ASSUME NEW s \in Sizes
      PROVE  /\ R(s) \in Seq(RowType) /\ (s \in C => Len(R(s)) = 1 /\ R(s)[1] = RowOf(w[s], s))
             /\ (s \notin C => Len(R(s)) = 0)
  <2>1. CASE s \in C
    <3>1. RowOf(w[s], s) \in RowType
      BY <2>1, RowTypes
    <3>2. QED
      BY <2>1, <3>1
  <2>2. CASE s \notin C
    BY <2>2
  <2>3. QED
    BY <2>1, <2>2
<1>2. RowsOf(w, C) = a \o b
  BY DEF RowsOf
<1>3. /\ a \in Seq(RowType) /\ b \in Seq(RowType)
      /\ Len(a) = (IF SmallWindow \in C THEN 1 ELSE 0) /\ (SmallWindow \in C => a[1] = RowOf(w[SmallWindow], SmallWindow))
      /\ Len(b) = (IF LargeWindow \in C THEN 1 ELSE 0) /\ (LargeWindow \in C => b[1] = RowOf(w[LargeWindow], LargeWindow))
  BY <1>1, Constants
<1> HIDE DEF a, b, R
<1>4. /\ a \o b \in Seq(RowType) /\ DOMAIN (a \o b) = 1..(Len(a) + Len(b)) /\ Len(a) \in Nat /\ Len(b) \in Nat
      /\ \A i \in 1..Len(a) : (a \o b)[i] = a[i]
      /\ \A i \in 1..Len(b) : (a \o b)[Len(a) + i] = b[i]
  BY <1>3, Concat
<1>5. ASSUME NEW s \in C PROVE \E i \in DOMAIN (a \o b) : (a \o b)[i] = RowOf(w[s], s)
  <2>1. CASE s = SmallWindow
    <3>1. 1 \in 1..Len(a) /\ a[1] = RowOf(w[s], s)
      BY <1>3, <2>1
    <3>2. 1 \in DOMAIN (a \o b) /\ (a \o b)[1] = RowOf(w[s], s)
      BY <1>4, <3>1
    <3>3. QED
      BY <3>2
  <2>2. CASE s = LargeWindow
    <3>1. 1 \in 1..Len(b) /\ b[1] = RowOf(w[s], s)
      BY <1>3, <2>2
    <3>2. Len(a) + 1 \in DOMAIN (a \o b) /\ (a \o b)[Len(a) + 1] = RowOf(w[s], s)
      BY <1>4, <3>1
    <3>3. QED
      BY <3>2
  <2>3. QED
    BY <2>1, <2>2 DEF Sizes
<1>6. ASSUME NEW i \in DOMAIN (a \o b) PROVE \E s \in C : (a \o b)[i] = RowOf(w[s], s)
  <2>1. CASE i \in 1..Len(a)
    <3>1. SmallWindow \in C /\ i = 1
      BY <1>3, <2>1
    <3>2. QED
      BY <1>3, <1>4, <2>1, <3>1
  <2>2. CASE i \notin 1..Len(a)
    <3>1. i - Len(a) \in 1..Len(b) /\ Len(a) + (i - Len(a)) = i
      BY <1>4, <2>2
    <3>2. LargeWindow \in C /\ i - Len(a) = 1
      BY <1>3, <3>1
    <3>3. QED
      BY <1>3, <1>4, <3>1, <3>2
  <2>3. QED
    BY <2>1, <2>2
<1>7. QED
  BY <1>2, <1>4, <1>5, <1>6

(* What process_original_packet does.                                       *)
Taken == [s \in Sizes |-> Append(open[s], Head(link))]
Full == {s \in Sizes : Len(Taken[s]) >= s}
Closed == Full \cup aged

LEMMA ReceiveWindows ==
  ASSUME TypeOK, Receive
  PROVE  /\ Taken \in [Sizes -> Seq(PacketType)] /\ Head(link) = link[1] /\ link[1] \in PacketType
         /\ \A s \in Sizes : /\ Len(Taken[s]) = Len(open[s]) + 1 /\ Len(Taken[s]) <= s /\ Taken[s] # <<>>
                             /\ \A i \in 1..Len(open[s]) : Taken[s][i] = open[s][i]
                             /\ Taken[s][Len(open[s]) + 1] = link[1]
         /\ Closed \subseteq Sizes /\ \A s \in Sizes \ Closed : Len(Taken[s]) < s
         /\ open' = [s \in Sizes |-> IF s \in Closed THEN <<>> ELSE Taken[s]]
         /\ items' = items \o RowsOf(Taken, Full) \o RowsOf(Taken, aged \ Full)
         /\ Len(link) \in Nat \ {0} /\ link' \in Seq(PacketType) /\ Len(link') = Len(link) - 1
         /\ \A i \in 1..(Len(link) - 1) : link'[i] = link[i + 1]
<1>1. /\ link \in Seq(PacketType) /\ link # <<>> /\ open \in [Sizes -> Seq(PacketType)] /\ aged \subseteq Sizes
      /\ \A s \in Sizes : Len(open[s]) < s
  BY DEF TypeOK, Receive
<1>2. /\ Head(link) = link[1] /\ link[1] \in PacketType /\ Len(link) \in Nat \ {0}
      /\ Tail(link) \in Seq(PacketType) /\ Len(Tail(link)) = Len(link) - 1
      /\ \A i \in 1..(Len(link) - 1) : Tail(link)[i] = link[i + 1]
  BY <1>1
<1>3. ASSUME NEW s \in Sizes
      PROVE  /\ Taken[s] \in Seq(PacketType) /\ Len(Taken[s]) = Len(open[s]) + 1 /\ Len(Taken[s]) <= s
             /\ Taken[s] # <<>> /\ \A i \in 1..Len(open[s]) : Taken[s][i] = open[s][i]
             /\ Taken[s][Len(open[s]) + 1] = link[1]
  <2>1. /\ open[s] \in Seq(PacketType) /\ Len(open[s]) < s /\ s \in Nat /\ Taken[s] = Append(open[s], link[1])
        /\ link[1] \in PacketType
    BY <1>1, <1>2, Constants DEF Taken
  <2>2. /\ Taken[s] \in Seq(PacketType) /\ Len(Taken[s]) = Len(open[s]) + 1 /\ Len(open[s]) \in Nat
    BY <2>1
  <2>3. /\ \A i \in 1..Len(open[s]) : Taken[s][i] = open[s][i]
        /\ Taken[s][Len(open[s]) + 1] = link[1]
    BY <2>1
  <2>4. Len(Taken[s]) <= s /\ Taken[s] # <<>>
    BY <2>1, <2>2
  <2>5. QED
    BY <2>2, <2>3, <2>4
<1>4. Taken \in [Sizes -> Seq(PacketType)]
  BY <1>3 DEF Taken
<1>5. Closed \subseteq Sizes /\ \A s \in Sizes \ Closed : Len(Taken[s]) < s
  <2>1. \A s \in Sizes : s \in Nat /\ Len(Taken[s]) \in Nat
    BY <1>3, Constants
  <2>2. \A s \in Sizes \ Full : Len(Taken[s]) < s
    BY <2>1 DEF Full
  <2>3. QED
    BY <1>1, <2>2 DEF Closed, Full
<1>6. /\ open' = [s \in Sizes |-> IF s \in Full \cup (aged \ Full) THEN <<>> ELSE Taken[s]]
      /\ items' = items \o RowsOf(Taken, Full) \o RowsOf(Taken, aged \ Full)
      /\ link' = Tail(link)
  BY Zenon DEF Receive, Taken, Full
<1>7. Full \cup (aged \ Full) = Closed
  BY DEF Closed
<1>8. QED
  BY <1>2, <1>3, <1>4, <1>5, <1>6, <1>7

LEMMA ReceiveRows ==
  ASSUME TypeOK, Receive
  PROVE  /\ items' \in Seq(RowType) /\ items \in Seq(RowType) /\ Len(items) \in Nat /\ Len(items) <= Len(items')
         /\ DOMAIN items = 1..Len(items) /\ DOMAIN items' = 1..Len(items')
         /\ \A i \in DOMAIN items : items'[i] = items[i]
         /\ \A s \in Closed : \E i \in DOMAIN items' : i > Len(items) /\ items'[i] = RowOf(Taken[s], s)
         /\ \A i \in DOMAIN items' : i > Len(items) => \E s \in Closed : items'[i] = RowOf(Taken[s], s)
<1> DEFINE a == RowsOf(Taken, Full)
           b == RowsOf(Taken, aged \ Full)
           n == Len(items)
<1>1. /\ Taken \in [Sizes -> Seq(PacketType)] /\ \A s \in Sizes : Taken[s] # <<>>
      /\ items' = items \o a \o b /\ items \in Seq(RowType) /\ aged \subseteq Sizes
  BY ReceiveWindows DEF TypeOK
<1>2. /\ a \in Seq(RowType)
      /\ \A s \in Full : \E i \in DOMAIN a : a[i] = RowOf(Taken[s], s)
      /\ \A i \in DOMAIN a : \E s \in Full : a[i] = RowOf(Taken[s], s)
  <2>1. Full \in SUBSET Sizes
    BY DEF Full
  <2>2. QED
    BY <1>1, <2>1, RowsAreOfWindows
<1>3. /\ b \in Seq(RowType)
      /\ \A s \in aged \ Full : \E i \in DOMAIN b : b[i] = RowOf(Taken[s], s)
      /\ \A i \in DOMAIN b : \E s \in aged \ Full : b[i] = RowOf(Taken[s], s)
  <2>1. aged \ Full \in SUBSET Sizes
    BY <1>1
  <2>2. QED
    BY <1>1, <2>1, RowsAreOfWindows
<1> HIDE DEF a, b
<1>4. /\ items' \in Seq(RowType) /\ Len(items') = n + Len(a) + Len(b)
      /\ n \in Nat /\ Len(a) \in Nat /\ Len(b) \in Nat
      /\ DOMAIN items = 1..n /\ DOMAIN a = 1..Len(a) /\ DOMAIN b = 1..Len(b)
      /\ DOMAIN items' = 1..(n + Len(a) + Len(b))
  BY <1>1, <1>2, <1>3, Concat3
<1>5. \A i \in 1..n : items'[i] = items[i]
  BY <1>1, <1>2, <1>3, Concat3
<1>6. /\ \A i \in 1..Len(a) : items'[n + i] = a[i]
      /\ \A i \in 1..Len(b) : items'[n + Len(a) + i] = b[i]
  BY <1>1, <1>2, <1>3, Concat3
<1> HIDE DEF n
<1>7. ASSUME NEW s \in Closed
      PROVE  \E i \in DOMAIN items' : i > n /\ items'[i] = RowOf(Taken[s], s)
  <2>1. CASE s \in Full
    <3>1. PICK j \in 1..Len(a) : a[j] = RowOf(Taken[s], s)
      BY <1>2, <1>4, <2>1
    <3>2. n + j \in DOMAIN items' /\ n + j > n /\ items'[n + j] = a[j]
      BY <1>4, <1>5, <1>6
    <3>3. QED
      BY <3>1, <3>2
  <2>2. CASE s \in aged \ Full
    <3>1. PICK j \in 1..Len(b) : b[j] = RowOf(Taken[s], s)
      BY <1>3, <1>4, <2>2
    <3>2. n + Len(a) + j \in DOMAIN items' /\ n + Len(a) + j > n /\ items'[n + Len(a) + j] = b[j]
      BY <1>4, <1>6
    <3>3. QED
      BY <3>1, <3>2
  <2>3. QED
    BY <2>1, <2>2 DEF Closed
<1>8. ASSUME NEW i \in DOMAIN items', i > n
      PROVE  \E s \in Closed : items'[i] = RowOf(Taken[s], s)
  <2>1. CASE i <= n + Len(a)
    <3>1. i - n \in DOMAIN a /\ n + (i - n) = i
      BY <1>4, <1>5, <1>8, <2>1
    <3>2. items'[i] = a[i - n]
      BY <1>4, <1>6, <3>1
    <3>3. QED
      BY <1>2, <3>1, <3>2 DEF Closed
  <2>2. CASE i > n + Len(a)
    <3>1. i - (n + Len(a)) \in DOMAIN b /\ n + Len(a) + (i - (n + Len(a))) = i
      BY <1>4, <1>5, <1>8, <2>2
    <3>2. items'[i] = b[i - (n + Len(a))]
      BY <1>6, <3>1
    <3>3. QED
      BY <1>3, <3>1, <3>2 DEF Closed
  <2>3. QED
    BY <1>4, <1>5, <2>1, <2>2
<1>9. Len(items) <= Len(items') /\ DOMAIN items' = 1..Len(items')
  BY <1>4 DEF n
<1>10. QED
  BY <1>1, <1>4, <1>5, <1>7, <1>8, <1>9 DEF n

\* A handler that raises: the rows of the windows that are written come at the
\* end, and every packet of the others is missing.
LEMMA FailedRows ==
  ASSUME TypeOK, PacketFails
  PROVE  \E with \in [Sizes -> Seq(PacketType)], written \in SUBSET Sizes :
           /\ items' \in Seq(RowType) /\ Len(items) \in Nat
           /\ DOMAIN items = 1..Len(items) /\ DOMAIN items' = 1..Len(items') /\ Len(items) <= Len(items')
           /\ \A i \in DOMAIN items : items'[i] = items[i]
           /\ \A s \in written : with[s] # <<>> => \E i \in DOMAIN items' : items'[i] = RowOf(with[s], s)
           /\ \A i \in DOMAIN items' : i > Len(items) =>
                \E s \in Sizes : with[s] # <<>> /\ items'[i] = RowOf(with[s], s)
           /\ \A s \in Sizes \ written : ToSet(with[s]) \X {s} \subseteq missing'
           /\ \A s \in Sizes : ToSet(open[s]) \subseteq ToSet(with[s])
           /\ \A s \in Sizes : Head(link) \in ToSet(with[s]) \/ <<Head(link), s>> \in missing'
           /\ missing \subseteq missing' /\ missing' # {} /\ missing' \subseteq PacketType \X Sizes
<1>1. PICK into \in {{}, {SmallWindow}, Sizes}, written \in SUBSET Sizes :
        /\ into # Sizes \/ written # Sizes
        /\ items' = items \o RowsOf(Filled(into), {s \in written : Filled(into)[s] # <<>>})
        /\ missing' = missing \cup PacketsIn(Filled(into), Sizes \ written)
                             \cup {Head(link)} \X (Sizes \ into)
  BY Zenon DEF PacketFails
<1> DEFINE with == Filled(into)
<1>2. into \subseteq Sizes
  BY <1>1, Constants
<1>3. link \in Seq(PacketType) /\ link # <<>> /\ Head(link) \in PacketType /\ items \in Seq(RowType)
      /\ missing \subseteq PacketType \X Sizes /\ open \in [Sizes -> Seq(PacketType)]
  BY DEF TypeOK, PacketFails
<1>4. ASSUME NEW s \in Sizes
      PROVE  /\ with[s] \in Seq(PacketType) /\ ToSet(open[s]) \subseteq ToSet(with[s]) /\ ToSet(with[s]) \subseteq PacketType
             /\ s \in into => Head(link) \in ToSet(with[s])
  <2>1. open[s] \in Seq(PacketType)
    BY <1>3
  <2>2. CASE s \in into
    <3>1. with[s] = Append(open[s], Head(link))
      BY <2>2 DEF Filled
    <3>2. /\ with[s] \in Seq(PacketType) /\ DOMAIN with[s] = 1..(Len(open[s]) + 1) /\ DOMAIN open[s] = 1..Len(open[s])
          /\ Len(open[s]) \in Nat /\ with[s][Len(open[s]) + 1] = Head(link)
          /\ \A i \in 1..Len(open[s]) : with[s][i] = open[s][i]
      BY <1>3, <2>1, <3>1, AppendOne
    <3>3. ASSUME NEW p \in ToSet(open[s]) PROVE p \in ToSet(with[s])
      BY <3>2 DEF ToSet
    <3>4. Len(open[s]) + 1 \in DOMAIN with[s]
      BY <3>2
    <3>5. Head(link) \in ToSet(with[s])
      BY <3>2, <3>4 DEF ToSet
    <3>6. ToSet(with[s]) \subseteq PacketType
      BY <3>2 DEF ToSet
    <3>7. QED
      BY <3>2, <3>3, <3>5, <3>6
  <2>3. CASE s \notin into
    <3>1. with[s] = open[s]
      BY <2>3 DEF Filled
    <3>2. ToSet(with[s]) \subseteq PacketType
      BY <2>1, <3>1 DEF ToSet
    <3>3. QED
      BY <2>1, <2>3, <3>1, <3>2
  <2>4. QED
    BY <2>2, <2>3
<1>5. with \in [Sizes -> Seq(PacketType)]
  <2>1. with = [s \in Sizes |-> with[s]]
    BY DEF Filled
  <2>2. QED
    BY <1>4, <2>1
<1> DEFINE C == {s \in written : with[s] # <<>>}
           rows == RowsOf(with, C)
<1>6. /\ rows \in Seq(RowType)
      /\ \A s \in C : \E i \in DOMAIN rows : rows[i] = RowOf(with[s], s)
      /\ \A i \in DOMAIN rows : \E s \in C : rows[i] = RowOf(with[s], s)
  <2>1. C \in SUBSET Sizes /\ \A s \in C : with[s] # <<>>
    OBVIOUS
  <2> HIDE DEF C
  <2>2. QED
    BY <1>5, <2>1, RowsAreOfWindows
<1>7. items' = items \o rows
  BY <1>1
<1> HIDE DEF rows
<1>8. /\ items' \in Seq(RowType) /\ Len(items') = Len(items) + Len(rows) /\ Len(items) \in Nat /\ Len(rows) \in Nat
      /\ \A i \in 1..Len(items) : items'[i] = items[i]
      /\ \A i \in 1..Len(rows) : items'[Len(items) + i] = rows[i]
      /\ DOMAIN items' = 1..(Len(items) + Len(rows)) /\ DOMAIN items = 1..Len(items) /\ DOMAIN rows = 1..Len(rows)
  BY <1>3, <1>6, <1>7, Concat
<1>9. ASSUME NEW s \in written, with[s] # <<>> PROVE \E i \in DOMAIN items' : items'[i] = RowOf(with[s], s)
  <2>1. PICK j \in DOMAIN rows : rows[j] = RowOf(with[s], s)
    BY <1>6, <1>9
  <2>2. Len(items) + j \in DOMAIN items' /\ items'[Len(items) + j] = rows[j]
    BY <1>8
  <2>3. QED
    BY <2>1, <2>2
<1>10. ASSUME NEW i \in DOMAIN items', i > Len(items)
       PROVE  \E s \in Sizes : with[s] # <<>> /\ items'[i] = RowOf(with[s], s)
  <2>1. i - Len(items) \in DOMAIN rows /\ Len(items) + (i - Len(items)) = i
    BY <1>8, <1>10
  <2>2. items'[i] = rows[i - Len(items)]
    BY <1>8, <2>1
  <2>3. PICK s \in C : rows[i - Len(items)] = RowOf(with[s], s)
    BY <1>6, <2>1
  <2>4. QED
    BY <2>2, <2>3
<1>11. /\ \A s \in Sizes \ written : ToSet(with[s]) \X {s} \subseteq missing'
       /\ \A s \in Sizes \ into : <<Head(link), s>> \in missing'
       /\ missing \subseteq missing'
  <2>1. \A s \in Sizes \ written : ToSet(with[s]) \X {s} \subseteq PacketsIn(with, Sizes \ written)
    BY DEF PacketsIn
  <2> HIDE DEF with
  <2>2. \A s \in Sizes \ into : <<Head(link), s>> \in {Head(link)} \X (Sizes \ into)
    OBVIOUS
  <2>3. QED
    BY <1>1, <2>1, <2>2 DEF with
<1>12. missing' \subseteq PacketType \X Sizes
  <2>1. PacketsIn(with, Sizes \ written) \subseteq PacketType \X Sizes
    <3>1. \A s \in Sizes : ToSet(with[s]) \subseteq PacketType
      BY <1>4
    <3> HIDE DEF with
    <3>2. QED
      BY <3>1 DEF PacketsIn
  <2>2. {Head(link)} \X (Sizes \ into) \subseteq PacketType \X Sizes
    BY <1>3
  <2>3. QED
    BY <1>1, <1>3, <2>1, <2>2
<1>13. missing' # {}
  <2>1. CASE into # Sizes
    <3>1. PICK s \in Sizes : s \notin into
      BY <1>2, <2>1
    <3>2. QED
      BY <1>11, <3>1
  <2>2. CASE into = Sizes
    <3>1. PICK s \in Sizes : s \notin written
      BY <1>1, <2>2
    <3>2. <<Head(link), s>> \in ToSet(with[s]) \X {s}
      BY <1>4, <2>2, <3>1
    <3>3. QED
      BY <1>11, <3>1, <3>2
  <2>3. QED
    BY <2>1, <2>2
<1>14. Len(items) <= Len(items') /\ DOMAIN items' = 1..Len(items')
  BY <1>8
<1>15. \A s \in Sizes : Head(link) \in ToSet(with[s]) \/ <<Head(link), s>> \in missing'
  BY <1>4, <1>11
<1> HIDE DEF C
<1>16. QED
  BY <1>4, <1>5, <1>8, <1>9, <1>10, <1>11, <1>12, <1>13, <1>14, <1>15

LEMMA NextType == TypeOK /\ TruthInv /\ PaceInv /\ [Next]_vars => TypeOK'
<1> SUFFICES ASSUME TypeOK, TruthInv, PaceInv, [Next]_vars PROVE TypeOK'
  OBVIOUS
<1> USE Constants
<1>1. CASE StartJob
  <2>1. truth' \in Seq(RecordType)
    BY <1>1, JobTypes DEF StartJob, TypeOK
  <2>2. QED
    BY <1>1, <2>1 DEF StartJob, TypeOK, edgeVars, scriptVars
<1>2. CASE EndManifest
  BY <1>2 DEF EndManifest, TypeOK, edgeVars, scriptVars
<1>3. CASE NoAddress
  <2>1. trouble' \in 0..MaxTrouble
    BY <1>3 DEF NoAddress, TypeOK, Trouble
  <2>2. QED
    BY <1>3, <2>1 DEF NoAddress, TypeOK, edgeVars, scriptVars
<1>4. CASE SendPacket
  <2>1. link' \in Seq(PacketType)
    BY <1>4, JobTypes DEF SendPacket, CanRead, AtWork, TypeOK
  <2>2. QED
    BY <1>4, <2>1 DEF SendPacket, TypeOK, edgeVars, scriptVars
<1>5. CASE SendFails
  <2>1. missing' \subseteq PacketType \X Sizes
    BY <1>5, JobTypes, SMTT(30) DEF SendFails, CanRead, AtWork, TypeOK, ToAll
  <2>2. QED
    BY <1>5, <2>1 DEF SendFails, TypeOK, edgeVars, scriptVars, Trouble
<1>6. CASE EndReplay
  BY <1>6 DEF EndReplay, TypeOK, edgeVars, scriptVars
<1>7. CASE CompleteJob
  <2>1. truth' \in Seq(RecordType) /\ current' \in 1..(Len(jobs) + 1)
    BY <1>7, JobTypes, SMTT(30) DEF CompleteJob, AtWork, TypeOK
  <2>2. QED
    BY <1>7, <2>1 DEF CompleteJob, TypeOK, edgeVars, scriptVars
<1>8. CASE CompleteRaises
  BY <1>8 DEF CompleteRaises, TypeOK, edgeVars, scriptVars
<1>9. CASE GeneratorDies
  BY <1>9 DEF GeneratorDies, TypeOK, edgeVars, scriptVars, Trouble
<1>10. CASE Expire
  BY <1>10 DEF Expire, TypeOK, genVars, edgeVars, scriptVars, Trouble
<1>11. CASE Receive
  <2>1. items' \in Seq(RowType) /\ link' \in Seq(PacketType)
    BY <1>11, ReceiveRows, ReceiveWindows
  <2>2. open' \in [Sizes -> Seq(PacketType)] /\ \A s \in Sizes : Len(open'[s]) < s
    <3>1. open' = [s \in Sizes |-> IF s \in Closed THEN <<>> ELSE Taken[s]]
      BY <1>11, ReceiveWindows
    <3>2. ASSUME NEW s \in Sizes
          PROVE  (IF s \in Closed THEN <<>> ELSE Taken[s]) \in Seq(PacketType) /\ Len(open'[s]) < s
      <4>1. CASE s \in Closed
        BY <3>1, <4>1 DEF Sizes
      <4>2. CASE s \notin Closed
        BY <1>11, <3>1, <4>2, ReceiveWindows
      <4>3. QED
        BY <4>1, <4>2
    <3>3. QED
      BY <3>1, <3>2
  <2>3. aged' \subseteq Sizes /\ pace' \in 0..EdgeRate
    BY <1>11 DEF Receive, TypeOK
  <2>4. UNCHANGED <<genVars, expired, missing, scriptVars, trouble>>
    BY <1>11 DEF Receive
  <2>5. QED
    BY <2>1, <2>2, <2>3, <2>4 DEF TypeOK, genVars, scriptVars
<1>12. CASE Age
  BY <1>12 DEF Age, TypeOK, genVars, scriptVars, Trouble
<1>13. CASE Lose
  <2>1. missing' \subseteq PacketType \X Sizes /\ link' \in Seq(PacketType)
    BY <1>13, SMTT(30) DEF Lose, TypeOK, ToAll
  <2>2. QED
    BY <1>13, <2>1 DEF Lose, TypeOK, genVars, edgeVars, scriptVars, Trouble
<1>14. CASE RestartEdge
  <2>1. missing' \subseteq PacketType \X Sizes
    <3>1. \A s \in Sizes : ToSet(open[s]) \subseteq PacketType
      BY DEF TypeOK, ToSet
    <3>2. QED
      BY <1>14, <3>1 DEF RestartEdge, PacketsIn, TypeOK
  <2>2. open' \in [Sizes -> Seq(PacketType)] /\ \A s \in Sizes : Len(open'[s]) < s
    BY <1>14 DEF RestartEdge, PacketsIn, Sizes
  <2>3. QED
    BY <1>14, <2>1, <2>2 DEF RestartEdge, PacketsIn, TypeOK, genVars, scriptVars, Trouble
<1>15. CASE WaitEnds
  BY <1>15 DEF WaitEnds, TypeOK, genVars, edgeVars
<1>16. CASE SettleRound
  <2>1. stable' \in 0..Settle /\ seen' \in Nat /\ waited' \in 0..MaxSettle /\ pace' \in 0..EdgeRate
    BY <1>16 DEF SettleRound, TypeOK, Quiet, PaceInv, Archived
  <2>2. QED
    BY <1>16, <2>1 DEF SettleRound, TypeOK, genVars, edgeVars
<1>17. CASE Archive
  <2>1. stable' \in 0..Settle
    BY <1>17 DEF Archive, TypeOK, Quiet, PaceInv, Archived
  <2>2. archive'.truth \in Seq(RecordType) /\ archive'.items \in Seq(RowType)
    BY <1>17 DEF Archive, TypeOK
  <2>3. QED
    BY <1>17, <2>1, <2>2 DEF Archive, TypeOK, genVars, edgeVars
<1>18. CASE UNCHANGED vars
  BY <1>18 DEF vars, TypeOK, genVars, edgeVars, scriptVars
<1>19. CASE GetAddress
  BY <1>19 DEF GetAddress, TypeOK, edgeVars, scriptVars
<1>20. CASE RemoveContainers
  BY <1>20 DEF RemoveContainers, TypeOK, genVars, edgeVars
<1>21. CASE PacketFails
  <2>1. items' \in Seq(RowType) /\ missing' \subseteq PacketType \X Sizes
    BY <1>21, FailedRows
  <2>2. open' \in [Sizes -> Seq(PacketType)] /\ \A s \in Sizes : Len(open'[s]) < s
    BY <1>21 DEF PacketFails, Sizes
  <2>3. link' \in Seq(PacketType) /\ aged' \subseteq Sizes /\ trouble' \in 0..MaxTrouble
    <3>1. link \in Seq(PacketType) /\ link # <<>> /\ link' = Tail(link) /\ aged' = {} /\ Trouble
      BY <1>21 DEF PacketFails, TypeOK
    <3>2. QED
      BY <3>1 DEF TypeOK, Trouble
  <2>4. UNCHANGED <<genVars, expired, scriptVars, pace>>
    BY <1>21 DEF PacketFails
  <2>5. QED
    BY <2>1, <2>2, <2>3, <2>4 DEF TypeOK, genVars, scriptVars
<1>22. QED
  BY <1>1, <1>2, <1>3, <1>4, <1>5, <1>6, <1>7, <1>8, <1>9, <1>10, <1>11, <1>12, <1>13, <1>14, <1>15, <1>16,
     <1>17, <1>18, <1>19, <1>20, <1>21 DEF Next, Generator, Script, Troubles
------------------------------------------------------------------------------
(* The truth log and the script.                                           *)

\* The steps that leave the truth log and the generator where they are.
Elsewhere ==
  \/ SendPacket \/ SendFails \/ Expire \/ Age \/ Lose \/ RestartEdge \/ Receive
  \/ PacketFails \/ WaitEnds \/ SettleRound \/ Archive \/ RemoveContainers \/ UNCHANGED vars

LEMMA ElsewhereKeeps ==
  ASSUME Elsewhere
  PROVE  UNCHANGED <<jobs, gen, current, truth>>
<1>1. CASE SendPacket \/ SendFails
  BY <1>1 DEF SendPacket, SendFails
<1>2. CASE Expire \/ Age \/ Lose \/ RestartEdge \/ Receive \/ PacketFails
  BY <1>2 DEF Expire, Age, Lose, RestartEdge, Receive, PacketFails, genVars
<1>3. CASE WaitEnds \/ SettleRound \/ Archive \/ RemoveContainers \/ UNCHANGED vars
  BY <1>3 DEF WaitEnds, SettleRound, Archive, RemoveContainers, vars, genVars
<1>4. QED
  BY <1>1, <1>2, <1>3 DEF Elsewhere

LEMMA InitTruth == Init => TruthInv
BY DEF Init, TruthInv, InPairs, AtWork

LEMMA NextTruth == TypeOK /\ TruthInv /\ [Next]_vars => TruthInv'
<1> SUFFICES ASSUME TypeOK, TruthInv, [Next]_vars PROVE TruthInv'
  OBVIOUS
<1> DEFINE n == Len(truth)
<1>1. /\ truth \in Seq(RecordType) /\ n \in Nat /\ DOMAIN truth = 1..n /\ current \in Nat \ {0}
      /\ Len(jobs) \in Nat /\ current <= Len(jobs) + 1
  BY DEF TypeOK
<1>2. CASE StartJob
  <2>1. /\ gen = "next" /\ gen' = "replay" /\ current' = current /\ jobs' = jobs /\ n = 2 * current - 2
        /\ current \in 1..Len(jobs)
    BY <1>1, <1>2 DEF StartJob, TruthInv
  <2>2. truth' = Append(truth, StartedRecord(current))
    BY <1>2 DEF StartJob, Record, StartedRecord, Job
  <2>3. StartedRecord(current) \in RecordType
    BY <1>2, <2>1, JobTypes DEF Record, StartedRecord, Job, StartJob
  <2>4. /\ DOMAIN truth' = 1..(n + 1) /\ Len(truth') = n + 1 /\ truth'[n + 1] = StartedRecord(current)
        /\ \A i \in 1..n : truth'[i] = truth[i]
    BY <1>1, <2>2, <2>3
  <2> HIDE DEF n
  <2>5. ASSUME NEW k PROVE StartedRecord(k)' = StartedRecord(k)
    BY <2>1 DEF StartedRecord
  <2>6. ASSUME NEW i \in DOMAIN truth'
        PROVE  \E k \in 1..Len(jobs') :
                 /\ k <= current'
                 /\ \/ i = 2 * k - 1 /\ truth'[i] = StartedRecord(k)
                    \/ i = 2 * k /\ k < current' /\ truth'[i].status = "completed"
                         /\ truth'[i].replay = jobs'[k].replay /\ truth'[i].flow = jobs'[k].pcap
    <3>1. CASE i = n + 1
      <4>1. current \in 1..Len(jobs') /\ current <= current' /\ i = 2 * current - 1
        BY <1>1, <2>1, <3>1 DEF n
      <4>2. QED
        BY <2>4, <3>1, <4>1
    <3>2. CASE i \in 1..n
      BY <1>1, <2>1, <2>4, <3>2, SMTT(30) DEF TruthInv, InPairs
    <3>3. QED
      BY <1>1, <2>4, <3>1, <3>2
  <2>7. QED
    <3>1. InPairs'
      BY <2>5, <2>6 DEF InPairs
    <3>2. QED
      BY <1>1, <2>1, <2>4, <3>1 DEF TruthInv, AtWork, n
<1>3. CASE CompleteJob
  <2>1. /\ gen = "drain" /\ gen' = "next" /\ current' = current + 1 /\ jobs' = jobs /\ n = 2 * current - 1
        /\ current \in 1..Len(jobs)
    BY <1>1, <1>3 DEF CompleteJob, TruthInv, AtWork
  <2>2. truth' = Append(truth, Record("completed", read)) /\ read \in Nat
    BY <1>3 DEF CompleteJob, TypeOK
  <2>3. /\ Record("completed", read) \in RecordType
        /\ Record("completed", read).status = "completed"
        /\ Record("completed", read).replay = jobs[current].replay
        /\ Record("completed", read).flow = jobs[current].pcap
    <3>1. Record("completed", read) \in RecordType
      BY <2>1, <2>2, JobTypes
    <3>2. QED
      BY <3>1 DEF Record, Job
  <2>4. /\ DOMAIN truth' = 1..(n + 1) /\ Len(truth') = n + 1 /\ truth'[n + 1] = Record("completed", read)
        /\ \A i \in 1..n : truth'[i] = truth[i]
    BY <1>1, <2>2, <2>3
  <2> HIDE DEF n
  <2>5. ASSUME NEW k PROVE StartedRecord(k)' = StartedRecord(k)
    BY <2>1 DEF StartedRecord
  <2>6. ASSUME NEW i \in DOMAIN truth'
        PROVE  \E k \in 1..Len(jobs') :
                 /\ k <= current'
                 /\ \/ i = 2 * k - 1 /\ truth'[i] = StartedRecord(k)
                    \/ i = 2 * k /\ k < current' /\ truth'[i].status = "completed"
                         /\ truth'[i].replay = jobs'[k].replay /\ truth'[i].flow = jobs'[k].pcap
    <3>1. CASE i = n + 1
      BY <1>1, <2>1, <2>3, <2>4, <3>1
    <3>2. CASE i \in 1..n
      <4>1. PICK k \in 1..Len(jobs) :
              /\ k <= current
              /\ \/ i = 2 * k - 1 /\ truth[i] = StartedRecord(k)
                 \/ i = 2 * k /\ k < current /\ truth[i].status = "completed"
                      /\ truth[i].replay = jobs[k].replay /\ truth[i].flow = jobs[k].pcap
        BY <1>1, <3>2 DEF TruthInv, InPairs
      <4>2. k \in Nat /\ k <= current' /\ k < current'
        BY <1>1, <2>1, <4>1
      <4>3. QED
        BY <2>1, <2>4, <3>2, <4>1, <4>2
    <3>3. QED
      BY <1>1, <2>4, <3>1, <3>2
  <2>7. QED
    <3>1. InPairs'
      BY <2>5, <2>6 DEF InPairs
    <3>2. QED
      BY <1>1, <2>1, <2>4, <3>1 DEF TruthInv, AtWork, n
<1>4. CASE GetAddress \/ EndManifest \/ NoAddress \/ EndReplay \/ CompleteRaises \/ GeneratorDies
  <2>1. UNCHANGED <<jobs, current, truth>>
    BY <1>4 DEF GetAddress, EndManifest, NoAddress, EndReplay, CompleteRaises, GeneratorDies
  <2>2. InPairs'
    BY <2>1 DEF InPairs, StartedRecord, TruthInv
  <2>3. QED
    BY <1>1, <1>4, <2>1, <2>2 DEF TruthInv, AtWork, GetAddress, EndManifest, NoAddress, EndReplay, CompleteRaises,
       GeneratorDies
<1>5. CASE Elsewhere
  <2>1. UNCHANGED <<jobs, gen, current, truth>>
    BY <1>5, ElsewhereKeeps
  <2>2. QED
    BY <2>1 DEF TruthInv, InPairs, StartedRecord, AtWork
<1>6. QED
  BY <1>2, <1>3, <1>4, <1>5 DEF Next, Generator, Script, Troubles, Elsewhere

LEMMA InitScript == Init => ScriptInv
BY DEF Init, ScriptInv, Archived

\* The rows that are there stay.
LEMMA RowsStay ==
  ASSUME TypeOK, [Next]_vars
  PROVE  \A i \in DOMAIN items : i \in DOMAIN items' /\ items'[i] = items[i]
<1>1. CASE Receive
  <2>1. /\ Len(items) <= Len(items') /\ DOMAIN items = 1..Len(items) /\ DOMAIN items' = 1..Len(items')
        /\ \A i \in DOMAIN items : items'[i] = items[i]
        /\ items' \in Seq(RowType)
    BY <1>1, ReceiveRows
  <2>2. Len(items') \in Nat /\ Len(items) \in Nat
    BY <2>1 DEF TypeOK
  <2>3. QED
    BY <2>1, <2>2
<1>2. CASE PacketFails
  <2>1. /\ Len(items) <= Len(items') /\ DOMAIN items = 1..Len(items) /\ DOMAIN items' = 1..Len(items')
        /\ \A i \in DOMAIN items : items'[i] = items[i]
        /\ items' \in Seq(RowType)
    BY <1>2, FailedRows
  <2>2. Len(items') \in Nat /\ Len(items) \in Nat
    BY <2>1 DEF TypeOK
  <2>3. QED
    BY <2>1, <2>2
<1>3. CASE ~ Receive /\ ~ PacketFails
  <2>1. items' = items
    BY <1>3 DEF Next, Generator, Script, Troubles, GetAddress, StartJob, EndManifest, NoAddress, SendPacket,
       SendFails, EndReplay, CompleteJob, CompleteRaises, GeneratorDies, Expire, Age, Lose, RestartEdge, WaitEnds,
       SettleRound, Archive, RemoveContainers, vars, edgeVars
  <2>2. QED
    BY <2>1
<1>4. QED
  BY <1>1, <1>2, <1>3

LEMMA NextScript == TypeOK /\ ScriptInv /\ [Next]_vars => ScriptInv'
<1> SUFFICES ASSUME TypeOK, ScriptInv, [Next]_vars PROVE ScriptInv'
  OBVIOUS
<1>1. CASE Archive
  BY <1>1 DEF Archive, ScriptInv, ArchiveIsOfLogs, Archived, genVars, edgeVars
<1>2. CASE Generator \/ GetAddress \/ NoAddress \/ SendFails \/ GeneratorDies
  <2>1. gen \notin {"done", "dead"} /\ script' = script
    BY <1>2 DEF Generator, GetAddress, StartJob, EndManifest, SendPacket, CanRead, EndReplay, CompleteJob,
       CompleteRaises, NoAddress, SendFails, GeneratorDies, scriptVars
  <2>2. QED
    BY <2>1 DEF ScriptInv, Archived
<1>3. CASE WaitEnds
  BY <1>3 DEF WaitEnds, ScriptInv, Archived, genVars
<1>4. CASE Expire \/ Age \/ Lose \/ RestartEdge \/ Receive \/ PacketFails \/ SettleRound \/ RemoveContainers
           \/ UNCHANGED vars
  <2>1. /\ UNCHANGED <<gen, truth, archive>>
        /\ script' = script \/ (script = "archived" /\ script' = "removed")
    <3>1. CASE Expire \/ Age \/ Lose \/ RestartEdge \/ Receive \/ PacketFails
      BY <3>1 DEF Expire, Age, Lose, RestartEdge, Receive, PacketFails, genVars, scriptVars
    <3>2. CASE SettleRound \/ RemoveContainers \/ UNCHANGED vars
      BY <3>2 DEF SettleRound, RemoveContainers, vars, genVars, scriptVars
    <3>3. QED
      BY <1>4, <3>1, <3>2
  <2>2. ASSUME Archived PROVE ArchiveIsOfLogs'
    <3>1. ArchiveIsOfLogs
      BY <2>2 DEF ScriptInv
    <3>2. \A i \in DOMAIN items : i \in DOMAIN items' /\ items'[i] = items[i]
      BY RowsStay
    <3>3. QED
      BY <2>1, <3>1, <3>2 DEF ArchiveIsOfLogs
  <2>3. QED
    BY <2>1, <2>2 DEF ScriptInv, Archived
<1>5. QED
  BY <1>1, <1>2, <1>3, <1>4 DEF Next, Script, Troubles
------------------------------------------------------------------------------
(* The settle loop.                                                        *)

LEMMA Times ==
  \A e, n \in Nat : e * n \in Nat /\ e * (n + 1) = e * n + e
OBVIOUS

LEMMA TimesMonotone ==
  ASSUME NEW e \in Nat, NEW m \in Nat, NEW n \in Nat, m <= n
  PROVE  e * m <= e * n
<1>1. PICK k \in Nat : n = m + k
  <2>1. n - m \in Nat /\ n = m + (n - m)
    OBVIOUS
  <2>2. QED
    BY <2>1
<1>2. e * n = e * m + e * k /\ e * k \in Nat /\ e * m \in Nat
  BY <1>1
<1>3. QED
  BY <1>2

\* While the generator works, the script waits.
LEMMA ScriptWaits ==
  ASSUME ScriptInv, gen \notin {"done", "dead"}
  PROVE  script = "wait"
BY DEF ScriptInv

LEMMA InitPace == Init => PaceInv
BY Constants DEF Init, PaceInv, Archived

LEMMA NextPace == TypeOK /\ ScriptInv /\ PaceInv /\ [Next]_vars => PaceInv'
<1> SUFFICES ASSUME TypeOK, ScriptInv, PaceInv, [Next]_vars PROVE PaceInv'
  OBVIOUS
<1> DEFINE n == Len(open[SmallWindow])
<1>1. /\ n \in Nat /\ stable \in Nat /\ seen \in Nat /\ pace \in Nat /\ pace <= EdgeRate /\ waited \in Nat
      /\ EdgeRate \in Nat /\ 0 < EdgeRate /\ Len(items) \in Nat /\ EdgeRate * stable \in Nat
      /\ EdgeRate * (stable + 1) = EdgeRate * stable + EdgeRate /\ EdgeRate * 0 = 0
  <2>1. n \in Nat
    BY Constants DEF TypeOK
  <2>2. QED
    BY <2>1, Constants, Times DEF TypeOK
<1>2. CASE Generator \/ GetAddress \/ NoAddress \/ SendFails \/ GeneratorDies
  <2>1. gen \notin {"done", "dead"} /\ UNCHANGED <<items, scriptVars>>
    BY <1>2 DEF Generator, GetAddress, StartJob, EndManifest, SendPacket, CanRead, EndReplay, CompleteJob, CompleteRaises,
                NoAddress, SendFails, GeneratorDies, edgeVars
  <2>2. QED
    BY <2>1, ScriptWaits DEF PaceInv, scriptVars, Archived
<1>3. CASE Expire \/ Age \/ UNCHANGED vars
  <2>1. UNCHANGED <<link, open, items, missing, scriptVars, pace>>
    BY <1>3 DEF Expire, Age, vars, edgeVars
  <2>2. QED
    BY <2>1 DEF PaceInv, Pace, scriptVars, Archived
<1>4. CASE Lose
  <2>1. missing' # {} /\ UNCHANGED <<items, scriptVars>>
    BY <1>4, Constants DEF Lose, ToAll, edgeVars
  <2>2. QED
    BY <2>1 DEF PaceInv, scriptVars, Archived
<1>5. CASE RestartEdge
  <2>1. UNCHANGED <<link, items, scriptVars, pace>> /\ open'[SmallWindow] = <<>>
    BY <1>5, Constants DEF RestartEdge, PacketsIn
  <2>2. missing' = {} => missing = {} /\ open[SmallWindow] = <<>>
    <3>1. ToSet(open[SmallWindow]) \X {SmallWindow} \subseteq missing' /\ missing \subseteq missing'
      BY <1>5, Constants DEF RestartEdge, PacketsIn
    <3>2. ASSUME missing' = {} PROVE open[SmallWindow] = <<>>
      <4>1. ASSUME NEW p \in ToSet(open[SmallWindow]) PROVE FALSE
        <5>1. <<p, SmallWindow>> \in ToSet(open[SmallWindow]) \X {SmallWindow}
          OBVIOUS
        <5>2. QED
          BY <3>1, <3>2, <5>1
      <4>2. DOMAIN open[SmallWindow] = {}
        BY <4>1 DEF ToSet
      <4>3. open[SmallWindow] \in Seq(PacketType)
        BY Constants DEF TypeOK
      <4>4. QED
        BY <4>2, <4>3, NoDomain
    <3>3. QED
      BY <3>1, <3>2
  <2>3. QED
    BY <2>1, <2>2 DEF PaceInv, Pace, scriptVars, Archived
<1>6. CASE Receive
  <2>1. UNCHANGED <<scriptVars, missing>> /\ pace' \in {pace, pace + 1} /\ link # <<>>
    BY <1>6 DEF Receive
  <2>2. Len(items') \in Nat /\ Len(items) <= Len(items')
    BY <1>6, ReceiveRows
  <2>3. ASSUME script' = "settle", waited' > 0, link' # <<>>, seen' = Len(items'), missing' = {}
        PROVE  Pace'
    <3>1. seen = Len(items) /\ Len(items') = Len(items)
      BY <1>1, <2>1, <2>2, <2>3 DEF PaceInv, scriptVars, Archived
    <3>2. SmallWindow \notin Closed
      <4>1. SmallWindow \in Closed => \E i \in DOMAIN items' : i > Len(items)
        BY <1>6, ReceiveRows
      <4>2. DOMAIN items' = 1..Len(items')
        BY <1>6, ReceiveRows
      <4>3. QED
        BY <1>1, <3>1, <4>1, <4>2
    <3>3. Len(open'[SmallWindow]) = n + 1
      BY <1>6, <3>2, ReceiveWindows, Constants
    <3>4. EdgeRate * stable + pace <= n
      BY <2>1, <2>3, <3>1 DEF PaceInv, Pace, scriptVars
    <3>5. stable' = stable /\ EdgeRate * stable + pace' <= n + 1
      BY <1>1, <2>1, <3>4 DEF scriptVars
    <3>6. QED
      BY <2>1, <3>3, <3>5 DEF Pace
  <2>4. QED
    BY <1>1, <2>1, <2>2, <2>3 DEF PaceInv, scriptVars, Archived
<1>7. CASE WaitEnds
  BY <1>7 DEF WaitEnds, PaceInv, Archived, genVars, edgeVars
<1>8. CASE SettleRound
  <2>1. /\ script = "settle" /\ script' = "settle" /\ UNCHANGED <<open, items, link, missing>>
        /\ stable' = Quiet /\ Quiet < Settle /\ seen' = Len(items)
        /\ pace' = 0 /\ KeepsUp
    BY <1>8 DEF SettleRound, edgeVars
  <2>2. ASSUME link # <<>>, missing = {} PROVE EdgeRate * stable' + pace' <= n
    <3>1. CASE Steady
      <4>1. EdgeRate * stable + pace <= n /\ pace = EdgeRate
        BY <1>1, <2>1, <2>2, <3>1 DEF PaceInv, Pace, Steady, KeepsUp
      <4>2. stable' = stable + 1
        BY <2>1, <3>1 DEF Quiet
      <4>3. QED
        BY <1>1, <2>1, <4>1, <4>2
    <3>2. CASE ~ Steady
      BY <1>1, <2>1, <2>2, <3>2 DEF Quiet
    <3>3. QED
      BY <3>1, <3>2
  <2>3. QED
    BY <1>1, <2>1, <2>2 DEF PaceInv, Pace, Archived
<1>9. CASE Archive \/ RemoveContainers
  BY <1>9 DEF Archive, RemoveContainers, PaceInv, Archived
<1>10. CASE PacketFails
  <2>1. missing' # {} /\ Len(items) <= Len(items') /\ items' \in Seq(RowType)
    BY <1>10, FailedRows
  <2>2. Len(items') \in Nat /\ UNCHANGED scriptVars
    BY <1>10, <2>1 DEF PacketFails
  <2>3. QED
    BY <1>1, <2>1, <2>2 DEF PaceInv, scriptVars, Archived
<1>11. QED
  BY <1>2, <1>3, <1>4, <1>5, <1>6, <1>7, <1>8, <1>9, <1>10 DEF Next, Script, Troubles
------------------------------------------------------------------------------
(* The packets behind the joined rows.                                     *)

\* All packets of a window whose flows are one in number are of one flow.
LEMMA OneFlow ==
  ASSUME NEW w \in Seq(PacketType), w # <<>>
  PROVE  /\ Cardinality(FlowsIn(w)) = 1 => \A i \in DOMAIN w : w[i].flow = w[1].flow
         /\ (\A i \in DOMAIN w : w[i].flow = w[1].flow) => Cardinality(FlowsIn(w)) = 1
<1> DEFINE f == [i \in 1..Len(w) |-> w[i].flow]
<1>1. DOMAIN w = 1..Len(w) /\ Len(w) \in Nat /\ 1 \in DOMAIN w
  OBVIOUS
<1>2. FlowsIn(w) = {f[i] : i \in 1..Len(w)}
  BY <1>1 DEF FlowsIn
<1>3. IsFiniteSet(1..Len(w))
  BY <1>1, FS_Interval
<1>4. IsFiniteSet(FlowsIn(w))
  <2> HIDE DEF f
  <2>1. f \in Surjection(1..Len(w), FlowsIn(w))
    BY <1>1, <1>2 DEF Surjection, f
  <2>2. QED
    BY <1>3, <2>1, FS_Surjection
<1>5. ASSUME Cardinality(FlowsIn(w)) = 1, NEW i \in DOMAIN w PROVE w[i].flow = w[1].flow
  <2>1. PICK x : FlowsIn(w) = {x}
    BY <1>4, <1>5, FS_Singleton
  <2>2. w[i].flow \in FlowsIn(w) /\ w[1].flow \in FlowsIn(w)
    BY <1>1 DEF FlowsIn
  <2>3. QED
    BY <2>1, <2>2
<1>6. ASSUME \A i \in DOMAIN w : w[i].flow = w[1].flow PROVE Cardinality(FlowsIn(w)) = 1
  <2>1. FlowsIn(w) = {w[1].flow}
    BY <1>1, <1>6 DEF FlowsIn
  <2>2. QED
    BY <2>1, FS_Singleton
<1>7. QED
  BY <1>5, <1>6

\* No packet that was read falls through.
LEMMA AccountedStays ==
  ASSUME TypeOK, [Next]_vars, NEW p, NEW s \in Sizes, Accounted(p, s)
  PROVE  Accounted(p, s)'
<1>1. CASE SendPacket
  <2>1. UNCHANGED <<missing, open, items>> /\ link' = Append(link, Packet)
    BY <1>1 DEF SendPacket, edgeVars
  <2>2. ToSet(link) \subseteq ToSet(link')
    <3>1. Len(link) \in Nat /\ DOMAIN link = 1..Len(link)
      BY DEF TypeOK
    <3>2. DOMAIN link' = 1..(Len(link) + 1) /\ \A i \in 1..Len(link) : link'[i] = link[i]
      BY <2>1 DEF TypeOK
    <3>3. QED
      BY <3>1, <3>2 DEF ToSet
  <2>3. QED
    BY <2>1, <2>2 DEF Accounted
<1>2. CASE SendFails
  BY <1>2 DEF SendFails, edgeVars, Accounted
<1>3. CASE Receive
  <2>1. missing' = missing
    BY <1>3 DEF Receive
  <2>2. CASE \E i \in DOMAIN items : items[i].size = s /\ p \in items[i].packets
    <3>1. PICK i \in DOMAIN items : items[i].size = s /\ p \in items[i].packets
      BY <2>2
    <3>2. i \in DOMAIN items' /\ items'[i] = items[i]
      BY <1>3, ReceiveRows
    <3>3. QED
      BY <3>1, <3>2 DEF Accounted
  <2>3. CASE p \in ToSet(Taken[s])
    <3>1. CASE s \in Closed
      <4>1. PICK i \in DOMAIN items' : items'[i] = RowOf(Taken[s], s)
        BY <1>3, <3>1, ReceiveRows
      <4>2. items'[i].size = s /\ p \in items'[i].packets
        BY <2>3, <4>1 DEF RowOf
      <4>3. QED
        BY <4>2 DEF Accounted
    <3>2. CASE s \notin Closed
      <4>1. open'[s] = Taken[s]
        BY <1>3, <3>2, ReceiveWindows
      <4>2. QED
        BY <2>3, <4>1 DEF Accounted
    <3>3. QED
      BY <3>1, <3>2
  <2>4. ASSUME p \in ToSet(open[s]) PROVE p \in ToSet(Taken[s])
    <3>1. PICK i \in DOMAIN open[s] : p = open[s][i]
      BY <2>4 DEF ToSet
    <3>2. i \in 1..Len(open[s]) /\ open[s] \in Seq(PacketType)
      BY DEF TypeOK
    <3>3. i \in DOMAIN Taken[s] /\ Taken[s][i] = open[s][i]
      BY <1>3, <3>2, ReceiveWindows
    <3>4. QED
      BY <3>1, <3>3 DEF ToSet
  <2>5. ASSUME p \in ToSet(link) PROVE p \in ToSet(Taken[s]) \/ p \in ToSet(link')
    <3>1. PICK i \in DOMAIN link : p = link[i]
      BY <2>5 DEF ToSet
    <3>2. DOMAIN link = 1..Len(link) /\ Len(link) \in Nat
      BY DEF TypeOK
    <3>3. CASE i = 1
      <4>1. open[s] \in Seq(PacketType) /\ Taken[s] \in Seq(PacketType) /\ Len(Taken[s]) = Len(open[s]) + 1
            /\ Taken[s][Len(open[s]) + 1] = link[1]
        BY <1>3, ReceiveWindows DEF TypeOK
      <4>2. Len(open[s]) + 1 \in DOMAIN Taken[s]
        BY <4>1
      <4>3. QED
        BY <3>1, <3>3, <4>1, <4>2 DEF ToSet
    <3>4. CASE i # 1
      <4>1. i - 1 \in 1..(Len(link) - 1) /\ (i - 1) + 1 = i
        BY <3>2, <3>4
      <4>2. link' \in Seq(PacketType) /\ Len(link') = Len(link) - 1
            /\ \A j \in 1..(Len(link) - 1) : link'[j] = link[j + 1]
        BY <1>3, ReceiveWindows
      <4>3. i - 1 \in DOMAIN link' /\ link'[i - 1] = link[i]
        BY <3>2, <4>1, <4>2
      <4>4. QED
        BY <3>1, <4>3 DEF ToSet
    <3>5. QED
      BY <3>3, <3>4
  <2>6. QED
    BY <2>1, <2>2, <2>3, <2>4, <2>5 DEF Accounted
<1>4. CASE Lose
  <2>1. UNCHANGED <<open, items>> /\ link # <<>> /\ link' = Tail(link)
        /\ missing' = missing \cup ToAll(Head(link))
    BY <1>4 DEF Lose, edgeVars
  <2>2. ASSUME p \in ToSet(link) PROVE <<p, s>> \in missing' \/ p \in ToSet(link')
    <3>1. PICK i \in DOMAIN link : p = link[i]
      BY <2>2 DEF ToSet
    <3>2. DOMAIN link = 1..Len(link) /\ Len(link) \in Nat /\ Head(link) = link[1]
      BY <2>1 DEF TypeOK
    <3>3. CASE i = 1
      BY <2>1, <3>1, <3>2, <3>3 DEF ToAll
    <3>4. CASE i # 1
      <4>1. i - 1 \in 1..(Len(link) - 1) /\ (i - 1) + 1 = i
        BY <3>2, <3>4
      <4>2. DOMAIN link' = 1..(Len(link) - 1) /\ \A j \in 1..(Len(link) - 1) : link'[j] = link[j + 1]
        BY <2>1 DEF TypeOK
      <4>3. i - 1 \in DOMAIN link' /\ link'[i - 1] = link[i]
        BY <4>1, <4>2
      <4>4. QED
        BY <3>1, <4>3 DEF ToSet
    <3>5. QED
      BY <3>3, <3>4
  <2>3. QED
    BY <2>1, <2>2 DEF Accounted
<1>5. CASE RestartEdge
  <2>1. UNCHANGED <<link, items>> /\ missing \subseteq missing'
    BY <1>5 DEF RestartEdge, PacketsIn
  <2>2. p \in ToSet(open[s]) => <<p, s>> \in missing'
    BY <1>5 DEF RestartEdge, PacketsIn
  <2>3. QED
    BY <2>1, <2>2 DEF Accounted
<1>6. CASE GetAddress \/ StartJob \/ EndManifest \/ NoAddress \/ EndReplay \/ CompleteJob \/ CompleteRaises
           \/ GeneratorDies
  <2>1. UNCHANGED <<missing, link, open, items>>
    BY <1>6 DEF GetAddress, StartJob, EndManifest, NoAddress, EndReplay, CompleteJob, CompleteRaises, GeneratorDies, edgeVars
  <2>2. QED
    BY <2>1 DEF Accounted
<1>7. CASE Expire \/ Age \/ WaitEnds \/ SettleRound \/ Archive \/ RemoveContainers \/ UNCHANGED vars
  <2>1. UNCHANGED <<missing, link, open, items>>
    BY <1>7 DEF Expire, Age, WaitEnds, SettleRound, Archive, RemoveContainers, vars, edgeVars
  <2>2. QED
    BY <2>1 DEF Accounted
<1>8. CASE PacketFails
  <2>1. PICK with \in [Sizes -> Seq(PacketType)], written \in SUBSET Sizes :
          /\ \A i \in DOMAIN items : i \in DOMAIN items' /\ items'[i] = items[i]
          /\ \A q \in written : with[q] # <<>> => \E i \in DOMAIN items' : items'[i] = RowOf(with[q], q)
          /\ \A q \in Sizes \ written : ToSet(with[q]) \X {q} \subseteq missing'
          /\ \A q \in Sizes : ToSet(open[q]) \subseteq ToSet(with[q])
          /\ \A q \in Sizes : Head(link) \in ToSet(with[q]) \/ <<Head(link), q>> \in missing'
          /\ missing \subseteq missing'
    BY <1>8, FailedRows, RowsStay
  <2>2. CASE p \in ToSet(with[s])
    <3>1. CASE s \in written
      <4>1. with[s] # <<>>
        BY <2>2 DEF ToSet
      <4>2. PICK i \in DOMAIN items' : items'[i] = RowOf(with[s], s)
        BY <2>1, <3>1, <4>1
      <4>3. items'[i].size = s /\ p \in items'[i].packets
        BY <2>2, <4>2 DEF RowOf
      <4>4. QED
        BY <4>3 DEF Accounted
    <3>2. CASE s \notin written
      <4>1. <<p, s>> \in ToSet(with[s]) \X {s}
        BY <2>2
      <4>2. <<p, s>> \in missing'
        BY <2>1, <3>2, <4>1
      <4>3. QED
        BY <4>2 DEF Accounted
    <3>3. QED
      BY <3>1, <3>2
  <2>3. ASSUME p \in ToSet(link) PROVE p = Head(link) \/ p \in ToSet(link')
    <3>1. PICK i \in DOMAIN link : p = link[i]
      BY <2>3 DEF ToSet
    <3>2. link \in Seq(PacketType) /\ link # <<>> /\ link' = Tail(link)
      BY <1>8 DEF TypeOK, PacketFails
    <3>3. DOMAIN link = 1..Len(link) /\ Len(link) \in Nat /\ Head(link) = link[1]
      BY <3>2
    <3>4. CASE i # 1
      <4>1. i - 1 \in 1..(Len(link) - 1) /\ (i - 1) + 1 = i
        BY <3>3, <3>4
      <4>2. DOMAIN link' = 1..(Len(link) - 1) /\ \A j \in 1..(Len(link) - 1) : link'[j] = link[j + 1]
        BY <3>2
      <4>3. i - 1 \in DOMAIN link' /\ link'[i - 1] = link[i]
        BY <4>1, <4>2
      <4>4. QED
        BY <3>1, <4>3 DEF ToSet
    <3>5. QED
      BY <3>1, <3>3, <3>4
  <2>4. CASE <<p, s>> \in missing'
    BY <2>4 DEF Accounted
  <2>5. CASE \E i \in DOMAIN items : items[i].size = s /\ p \in items[i].packets
    BY <2>1, <2>5 DEF Accounted
  <2>6. CASE p \in ToSet(link')
    BY <2>6 DEF Accounted
  <2>7. QED
    BY <2>1, <2>2, <2>3, <2>4, <2>5, <2>6 DEF Accounted
<1>9. QED
  BY <1>1, <1>2, <1>3, <1>4, <1>5, <1>6, <1>7, <1>8 DEF Next, Generator, Script, Troubles

LEMMA AllStay ==
  ASSUME TypeOK, [Next]_vars, NEW flow, NEW n, AllAccounted(flow, n)
  PROVE  AllAccounted(flow, n)'
BY AccountedStays DEF AllAccounted

LEMMA InitPackets == Init => PacketsInv
BY DEF Init, PacketsInv, AtWork, RowsAttributed

LEMMA NextAttributed ==
  ASSUME TypeOK, RowsAttributed, [Next]_vars
  PROVE  RowsAttributed'
<1>1. CASE Receive
  <2>1. ASSUME NEW i \in DOMAIN items', NEW p \in items'[i].packets
        PROVE  items'[i].flow \in {NoFlow, p.flow}
    <3>1. CASE i <= Len(items)
      <4>1. i \in DOMAIN items /\ items'[i] = items[i]
        BY <1>1, <3>1, ReceiveRows
      <4>2. QED
        BY <2>1, <4>1 DEF RowsAttributed
    <3>2. CASE ~ (i <= Len(items))
      <4>1. PICK s \in Closed : items'[i] = RowOf(Taken[s], s)
        <5>1. i > Len(items)
          BY <1>1, <3>2, ReceiveRows
        <5>2. QED
          BY <1>1, <5>1, ReceiveRows
      <4>2. Taken[s] \in Seq(PacketType) /\ Taken[s] # <<>>
        BY <1>1, ReceiveWindows
      <4>3. PICK k \in DOMAIN Taken[s] : p = Taken[s][k]
        BY <2>1, <4>1 DEF RowOf, ToSet
      <4>4. items'[i].flow = (IF Cardinality(FlowsIn(Taken[s])) = 1 THEN Taken[s][1].flow ELSE NoFlow)
        BY <4>1 DEF RowOf
      <4>5. QED
        BY <4>2, <4>3, <4>4, OneFlow
    <3>3. QED
      BY <3>1, <3>2
  <2>2. QED
    BY <2>1 DEF RowsAttributed
<1>2. CASE PacketFails
  <2>1. PICK with \in [Sizes -> Seq(PacketType)] :
          /\ DOMAIN items = 1..Len(items) /\ DOMAIN items' = 1..Len(items') /\ Len(items) \in Nat
          /\ items' \in Seq(RowType)
          /\ \A i \in DOMAIN items : items'[i] = items[i]
          /\ \A i \in DOMAIN items' : i > Len(items) =>
               \E s \in Sizes : with[s] # <<>> /\ items'[i] = RowOf(with[s], s)
    BY <1>2, FailedRows
  <2>2. ASSUME NEW i \in DOMAIN items', NEW p \in items'[i].packets
        PROVE  items'[i].flow \in {NoFlow, p.flow}
    <3>1. CASE i <= Len(items)
      <4>1. i \in DOMAIN items /\ items'[i] = items[i]
        BY <2>1, <3>1
      <4>2. QED
        BY <2>2, <4>1 DEF PacketsInv, RowsAttributed
    <3>2. CASE ~ (i <= Len(items))
      <4>1. PICK s \in Sizes : with[s] # <<>> /\ items'[i] = RowOf(with[s], s)
        <5>1. i > Len(items)
          BY <2>1, <3>2
        <5>2. QED
          BY <2>1, <5>1
      <4>2. with[s] \in Seq(PacketType) /\ with[s] # <<>>
        BY <4>1
      <4>3. PICK k \in DOMAIN with[s] : p = with[s][k]
        BY <2>2, <4>1 DEF RowOf, ToSet
      <4>4. items'[i].flow = (IF Cardinality(FlowsIn(with[s])) = 1 THEN with[s][1].flow ELSE NoFlow)
        BY <4>1 DEF RowOf
      <4>5. QED
        BY <4>2, <4>3, <4>4, OneFlow
    <3>3. QED
      BY <3>1, <3>2
  <2>3. QED
    BY <2>2 DEF RowsAttributed
<1>3. CASE ~ Receive /\ ~ PacketFails
  <2>1. items' = items
    BY <1>3 DEF Next, Generator, Script, Troubles, GetAddress, RemoveContainers, StartJob, EndManifest, NoAddress, SendPacket, SendFails,
       EndReplay, CompleteJob, CompleteRaises, GeneratorDies, Expire, Age, Lose, RestartEdge, WaitEnds,
       SettleRound, Archive, vars, edgeVars
  <2>2. QED
    BY <2>1 DEF RowsAttributed
<1>4. QED
  BY <1>1, <1>2, <1>3

\* The packets of every completed record stay accounted for.
LEMMA RecordsStay ==
  ASSUME TypeOK, PacketsInv, [Next]_vars,
         \/ truth' = truth
         \/ \E r \in RecordType : /\ truth' = Append(truth, r)
                                  /\ r.status = "completed" => AllAccounted(r.flow, r.read)
  PROVE  \A i \in DOMAIN truth' :
           truth'[i].status = "completed" => \E f, n : f = truth'[i].flow /\ n = truth'[i].read /\ AllAccounted(f, n)'
<1> SUFFICES ASSUME NEW i \in DOMAIN truth', truth'[i].status = "completed"
             PROVE  \E f, n : f = truth'[i].flow /\ n = truth'[i].read /\ AllAccounted(f, n)'
  OBVIOUS
<1>1. truth \in Seq(RecordType) /\ DOMAIN truth = 1..Len(truth) /\ Len(truth) \in Nat
  BY DEF TypeOK
<1>2. \E f, n : f = truth'[i].flow /\ n = truth'[i].read /\ AllAccounted(f, n)
  <2>1. CASE i \in DOMAIN truth /\ truth'[i] = truth[i]
    BY <2>1 DEF PacketsInv
  <2>2. CASE ~ (i \in DOMAIN truth /\ truth'[i] = truth[i])
    <3>1. PICK r \in RecordType : /\ truth' = Append(truth, r)
                                  /\ r.status = "completed" => AllAccounted(r.flow, r.read)
      BY <2>2
    <3>2. DOMAIN truth' = 1..(Len(truth) + 1) /\ truth'[Len(truth) + 1] = r
          /\ \A k \in 1..Len(truth) : truth'[k] = truth[k]
      <4>1. DOMAIN Append(truth, r) = 1..(Len(truth) + 1) /\ Append(truth, r)[Len(truth) + 1] = r
            /\ \A k \in 1..Len(truth) : Append(truth, r)[k] = truth[k]
        BY <1>1, AppendOne
      <4>2. truth' = Append(truth, r)
        BY <3>1
      <4>3. QED
        BY <4>1, <4>2, Zenon
    <3>3. i = Len(truth) + 1
      BY <1>1, <2>2, <3>2
    <3>4. QED
      BY <3>1, <3>2, <3>3
  <2>3. QED
    BY <2>1, <2>2
<1>3. PICK f, n : f = truth'[i].flow /\ n = truth'[i].read /\ AllAccounted(f, n)
  BY <1>2
<1>4. AllAccounted(f, n)'
  BY <1>3, AllStay
<1>5. QED
  BY <1>3, <1>4

LEMMA NextPackets == TypeOK /\ TruthInv /\ PacketsInv /\ [Next]_vars => PacketsInv'
<1> SUFFICES ASSUME TypeOK, TruthInv, PacketsInv, [Next]_vars PROVE PacketsInv'
  OBVIOUS
<1>1. RowsAttributed'
  BY NextAttributed DEF PacketsInv
<1>2. \/ truth' = truth
      \/ \E r \in RecordType : /\ truth' = Append(truth, r)
                               /\ r.status = "completed" => AllAccounted(r.flow, r.read)
  <2>1. CASE StartJob
    <3>1. Record("started", 0) \in RecordType /\ Record("started", 0).status # "completed"
      BY <2>1, JobTypes DEF StartJob, Record
    <3>2. QED
      BY <2>1, <3>1 DEF StartJob
  <2>2. CASE CompleteJob
    <3>1. AtWork /\ truth' = Append(truth, Record("completed", read)) /\ read \in Nat
      BY <2>2 DEF CompleteJob, AtWork, TypeOK
    <3>2. Record("completed", read) \in RecordType
      BY <3>1, JobTypes
    <3>3. Record("completed", read).flow = Job.pcap /\ Record("completed", read).read = read
      BY DEF Record
    <3>4. AllAccounted(Record("completed", read).flow, Record("completed", read).read)
      BY <3>1, <3>3 DEF PacketsInv
    <3>5. QED
      BY <3>1, <3>2, <3>4
  <2>3. CASE ~ StartJob /\ ~ CompleteJob
    <3>1. truth' = truth
      BY <2>3 DEF Next, Generator, Script, Troubles, EndManifest, NoAddress, SendPacket, SendFails, EndReplay,
         CompleteRaises, GeneratorDies, GetAddress, PacketFails, RemoveContainers, Expire, Age, Lose, RestartEdge, Receive, WaitEnds, SettleRound, Archive,
         vars, genVars
    <3>2. QED
      BY <3>1
  <2>4. QED
    BY <2>1, <2>2, <2>3
<1>3. ASSUME NEW i \in DOMAIN truth', truth'[i].status = "completed"
      PROVE  AllAccounted(truth[i].flow, truth[i].read)'
  <2>1. PICK f, n : f = truth'[i].flow /\ n = truth'[i].read /\ AllAccounted(f, n)'
    BY <1>2, <1>3, RecordsStay
  <2>2. QED
    BY <2>1 DEF AllAccounted, Accounted
<1>4. ASSUME AtWork' PROVE AllAccounted(Job.pcap, read)'
  <2>1. CASE StartJob
    BY <2>1 DEF StartJob, AllAccounted
  <2>2. CASE SendPacket \/ SendFails
    <3>1. AtWork /\ read' = read + 1 /\ read \in Nat /\ UNCHANGED <<jobs, current>>
      BY <2>2 DEF SendPacket, SendFails, CanRead, AtWork, TypeOK
    <3>2. PICK f, n : f = Job.pcap /\ n = read /\ AllAccounted(f, n)
      BY <3>1 DEF PacketsInv
    <3>3. AllAccounted(f, n)' /\ n \in Nat
      BY <3>1, <3>2, AllStay
    <3>4. \A s \in Sizes : Accounted([flow |-> f, id |-> n], s)'
      <4>1. CASE SendPacket
        <5>1. link' = Append(link, [flow |-> f, id |-> n])
          BY <3>2, <4>1 DEF SendPacket, Packet
        <5>2. [flow |-> f, id |-> n] \in ToSet(link')
          <6>1. link \in Seq(PacketType) /\ [flow |-> f, id |-> n] \in PacketType
            BY <3>1, <3>2, JobTypes DEF Packet, TypeOK
          <6>2. Len(link) + 1 \in DOMAIN link' /\ link'[Len(link) + 1] = [flow |-> f, id |-> n]
            BY <5>1, <6>1, AppendOne
          <6>3. QED
            BY <6>2 DEF ToSet
        <5>3. QED
          BY <5>2 DEF Accounted
      <4>2. CASE SendFails
        <5>1. missing' = missing \cup ToAll([flow |-> f, id |-> n])
          BY <3>2, <4>2 DEF SendFails, Packet
        <5>2. QED
          BY <5>1 DEF Accounted, ToAll
      <4>3. QED
        BY <2>2, <4>1, <4>2
    <3>5. \A id \in 0..((n + 1) - 1) : id = n \/ id \in 0..(n - 1)
      BY <3>3
    <3>6. \A id \in 0..((n + 1) - 1), s \in Sizes : Accounted([flow |-> f, id |-> id], s)'
      BY <3>3, <3>4, <3>5 DEF AllAccounted
    <3>7. Job'.pcap = f /\ read' = n + 1
      BY <3>1, <3>2 DEF Job
    <3>8. QED
      BY <3>6, <3>7 DEF AllAccounted, Accounted
  <2>3. CASE ~ StartJob /\ ~ SendPacket /\ ~ SendFails
    <3>1. AtWork /\ UNCHANGED <<jobs, current, read>>
      <4>1. CASE GetAddress \/ EndManifest \/ NoAddress \/ EndReplay \/ CompleteJob \/ CompleteRaises
                 \/ GeneratorDies
        BY <1>4, <4>1 DEF AtWork, GetAddress, EndManifest, NoAddress, EndReplay, CompleteJob, CompleteRaises, GeneratorDies
      <4>2. CASE Expire \/ Age \/ Lose \/ RestartEdge \/ Receive \/ PacketFails
        BY <1>4, <4>2 DEF AtWork, Expire, Age, Lose, RestartEdge, Receive, PacketFails, genVars
      <4>3. CASE WaitEnds \/ SettleRound \/ Archive \/ RemoveContainers \/ UNCHANGED vars
        BY <1>4, <4>3 DEF AtWork, WaitEnds, SettleRound, Archive, RemoveContainers, vars, genVars
      <4>4. QED
        BY <2>3, <4>1, <4>2, <4>3 DEF Next, Generator, Script, Troubles
    <3>2. PICK f, n : f = Job.pcap /\ n = read /\ AllAccounted(f, n)
      BY <3>1 DEF PacketsInv
    <3>3. AllAccounted(f, n)'
      BY <3>2, AllStay
    <3>4. Job'.pcap = f /\ read' = n
      BY <3>1, <3>2 DEF Job
    <3>5. QED
      BY <3>3, <3>4 DEF AllAccounted, Accounted
  <2>4. QED
    BY <2>1, <2>2, <2>3
<1>5. QED
  BY <1>1, <1>3, <1>4 DEF PacketsInv
------------------------------------------------------------------------------
(* The readers of the truth log.                                           *)

\* A set of natural numbers that is not empty has a least element, and one with
\* a bound has a greatest.
LEMMA LeastExists ==
  ASSUME NEW T \in SUBSET Nat, T # {}
  PROVE  \E m \in T : \A k \in T : m <= k
<1> DEFINE R == OpToRel(<, Nat)
<1>1. IsWellFoundedOn(R, Nat)
  BY NatLessThanWellFounded
<1>2. PICK m \in T : \A y \in T : ~ (<<y, m>> \in R)
  <2> HIDE DEF R
  <2>1. QED
    BY <1>1, WFMin
<1>3. R = {ss \in Nat \X Nat : ss[1] < ss[2]}
  BY Zenon DEF OpToRel
<1>4. ASSUME NEW y \in T PROVE ~ (y < m)
  <2> HIDE DEF R
  <2>1. <<y, m>> \notin {ss \in Nat \X Nat : ss[1] < ss[2]}
    BY <1>2, <1>3
  <2>2. QED
    BY <2>1
<1>5. QED
  BY <1>4

LEMMA GreatestExists ==
  ASSUME NEW n \in Nat, NEW T \in SUBSET (1..n), T # {}
  PROVE  \E m \in T : \A k \in T : k <= m
<1> DEFINE U == {n - k : k \in T}
<1>1. U \in SUBSET Nat /\ U # {}
  <2>1. \A k \in T : n - k \in Nat
    OBVIOUS
  <2>2. QED
    BY <2>1
<1>2. PICK u \in U : \A v \in U : u <= v
  <2> HIDE DEF U
  <2>1. QED
    BY <1>1, LeastExists
<1>3. PICK m \in T : u = n - m
  OBVIOUS
<1>4. ASSUME NEW k \in T PROVE k <= m
  <2>1. n - m <= n - k
    BY <1>2, <1>3
  <2>2. QED
    BY <2>1
<1>5. QED
  BY <1>4

\* The index has a record of the flow: a completed one, if there is one.
LEMMA IndexIsOfLog ==
  ASSUME NEW log \in Seq(RecordType), NEW flow \in FlowsOf(log)
  PROVE  \E i \in Records(log, flow) :
           Index(log)[flow] = log[i] /\ (Completed(log, flow) # {} => i \in Completed(log, flow))
<1>1. DOMAIN log = 1..Len(log) /\ Len(log) \in Nat
  OBVIOUS
<1>2. Records(log, flow) \subseteq 1..Len(log) /\ Records(log, flow) # {}
      /\ Completed(log, flow) \subseteq Records(log, flow)
  BY <1>1 DEF FlowsOf, Records, Completed
<1>3. Index(log)[flow] =
        log[IF Completed(log, flow) = {} THEN Min(Records(log, flow)) ELSE Max(Completed(log, flow))]
  BY DEF Index
<1>4. CASE Completed(log, flow) = {}
  <2>1. \E m \in Records(log, flow) : \A k \in Records(log, flow) : m <= k
    BY <1>1, <1>2, LeastExists
  <2>2. Min(Records(log, flow)) \in Records(log, flow)
    BY <2>1 DEF Min
  <2>3. QED
    BY <1>3, <1>4, <2>2
<1>5. CASE Completed(log, flow) # {}
  <2>1. \E m \in Completed(log, flow) : \A k \in Completed(log, flow) : k <= m
    BY <1>1, <1>2, <1>5, GreatestExists
  <2>2. \E m \in Completed(log, flow) : \A k \in Completed(log, flow) : m >= k
    BY <1>1, <1>2, <2>1
  <2>3. Max(Completed(log, flow)) \in Completed(log, flow)
    BY <2>2 DEF Max
  <2>4. QED
    BY <1>2, <1>3, <1>5, <2>3
<1>6. QED
  BY <1>4, <1>5

\* A record that is not completed is followed by its completed one, but for that
\* of the job the generator is at or died in.
LEMMA PairsComplete ==
  ASSUME TypeOK, TruthInv, NEW i \in DOMAIN truth, truth[i].status # "completed"
  PROVE  \/ /\ i + 1 \in DOMAIN truth /\ truth[i + 1].status = "completed"
            /\ truth[i + 1].replay = truth[i].replay /\ truth[i + 1].flow = truth[i].flow
         \/ /\ i = Len(truth) /\ i = 2 * current - 1 /\ gen \in {"replay", "drain", "dead"}
            /\ current \in 1..Len(jobs) /\ truth[i] = StartedRecord(current)
<1>1. DOMAIN truth = 1..Len(truth) /\ Len(truth) \in Nat /\ current \in Nat \ {0} /\ Len(jobs) \in Nat
  BY DEF TypeOK
<1>2. PICK k \in 1..Len(jobs) : k <= current /\ i = 2 * k - 1 /\ truth[i] = StartedRecord(k)
  BY DEF TruthInv, InPairs
<1>3. Len(truth) \in {2 * current - 2, 2 * current - 1}
      /\ (Len(truth) = 2 * current - 1 => gen \in {"replay", "drain", "dead"})
  BY <1>1 DEF TruthInv, AtWork, TypeOK
<1>4. CASE k = current
  BY <1>1, <1>2, <1>3, <1>4
<1>5. CASE k < current
  <2>1. i + 1 \in DOMAIN truth /\ i + 1 = 2 * k
    BY <1>1, <1>2, <1>3, <1>5
  <2>2. PICK j \in 1..Len(jobs) :
          \/ i + 1 = 2 * j - 1
          \/ i + 1 = 2 * j /\ truth[i + 1].status = "completed"
               /\ truth[i + 1].replay = jobs[j].replay /\ truth[i + 1].flow = jobs[j].pcap
    BY <2>1 DEF TruthInv, InPairs
  <2>3. j = k /\ i + 1 # 2 * j - 1
    BY <1>1, <1>2, <2>1, <2>2
  <2>4. QED
    BY <1>2, <2>1, <2>2, <2>3 DEF StartedRecord
<1>6. QED
  BY <1>1, <1>2, <1>4, <1>5

LEMMA Shows == TypeOK /\ TruthInv => ShowsTheRunningJob
<1> SUFFICES ASSUME TypeOK, TruthInv PROVE ShowsTheRunningJob
  OBVIOUS
<1>1. DOMAIN truth = 1..Len(truth) /\ Len(truth) \in Nat /\ current \in Nat \ {0} /\ Len(jobs) \in Nat
  BY DEF TypeOK
<1>2. ASSUME NEW i \in LatestRecords, truth[i].status = "started"
      PROVE  i = Len(truth) /\ gen \in {"replay", "drain", "dead"} /\ truth[i] = StartedRecord(current)
  <2>1. i \in DOMAIN truth /\ \A j \in DOMAIN truth : truth[j].replay = truth[i].replay => j <= i
    BY DEF LatestRecords
  <2>2. ~ (i + 1 \in DOMAIN truth /\ truth[i + 1].replay = truth[i].replay)
    BY <1>1, <2>1
  <2>3. QED
    BY <1>2, <2>1, <2>2, PairsComplete
<1>3. ASSUME AtWork PROVE {job.start : job \in CurrentReplay} = {current}
  <2> DEFINE r == StartedRecord(current)
             n == Len(truth)
  <2>1. n = 2 * current - 1 /\ n \in DOMAIN truth /\ current \in 1..Len(jobs)
    BY <1>1, <1>3 DEF TruthInv
  <2>2. truth[n] = r
    <3>1. PICK k \in 1..Len(jobs) :
            \/ n = 2 * k - 1 /\ truth[n] = StartedRecord(k)
            \/ n = 2 * k
      BY <2>1 DEF TruthInv, InPairs
    <3>2. k = current /\ n # 2 * k
      BY <1>1, <2>1, <3>1
    <3>3. QED
      BY <3>1, <3>2
  <2>3. n \in LatestRecords
    BY <1>1, <2>1 DEF LatestRecords
  <2>4. r.status = "started" /\ r.start = current
    BY DEF StartedRecord
  <2> HIDE DEF n, r
  <2>5. InProgress = {r}
    <3>1. r \in InProgress
      BY <2>2, <2>3, <2>4 DEF InProgress
    <3>2. \A job \in InProgress : job = r
      BY <1>2 DEF InProgress, r
    <3>3. QED
      BY <3>1, <3>2
  <2>6. CurrentReplay = {r}
    BY <1>1, <2>4, <2>5 DEF CurrentReplay
  <2>7. QED
    BY <2>4, <2>6
<1>4. ASSUME gen \in {"boot", "next", "done"} PROVE CurrentReplay = {}
  <2>1. InProgress = {}
    BY <1>2, <1>4 DEF InProgress
  <2>2. QED
    BY <2>1 DEF CurrentReplay
<1>5. QED
  BY <1>3, <1>4 DEF ShowsTheRunningJob, AtWork

LEMMA Recall == TypeOK /\ PacketsInv => RecallIsExplained
<1> SUFFICES ASSUME TypeOK, PacketsInv,
                    NEW flow \in DOMAIN Index(truth), Index(truth)[flow].status = "completed",
                    NEW id \in 0..(Index(truth)[flow].read - 1),
                    NEW s \in Sizes, ~ Unfinished([flow |-> flow, id |-> id], s)
             PROVE  id \in Received(items, truth, flow)
  BY DEF RecallIsExplained
<1> DEFINE p == [flow |-> flow, id |-> id]
<1>1. truth \in Seq(RecordType) /\ flow \in FlowsOf(truth) /\ DOMAIN Index(truth) = FlowsOf(truth)
  BY DEF TypeOK, Index
<1>2. PICK i \in Records(truth, flow) : Index(truth)[flow] = truth[i]
  BY <1>1, IndexIsOfLog
<1>3. i \in DOMAIN truth /\ truth[i].flow = flow
  BY DEF Records
<1>4. AllAccounted(flow, truth[i].read)
  BY <1>2, <1>3 DEF PacketsInv
<1>5. Accounted(p, s)
  BY <1>2, <1>4 DEF AllAccounted
<1>6. PICK k \in DOMAIN items : items[k].size = s /\ p \in items[k].packets
  BY <1>5 DEF Accounted, Unfinished
<1>7. items[k].flow = flow
  <2>1. items[k].flow # NoFlow
    BY <1>6 DEF Unfinished
  <2>2. items[k].flow \in {NoFlow, p.flow}
    BY <1>6 DEF PacketsInv, RowsAttributed
  <2>3. QED
    BY <2>1, <2>2
<1>8. k \in DOMAIN Joined(items, truth)
  BY <1>1, <1>7 DEF Joined
<1>9. p.id = id
  OBVIOUS
<1>10. QED
  BY <1>6, <1>7, <1>8, <1>9 DEF Received

LEMMA ArchiveJobs == TypeOK /\ TruthInv /\ ScriptInv => ArchiveHasTheJobs
<1> SUFFICES ASSUME TypeOK, TruthInv, ScriptInv, Archived,
                    NEW i \in DOMAIN Joined(archive.items, truth),
                    Joined(archive.items, truth)[i].status # "completed"
             PROVE  gen = "dead" /\ archive.items[i].flow = Job.pcap
  BY DEF ArchiveHasTheJobs, ScriptInv, ArchiveIsOfLogs
<1> DEFINE flow == archive.items[i].flow
<1>1. flow \in DOMAIN Index(truth) /\ Joined(archive.items, truth)[i] = Index(truth)[flow]
  BY DEF Joined
<1>2. truth \in Seq(RecordType) /\ flow \in FlowsOf(truth)
  BY <1>1 DEF TypeOK, Index
<1>3. PICK j \in Records(truth, flow) :
        Index(truth)[flow] = truth[j] /\ (Completed(truth, flow) # {} => j \in Completed(truth, flow))
  BY <1>2, IndexIsOfLog
<1>4. j \in DOMAIN truth /\ truth[j].flow = flow /\ truth[j].status # "completed"
  BY <1>1, <1>3 DEF Records
<1>5. Completed(truth, flow) = {}
  BY <1>3, <1>4 DEF Completed
<1>6. ~ (j + 1 \in DOMAIN truth /\ truth[j + 1].status = "completed" /\ truth[j + 1].flow = truth[j].flow)
  BY <1>4, <1>5 DEF Completed, Records
<1>7. gen \in {"replay", "drain", "dead"} /\ truth[j] = StartedRecord(current)
  BY <1>4, <1>6, PairsComplete
<1>8. QED
  BY <1>4, <1>7 DEF ScriptInv, Archived, StartedRecord, Job
------------------------------------------------------------------------------
(* The packets on the way to the rows of the small window.                 *)

LEMMA QueueTypes ==
  ASSUME TypeOK
  PROVE  /\ Queue \in Seq(PacketType) /\ Len(Queue) = Len(open[SmallWindow]) + Len(link)
         /\ DOMAIN Queue = 1..Len(Queue) /\ Len(Queue) \in Nat
         /\ Len(open[SmallWindow]) \in Nat /\ Len(link) \in Nat /\ Len(open[SmallWindow]) < SmallWindow
         /\ \A i \in 1..Len(open[SmallWindow]) : Queue[i] = open[SmallWindow][i]
         /\ \A i \in 1..Len(link) : Queue[Len(open[SmallWindow]) + i] = link[i]
         /\ \A i \in DOMAIN Queue : Queue[i].id \in Nat
<1>1. open[SmallWindow] \in Seq(PacketType) /\ link \in Seq(PacketType) /\ Len(open[SmallWindow]) < SmallWindow
  BY Constants DEF TypeOK
<1>2. /\ Queue \in Seq(PacketType) /\ Len(Queue) = Len(open[SmallWindow]) + Len(link)
      /\ DOMAIN Queue = 1..Len(Queue) /\ Len(Queue) \in Nat
      /\ Len(open[SmallWindow]) \in Nat /\ Len(link) \in Nat
      /\ \A i \in 1..Len(open[SmallWindow]) : Queue[i] = open[SmallWindow][i]
      /\ \A i \in 1..Len(link) : Queue[Len(open[SmallWindow]) + i] = link[i]
  BY <1>1, Concat DEF Queue
<1>3. ASSUME NEW i \in DOMAIN Queue PROVE Queue[i].id \in Nat
  <2>1. Queue[i] \in PacketType
    BY <1>2
  <2>2. QED
    BY <2>1 DEF PacketType
<1>4. QED
  BY <1>1, <1>2, <1>3

\* The end of a long job without a row is not within reach of the small window,
\* and what comes before it, from one window on, is of the same flow.
LEMMA FarEnd ==
  ASSUME TypeOK, InRuns, HeadIsEarly, NEW e \in DOMAIN Queue,
         Queue[e].id >= 2 * SmallWindow - 2, ~ HasRow(Queue[e].flow)
  PROVE  /\ e >= SmallWindow
         /\ e <= SmallWindow => \A k \in 1..e : Queue[k].flow = Queue[e].flow
<1>1. /\ e \in Nat \ {0} /\ DOMAIN Queue = 1..Len(Queue) /\ Len(Queue) \in Nat
      /\ \A i \in DOMAIN Queue : Queue[i].id \in Nat
  <2>1. DOMAIN Queue = 1..Len(Queue) /\ Len(Queue) \in Nat /\ \A i \in DOMAIN Queue : Queue[i].id \in Nat
    BY QueueTypes
  <2>2. QED
    BY <2>1
<1>2. ASSUME e <= SmallWindow, NEW k \in 1..e PROVE Queue[k].flow = Queue[e].flow
  <2>1. CASE k = e
    BY <2>1
  <2>2. CASE k < e
    <3>1. k \in DOMAIN Queue
      BY <1>1
    <3>2. Queue[k].flow # Queue[e].flow => Queue[e].id < e - k
      BY <2>2, <3>1 DEF InRuns
    <3>3. ~ (Queue[e].id < e - k)
      BY <1>1, <1>2, Constants
    <3>4. QED
      BY <3>2, <3>3
  <2>3. QED
    BY <1>1, <2>1, <2>2
<1>3. ASSUME e < SmallWindow PROVE FALSE
  <2>1. Queue[1].flow = Queue[e].flow /\ 1 \in DOMAIN Queue
    <3>1. e <= SmallWindow /\ 1 \in 1..e
      BY <1>1, <1>3, Constants
    <3>2. Queue[1].flow = Queue[e].flow
      BY <1>2, <3>1
    <3>3. QED
      BY <1>1, <3>2
  <2>2. Queue[1].id < SmallWindow
    <3>1. Queue # <<>>
      BY <2>1
    <3>2. QED
      BY <2>1, <3>1 DEF HeadIsEarly, Early
  <2>3. Queue[e].id <= Queue[1].id + (e - 1)
    <3>1. CASE e = 1
      BY <1>1, <3>1
    <3>2. CASE e # 1
      BY <1>1, <2>1, <3>2 DEF InRuns
    <3>3. QED
      BY <3>1, <3>2
  <2>4. QED
    BY <1>1, <1>3, <2>1, <2>2, <2>3, Constants
<1>4. QED
  BY <1>1, <1>2, <1>3, Constants

\* A packet is sent: it goes to the end.
LEMMA QueueOfSend ==
  ASSUME TypeOK, TruthInv, QueueInv, SendPacket, missing = {}
  PROVE  /\ InRuns' /\ InTurn' /\ HeadIsEarly' /\ EndIsCurrent'
         /\ \A f : Served(f) => Served(f)'
         /\ Long(read)' => Served(Job.pcap)'
<1> DEFINE m == Len(Queue)
<1>1. /\ link' = Append(link, Packet) /\ UNCHANGED <<open, items, jobs, current, gen>> /\ read' = read + 1
      /\ gen = "replay" /\ read \in Nat
  BY DEF SendPacket, edgeVars, CanRead, TypeOK
<1>2. Packet \in PacketType /\ Packet.flow = Job.pcap /\ Packet.id = read
  BY <1>1, JobTypes DEF AtWork, Packet
<1>3. /\ Queue \in Seq(PacketType) /\ m \in Nat /\ DOMAIN Queue = 1..m
      /\ \A i \in 1..m : Queue[i].id \in Nat
  BY QueueTypes
<1>4. /\ open[SmallWindow] \in Seq(PacketType) /\ link \in Seq(PacketType) /\ link' \in Seq(PacketType)
      /\ Len(link') = Len(link) + 1 /\ Len(link) \in Nat /\ Len(open[SmallWindow]) \in Nat
      /\ \A i \in 1..Len(link) : link'[i] = link[i]
      /\ link'[Len(link) + 1] = Packet
  BY <1>1, <1>2, AppendOne, Constants DEF TypeOK
<1>5. /\ DOMAIN Queue' = 1..(m + 1) /\ Len(Queue') = m + 1 /\ Queue'[m + 1] = Packet
      /\ \A i \in 1..m : Queue'[i] = Queue[i]
  <2> DEFINE a == open[SmallWindow]
  <2>1. /\ m = Len(a) + Len(link)
        /\ \A i \in 1..Len(a) : Queue[i] = a[i]
        /\ \A i \in 1..Len(link) : Queue[Len(a) + i] = link[i]
    BY QueueTypes
  <2>2. Queue' = a \o link'
    BY <1>1 DEF Queue
  <2>3. a \in Seq(PacketType) /\ link' \in Seq(PacketType) /\ Len(a) \in Nat
    BY <1>4
  <2> HIDE DEF a, m
  <2>4. /\ Len(a \o link') = Len(a) + Len(link') /\ DOMAIN (a \o link') = 1..(Len(a) + Len(link'))
        /\ \A i \in 1..Len(a) : (a \o link')[i] = a[i]
        /\ \A i \in 1..Len(link') : (a \o link')[Len(a) + i] = link'[i]
    BY <2>3, Concat, SMTT(30)
  <2>5. /\ Len(Queue') = m + 1 /\ DOMAIN Queue' = 1..(m + 1)
        /\ \A i \in 1..Len(a) : Queue'[i] = a[i]
        /\ \A i \in 1..(Len(link) + 1) : Queue'[Len(a) + i] = link'[i]
    BY <1>4, <2>1, <2>2, <2>4
  <2>6. Len(a) \in Nat /\ m + 1 = Len(a) + (Len(link) + 1)
    BY <1>4, <2>1, <2>3
  <2>7. Queue'[m + 1] = Packet
    BY <1>4, <2>5, <2>6
  <2>8. ASSUME NEW i \in 1..m PROVE Queue'[i] = Queue[i]
    <3>1. CASE i \in 1..Len(a)
      BY <2>1, <2>5, <3>1
    <3>2. CASE i \notin 1..Len(a)
      <4>1. i - Len(a) \in 1..Len(link) /\ i = Len(a) + (i - Len(a)) /\ i - Len(a) \in 1..(Len(link) + 1)
        BY <1>4, <2>1, <2>6, <3>2
      <4>2. PICK j \in 1..Len(link) : j \in 1..(Len(link) + 1) /\ i = Len(a) + j
        BY <4>1
      <4>3. Queue'[Len(a) + j] = link'[j] /\ Queue[Len(a) + j] = link[j]
        BY <2>1, <2>5, <4>2
      <4>4. link'[j] = link[j]
        BY <1>4, <4>2
      <4>5. QED
        BY <4>2, <4>3, <4>4
    <3>3. QED
      BY <3>1, <3>2
  <2>9. QED
    BY <2>5, <2>7, <2>8
<1>6. /\ InRuns /\ InTurn /\ HeadIsEarly
      /\ read > 0 => IF Queue = <<>> THEN Early(Packet) ELSE Queue[m] = [flow |-> Job.pcap, id |-> read - 1]
  BY <1>1 DEF QueueInv, EndIsCurrent
<1> HIDE DEF m
<1>7. read = 0 \/ m = 0 \/ (Queue[m].flow = Job.pcap /\ Queue[m].id = read - 1)
  <2>1. m # 0 => Queue # <<>>
    BY DEF m
  <2>2. QED
    BY <1>1, <1>6, <2>1
<1>8. InRuns'
  <2>1. ASSUME NEW i \in 1..(m + 1), NEW j \in 1..(m + 1), i < j
        PROVE  /\ Queue'[j].id <= Queue'[i].id + (j - i)
               /\ Queue'[j].flow # Queue'[i].flow => Queue'[j].id < j - i
    <3>1. CASE j \in 1..m
      <4>1. i \in 1..m
        BY <1>3, <2>1, <3>1
      <4>2. QED
        BY <1>3, <1>5, <1>6, <2>1, <3>1, <4>1 DEF InRuns
    <3>2. CASE j = m + 1
      <4>1. i \in 1..m /\ Queue'[i] = Queue[i] /\ Queue'[j] = Packet /\ Queue[i].id \in Nat
        BY <1>3, <1>5, <2>1, <3>2
      <4>2. CASE read = 0
        BY <1>2, <2>1, <4>1, <4>2
      <4>3. CASE read # 0
        <5>1. m # 0 /\ Queue[m].flow = Job.pcap /\ Queue[m].id = read - 1
          BY <1>3, <1>7, <4>1, <4>3
        <5>2. CASE i = m
          BY <1>1, <1>2, <1>3, <3>2, <4>1, <5>1, <5>2
        <5>3. CASE i < m
          <6>1. /\ Queue[m].id <= Queue[i].id + (m - i)
                /\ Queue[m].flow # Queue[i].flow => Queue[m].id < m - i
            <7>1. m \in DOMAIN Queue /\ i \in DOMAIN Queue
              BY <1>3, <4>1, <5>1
            <7>2. QED
              BY <1>6, <5>3, <7>1 DEF InRuns
          <6>2. QED
            BY <1>1, <1>2, <1>3, <3>2, <4>1, <5>1, <6>1
        <5>4. QED
          BY <1>3, <4>1, <5>2, <5>3
      <4>4. QED
        BY <4>2, <4>3
    <3>3. QED
      BY <1>3, <3>1, <3>2
  <2>2. QED
    BY <1>5, <2>1 DEF InRuns
<1>9. InTurn'
  <2>1. ASSUME NEW i \in 1..(m + 1), i + 1 \in 1..(m + 1)
        PROVE  \/ Queue'[i + 1].id = 0
               \/ Queue'[i + 1].flow = Queue'[i].flow /\ Queue'[i + 1].id = Queue'[i].id + 1
    <3>1. CASE i + 1 \in 1..m
      <4>1. i \in 1..m
        BY <1>3, <3>1
      <4>2. QED
        BY <1>3, <1>5, <1>6, <3>1, <4>1 DEF InTurn
    <3>2. CASE i = m
      BY <1>1, <1>2, <1>3, <1>5, <1>7, <3>2
    <3>3. QED
      BY <1>3, <2>1, <3>1, <3>2
  <2>2. QED
    BY <1>5, <2>1 DEF InTurn
<1>10. ASSUME NEW p, Early(p), Queue'[1] = p PROVE Early(Queue[1])'
  BY <1>1, <1>10 DEF Early, HasRow
<1>11. HeadIsEarly'
  <2>1. Early(Queue[1])'
    <3>1. CASE m = 0
      <4>1. Queue'[1] = Packet /\ Queue = <<>>
        BY <1>3, <1>5, <3>1 DEF m
      <4>2. Early(Packet)
        BY <1>1, <1>2, <1>6, <4>1, Constants DEF Early
      <4>3. QED
        BY <4>1, <4>2, <1>10
    <3>2. CASE m # 0
      <4>1. 1 \in 1..m /\ Queue'[1] = Queue[1] /\ Queue # <<>>
        BY <1>3, <1>5, <3>2 DEF m
      <4>2. Early(Queue[1])
        BY <1>6, <4>1 DEF HeadIsEarly
      <4>3. QED
        BY <4>1, <4>2, <1>10
    <3>3. QED
      BY <3>1, <3>2
  <2>2. QED
    BY <2>1 DEF HeadIsEarly
<1>12. EndIsCurrent'
  <2>1. Queue' # <<>> /\ Queue'[Len(Queue')] = Packet
    BY <1>3, <1>5
  <2>2. Packet = [flow |-> Job'.pcap, id |-> read' - 1]
    BY <1>1 DEF Packet, Job
  <2>3. QED
    BY <2>1, <2>2 DEF EndIsCurrent
<1>13. ASSUME NEW f, Served(f) PROVE Served(f)'
  <2>1. CASE HasRow(f)
    BY <1>1, <2>1 DEF Served, HasRow
  <2>2. CASE \E e \in DOMAIN Queue : Queue[e].flow = f /\ Queue[e].id >= 2 * SmallWindow - 2
    <3>1. PICK e \in DOMAIN Queue : Queue[e].flow = f /\ Queue[e].id >= 2 * SmallWindow - 2
      BY <2>2
    <3>2. e \in DOMAIN Queue' /\ Queue'[e] = Queue[e]
      BY <1>3, <1>5
    <3>3. QED
      BY <3>1, <3>2 DEF Served
  <2>3. QED
    BY <1>13, <2>1, <2>2 DEF Served
<1>14. ASSUME Long(read)' PROVE Served(Job.pcap)'
  <2>1. m + 1 \in DOMAIN Queue' /\ Queue'[m + 1].flow = Job.pcap /\ Queue'[m + 1].id = read
    BY <1>2, <1>3, <1>5
  <2>2. read >= 2 * SmallWindow - 2
    BY <1>1, <1>14, Constants DEF Long
  <2>3. Job' = Job
    BY <1>1 DEF Job
  <2>4. QED
    BY <2>1, <2>2, <2>3 DEF Served
<1>15. QED
  BY <1>8, <1>9, <1>11, <1>12, <1>13, <1>14

\* What the small window holds after the packet is the front of the queue.
LEMMA TakenIsFront ==
  ASSUME TypeOK, Receive
  PROVE  LET w == Taken[SmallWindow]
             m == Len(Taken[SmallWindow])
         IN /\ w \in Seq(PacketType) /\ w # <<>> /\ m \in 1..SmallWindow /\ m <= Len(Queue) /\ DOMAIN w = 1..m
            /\ \A i \in 1..m : w[i] = Queue[i]
            /\ SmallWindow \notin Closed => Queue' = Queue
            /\ SmallWindow \in Closed =>
                 /\ DOMAIN Queue' = 1..(Len(Queue) - m) /\ Len(Queue') = Len(Queue) - m
                 /\ \A i \in 1..(Len(Queue) - m) : Queue'[i] = Queue[m + i]
<1> DEFINE w == Taken[SmallWindow]
           o == open[SmallWindow]
           m == Len(w)
<1>1. /\ w \in Seq(PacketType) /\ w # <<>> /\ m = Len(o) + 1 /\ m <= SmallWindow
      /\ \A i \in 1..Len(o) : w[i] = o[i]
      /\ w[Len(o) + 1] = link[1]
      /\ Len(link) \in Nat \ {0} /\ link' \in Seq(PacketType) /\ Len(link') = Len(link) - 1
      /\ \A i \in 1..(Len(link) - 1) : link'[i] = link[i + 1]
      /\ open'[SmallWindow] = IF SmallWindow \in Closed THEN <<>> ELSE w
  BY ReceiveWindows, Constants
<1>2. /\ Len(Queue) = Len(o) + Len(link) /\ Len(o) \in Nat /\ DOMAIN Queue = 1..Len(Queue) /\ Queue \in Seq(PacketType)
      /\ \A i \in 1..Len(o) : Queue[i] = o[i]
      /\ \A i \in 1..Len(link) : Queue[Len(o) + i] = link[i]
  BY QueueTypes
<1>3. DOMAIN w = 1..m
  BY <1>1
<1>4. Queue' = open'[SmallWindow] \o link'
  BY DEF Queue
<1> HIDE DEF w, o, m
<1>5. m \in 1..SmallWindow /\ m <= Len(Queue)
  BY <1>1, <1>2, Constants
<1>6. ASSUME NEW i \in 1..m PROVE w[i] = Queue[i]
  <2>1. CASE i \in 1..Len(o)
    BY <1>1, <1>2, <2>1
  <2>2. CASE i = Len(o) + 1
    <3>1. 1 \in 1..Len(link)
      BY <1>1
    <3>2. QED
      BY <1>1, <1>2, <2>2, <3>1
  <2>3. QED
    BY <1>1, <1>2, <2>1, <2>2
<1>7. ASSUME NEW i \in 1..(Len(link) - 1) PROVE link'[i] = Queue[m + i]
  <2>1. i + 1 \in 1..Len(link) /\ m + i = Len(o) + (i + 1)
    BY <1>1, <1>2
  <2>2. QED
    BY <1>1, <1>2, <2>1
<1>8. CASE SmallWindow \in Closed
  <2>1. Queue' = link'
    BY <1>1, <1>4, <1>8
  <2>2. Len(link) - 1 = Len(Queue) - m /\ DOMAIN link' = 1..(Len(link) - 1)
    BY <1>1, <1>2
  <2>3. QED
    BY <1>1, <1>3, <1>5, <1>6, <1>7, <1>8, <2>1, <2>2 DEF w, m
<1>9. CASE SmallWindow \notin Closed
  <2>1. Queue' = w \o link'
    BY <1>1, <1>4, <1>9
  <2>2. /\ w \o link' \in Seq(PacketType) /\ Len(w \o link') = m + Len(link')
        /\ \A i \in 1..m : (w \o link')[i] = w[i]
        /\ \A i \in 1..Len(link') : (w \o link')[m + i] = link'[i]
        /\ DOMAIN (w \o link') = 1..(m + Len(link'))
    <3>1. w \in Seq(PacketType) /\ link' \in Seq(PacketType)
      BY <1>1
    <3>2. /\ w \o link' \in Seq(PacketType) /\ Len(w \o link') = Len(w) + Len(link')
          /\ \A i \in 1..Len(w) : (w \o link')[i] = w[i]
          /\ \A i \in 1..Len(link') : (w \o link')[Len(w) + i] = link'[i]
          /\ DOMAIN (w \o link') = 1..(Len(w) + Len(link'))
      BY <3>1, Concat, SMTT(30)
    <3>3. QED
      BY <3>2 DEF m
  <2>3. m + Len(link') = Len(Queue) /\ Len(link') = Len(link) - 1
    BY <1>1, <1>2
  <2>4. ASSUME NEW i \in 1..Len(Queue) PROVE (w \o link')[i] = Queue[i]
    <3>1. CASE i \in 1..m
      BY <1>6, <2>2, <3>1
    <3>2. CASE i \notin 1..m
      <4>1. i - m \in 1..(Len(link) - 1) /\ i = m + (i - m)
        BY <1>5, <2>3, <3>2
      <4>2. QED
        BY <1>7, <2>2, <2>3, <4>1
    <3>3. QED
      BY <3>1, <3>2
  <2>5. Queue' = Queue
    <3>1. Queue' \in Seq(PacketType) /\ Len(Queue') = Len(Queue) /\ Queue \in Seq(PacketType)
          /\ \A i \in 1..Len(Queue) : Queue'[i] = Queue[i]
      BY <1>2, <2>1, <2>2, <2>3, <2>4
    <3>2. QED
      BY <3>1, SameSequence
  <2>6. QED
    BY <1>1, <1>3, <1>5, <1>6, <1>9, <2>5 DEF w, m
<1>10. QED
  BY <1>8, <1>9

\* The queue stays a sequence.
LEMMA NextQueueType ==
  ASSUME TypeOK, Receive
  PROVE  Queue' \in Seq(PacketType) /\ (Len(Queue') = 0 => Queue' = <<>>)
<1>1. open'[SmallWindow] \in Seq(PacketType) /\ link' \in Seq(PacketType)
  <2>1. /\ Taken[SmallWindow] \in Seq(PacketType) /\ link' \in Seq(PacketType)
        /\ open'[SmallWindow] = IF SmallWindow \in Closed THEN <<>> ELSE Taken[SmallWindow]
    BY ReceiveWindows, Constants
  <2>2. <<>> \in Seq(PacketType)
    OBVIOUS
  <2>3. QED
    BY <2>1, <2>2
<1>2. Queue' = open'[SmallWindow] \o link'
  BY DEF Queue
<1>3. Queue' \in Seq(PacketType)
  BY <1>1, <1>2
<1>4. QED
  BY <1>3

\* A packet is taken: a window that closes leaves a row of its flow, or has the
\* end of one flow and at most the first few packets of the next.
LEMMA QueueOfReceive ==
  ASSUME TypeOK, Receive, InRuns, InTurn, HeadIsEarly, EndIsCurrent
  PROVE  /\ InRuns' /\ InTurn' /\ HeadIsEarly' /\ EndIsCurrent'
         /\ \A f : Served(f) => Served(f)'
<1> DEFINE w == Taken[SmallWindow]
           m == Len(w)
           n == Len(Queue)
<1>1. /\ w \in Seq(PacketType) /\ w # <<>> /\ m \in 1..SmallWindow /\ m <= n /\ DOMAIN w = 1..m
      /\ \A i \in 1..m : w[i] = Queue[i]
      /\ SmallWindow \notin Closed => Queue' = Queue
      /\ SmallWindow \in Closed =>
           /\ DOMAIN Queue' = 1..(n - m) /\ Len(Queue') = n - m
           /\ \A i \in 1..(n - m) : Queue'[i] = Queue[m + i]
  BY TakenIsFront
<1>2. /\ DOMAIN Queue = 1..n /\ n \in Nat /\ Queue \in Seq(PacketType)
      /\ \A i \in 1..n : Queue[i].id \in Nat
  BY QueueTypes
<1>3. UNCHANGED <<gen, read, jobs, current>>
  BY DEF Receive, genVars
<1>4. ASSUME NEW f, HasRow(f) PROVE HasRow(f)'
  <2>1. PICK i \in DOMAIN items : items[i].flow = f
    BY <1>4 DEF HasRow
  <2>2. i \in DOMAIN items' /\ items'[i] = items[i]
    BY <2>1, ReceiveRows
  <2>3. QED
    BY <2>1, <2>2 DEF HasRow
<1>5. CASE SmallWindow \notin Closed
  <2>1. Queue' = Queue
    BY <1>1, <1>5
  <2>2. ASSUME NEW p, Early(p) PROVE Early(p)'
    BY <1>4, <2>2 DEF Early
  <2>3. InRuns' /\ InTurn'
    BY <2>1 DEF InRuns, InTurn
  <2>4. HeadIsEarly'
    <3>1. CASE Queue = <<>>
      BY <2>1, <3>1 DEF HeadIsEarly
    <3>2. CASE Queue # <<>>
      <4>1. PICK p : p = Queue[1] /\ Early(p)
        BY <3>2 DEF HeadIsEarly
      <4>2. Early(p)' /\ Queue'[1] = p
        BY <2>1, <2>2, <4>1
      <4>3. QED
        BY <4>2 DEF HeadIsEarly, Early
    <3>3. QED
      BY <3>1, <3>2
  <2>5. EndIsCurrent'
    <3>1. Queue # <<>>
      <4>1. m \in Nat /\ 1 <= m /\ m <= Len(Queue)
        BY <1>1, Constants
      <4>2. Len(Queue) # 0
        BY <1>2, <4>1
      <4>3. QED
        BY <4>2
    <3>2. QED
      BY <1>3, <2>1, <3>1 DEF EndIsCurrent, Job
  <2>6. ASSUME NEW f, Served(f) PROVE Served(f)'
    BY <1>4, <2>1, <2>6 DEF Served
  <2>7. QED
    BY <2>3, <2>4, <2>5, <2>6
<1>6. CASE SmallWindow \in Closed
  <2> HIDE DEF w, m, n
  <2>1. /\ DOMAIN Queue' = 1..(n - m) /\ Len(Queue') = n - m /\ m \in Nat \ {0} /\ m <= SmallWindow
        /\ \A i \in 1..(n - m) : Queue'[i] = Queue[m + i] /\ m + i \in 1..n
    BY <1>1, <1>2, <1>6, Constants
  <2>2. ASSUME \A i \in 1..m : Queue[i].flow = Queue[1].flow, NEW f, f = Queue[1].flow
        PROVE  HasRow(f)'
    <3>1. PICK i \in DOMAIN items' : items'[i] = RowOf(w, SmallWindow)
      BY <1>6, ReceiveRows DEF w
    <3>2. w[1] = Queue[1] /\ \A k \in DOMAIN w : w[k].flow = w[1].flow
      BY <1>1, <2>1, <2>2
    <3>3. Cardinality(FlowsIn(w)) = 1
      BY <1>1, <3>2, OneFlow
    <3>4. items'[i].flow = f
      BY <2>2, <3>1, <3>2, <3>3 DEF RowOf
    <3>5. QED
      BY <3>1, <3>4 DEF HasRow
  <2>3. ASSUME NEW f, f = Queue[m].flow
        PROVE  HasRow(f)' \/ Queue[m].id + 1 < SmallWindow
    <3>1. CASE \A i \in 1..m : Queue[i].flow = Queue[1].flow
      <4>1. f = Queue[1].flow
        BY <2>1, <2>3, <3>1
      <4>2. QED
        BY <2>2, <3>1, <4>1
    <3>2. CASE ~ \A i \in 1..m : Queue[i].flow = Queue[1].flow
      <4>1. PICK k \in 1..m : Queue[k].flow # Queue[m].flow
        <5>1. 1 \in 1..m
          BY <2>1
        <5>2. QED
          BY <3>2, <5>1
      <4>2. k < m /\ k \in 1..n /\ m \in 1..n
        BY <1>1, <1>2, <2>1, <4>1
      <4>3. Queue[m].id < m - k /\ Queue[m].id \in Nat
        BY <1>2, <4>1, <4>2 DEF InRuns
      <4>4. QED
        BY <2>1, <4>1, <4>3, Constants
    <3>3. QED
      BY <3>1, <3>2
  <2>4. InRuns'
    <3>1. ASSUME NEW i \in 1..(n - m), NEW j \in 1..(n - m), i < j
          PROVE  /\ Queue'[j].id <= Queue'[i].id + (j - i)
                 /\ Queue'[j].flow # Queue'[i].flow => Queue'[j].id < j - i
      <4>1. /\ m + i \in DOMAIN Queue /\ m + j \in DOMAIN Queue /\ m + i < m + j /\ (m + j) - (m + i) = j - i
        BY <1>2, <2>1, <3>1
      <4>2. /\ Queue[m + j].id <= Queue[m + i].id + ((m + j) - (m + i))
            /\ Queue[m + j].flow # Queue[m + i].flow => Queue[m + j].id < (m + j) - (m + i)
        BY <4>1 DEF InRuns
      <4>3. QED
        BY <2>1, <4>1, <4>2
    <3>2. QED
      BY <2>1, <3>1 DEF InRuns
  <2>5. InTurn'
    <3>1. ASSUME NEW i \in 1..(n - m), i + 1 \in 1..(n - m)
          PROVE  \/ Queue'[i + 1].id = 0
                 \/ Queue'[i + 1].flow = Queue'[i].flow /\ Queue'[i + 1].id = Queue'[i].id + 1
      <4>1. m + i \in DOMAIN Queue /\ (m + i) + 1 \in DOMAIN Queue /\ (m + i) + 1 = m + (i + 1)
        BY <1>2, <2>1, <3>1
      <4>2. \/ Queue[(m + i) + 1].id = 0
            \/ Queue[(m + i) + 1].flow = Queue[m + i].flow /\ Queue[(m + i) + 1].id = Queue[m + i].id + 1
        BY <4>1 DEF InTurn
      <4>3. QED
        BY <2>1, <3>1, <4>1, <4>2
    <3>2. QED
      BY <2>1, <3>1 DEF InTurn
  <2>6. HeadIsEarly'
    <3>1. ASSUME Queue' # <<>> PROVE \E p : p = Queue'[1] /\ Early(p)'
      <4>1. 1 \in 1..(n - m)
        <5>1. n - m # 0
          BY <2>1, <3>1, NextQueueType
        <5>2. QED
          BY <1>1, <1>2, <2>1, <5>1
      <4>2. Queue'[1] = Queue[m + 1] /\ m \in DOMAIN Queue /\ m + 1 \in DOMAIN Queue
        BY <1>1, <1>2, <2>1, <4>1
      <4>3. PICK p : p = Queue[m + 1]
        OBVIOUS
      <4>4. p.id = 0 \/ (p.flow = Queue[m].flow /\ p.id = Queue[m].id + 1)
        BY <4>2, <4>3 DEF InTurn
      <4>5. CASE p.id = 0
        BY <4>2, <4>3, <4>5, Constants DEF Early
      <4>6. CASE p.flow = Queue[m].flow /\ p.id = Queue[m].id + 1
        <5>1. HasRow(p.flow)' \/ p.id < SmallWindow
          BY <2>3, <4>6
        <5>2. QED
          BY <4>2, <4>3, <5>1 DEF Early
      <4>7. QED
        BY <4>4, <4>5, <4>6
    <3>2. QED
      BY <3>1 DEF HeadIsEarly, Early
  <2>7. EndIsCurrent'
    <3>1. ASSUME gen = "replay", read > 0
          PROVE  IF Queue' = <<>> THEN \E p : p = Packet /\ Early(p)'
                                  ELSE Queue'[Len(Queue')] = [flow |-> Job.pcap, id |-> read - 1]
      <4>1. Queue # <<>>
        BY <1>1, <1>2, <2>1 DEF n
      <4>2. Queue[n] = [flow |-> Job.pcap, id |-> read - 1]
        BY <3>1, <4>1 DEF EndIsCurrent, n
      <4>3. CASE Queue' = <<>>
        <5>1. n = m
          BY <1>1, <1>2, <2>1, <4>3
        <5>2. PICK p : p = Packet
          OBVIOUS
        <5>3. p.flow = Queue[m].flow /\ p.id = Queue[m].id + 1
          <6>1. read \in Nat
            BY DEF TypeOK
          <6>2. QED
            BY <4>2, <5>1, <5>2, <6>1 DEF Packet
        <5>4. HasRow(p.flow)' \/ p.id < SmallWindow
          BY <2>3, <5>3
        <5>5. QED
          BY <4>3, <5>2, <5>4 DEF Early
      <4>4. CASE Queue' # <<>>
        <5>1. n - m # 0
          BY <2>1, <4>4, NextQueueType
        <5>2. n - m \in 1..(n - m) /\ m + (n - m) = n
          BY <1>1, <1>2, <2>1, <5>1
        <5>3. QED
          BY <2>1, <4>2, <4>4, <5>2
      <4>5. QED
        BY <4>3, <4>4
    <3>2. QED
      BY <1>3, <3>1 DEF EndIsCurrent, Early, Packet, Job
  <2>8. ASSUME NEW f, Served(f) PROVE Served(f)'
    <3>1. CASE HasRow(f)
      BY <1>4, <3>1 DEF Served
    <3>2. CASE ~ HasRow(f)
      <4>1. PICK e \in DOMAIN Queue : Queue[e].flow = f /\ Queue[e].id >= 2 * SmallWindow - 2
        BY <2>8, <3>2 DEF Served
      <4>2. e \in 1..n /\ e >= SmallWindow /\ (e <= SmallWindow => \A k \in 1..e : Queue[k].flow = Queue[e].flow)
        BY <1>2, <3>2, <4>1, FarEnd
      <4>3. CASE e > m
        <5>1. e - m \in 1..(n - m) /\ m + (e - m) = e
          BY <1>1, <1>2, <2>1, <4>2, <4>3
        <5>2. e - m \in DOMAIN Queue' /\ Queue'[e - m] = Queue[e]
          BY <2>1, <5>1
        <5>3. QED
          BY <4>1, <5>2 DEF Served
      <4>4. CASE e <= m
        <5>1. e = m /\ e <= SmallWindow
          BY <2>1, <4>2, <4>4, Constants
        <5>2. 1 \in 1..m /\ \A k \in 1..m : Queue[k].flow = f
          BY <2>1, <4>1, <4>2, <5>1
        <5>3. HasRow(f)'
          BY <2>2, <5>2
        <5>4. QED
          BY <5>3 DEF Served
      <4>5. QED
        BY <2>1, <4>2, <4>3, <4>4
    <3>3. QED
      BY <3>1, <3>2
  <2>9. QED
    BY <2>4, <2>5, <2>6, <2>7, <2>8
<1>7. QED
  BY <1>5, <1>6

\* The steps that neither take a packet nor send one.
LEMMA QueueStays ==
  ASSUME InRuns, InTurn, HeadIsEarly, Queue' = Queue, items' = items
  PROVE  InRuns' /\ InTurn' /\ HeadIsEarly' /\ \A f : Served(f) => Served(f)'
<1>1. InRuns' /\ InTurn'
  BY DEF InRuns, InTurn
<1>2. HeadIsEarly'
  BY DEF HeadIsEarly, Early, HasRow
<1>3. ASSUME NEW f, Served(f) PROVE Served(f)'
  BY <1>3 DEF Served, HasRow
<1>4. QED
  BY <1>1, <1>2, <1>3

\* The long jobs of the truth log stay served.
LEMMA RecordsServed ==
  ASSUME TypeOK, QueueInv, missing = {}, \A f : Served(f) => Served(f)',
         \/ truth' = truth
         \/ \E r \in RecordType : /\ truth' = Append(truth, r)
                                  /\ r.status = "completed" /\ Long(r.read) => Served(r.flow)
  PROVE  \A i \in DOMAIN truth' :
           truth'[i].status = "completed" /\ Long(truth'[i].read) => \E f : f = truth'[i].flow /\ Served(f)'
<1> SUFFICES ASSUME NEW i \in DOMAIN truth', truth'[i].status = "completed", Long(truth'[i].read)
             PROVE  Served(truth'[i].flow)
  OBVIOUS
<1>1. truth \in Seq(RecordType) /\ DOMAIN truth = 1..Len(truth) /\ Len(truth) \in Nat
  BY DEF TypeOK
<1>2. CASE i \in DOMAIN truth /\ truth'[i] = truth[i]
  BY <1>2 DEF QueueInv
<1>3. CASE ~ (i \in DOMAIN truth /\ truth'[i] = truth[i])
  <2>1. PICK r \in RecordType : /\ truth' = Append(truth, r)
                                /\ r.status = "completed" /\ Long(r.read) => Served(r.flow)
    BY <1>3
  <2>2. DOMAIN truth' = 1..(Len(truth) + 1) /\ truth'[Len(truth) + 1] = r
        /\ \A k \in 1..Len(truth) : truth'[k] = truth[k]
    <3>1. DOMAIN Append(truth, r) = 1..(Len(truth) + 1) /\ Append(truth, r)[Len(truth) + 1] = r
          /\ \A k \in 1..Len(truth) : Append(truth, r)[k] = truth[k]
      BY <1>1, AppendOne
    <3>2. truth' = Append(truth, r)
      BY <2>1
    <3>3. QED
      BY <3>1, <3>2, Zenon
  <2>3. i = Len(truth) + 1
    BY <1>1, <1>3, <2>2
  <2>4. QED
    BY <2>1, <2>2, <2>3
<1>4. QED
  BY <1>2, <1>3

\* The steps that leave the packets where they are.
Still ==
  \/ StartJob \/ EndManifest \/ NoAddress \/ EndReplay \/ CompleteJob \/ CompleteRaises \/ GeneratorDies
  \/ GetAddress \/ Expire \/ Age \/ WaitEnds \/ SettleRound \/ Archive \/ RemoveContainers \/ UNCHANGED vars

LEMMA StillKeeps ==
  ASSUME Still
  PROVE  /\ UNCHANGED <<link, open, items, missing>>
         /\ gen' = "replay" => StartJob \/ gen = "replay"
         /\ StartJob \/ CompleteJob \/ UNCHANGED <<jobs, current, read, truth>>
         /\ AtWork' => StartJob \/ (AtWork /\ UNCHANGED <<jobs, current, read>>)
<1>1. CASE StartJob \/ EndManifest \/ NoAddress \/ EndReplay \/ CompleteJob \/ CompleteRaises \/ GeneratorDies
  BY <1>1 DEF StartJob, EndManifest, NoAddress, EndReplay, CompleteJob, CompleteRaises, GeneratorDies, edgeVars, AtWork
<1>2. CASE GetAddress \/ Expire \/ Age \/ WaitEnds \/ SettleRound \/ Archive \/ RemoveContainers
           \/ UNCHANGED vars
  BY <1>2 DEF GetAddress, Expire, Age, WaitEnds, SettleRound, Archive, RemoveContainers, vars, genVars, edgeVars,
     AtWork
<1>3. QED
  BY <1>1, <1>2 DEF Still

LEMMA InitQueue == Init => QueueInv
<1> SUFFICES ASSUME Init PROVE QueueInv
  OBVIOUS
<1>1. open[SmallWindow] = <<>> /\ link = <<>> /\ gen = "boot" /\ truth = <<>>
  BY Constants DEF Init
<1>2. Queue = <<>>
  BY <1>1 DEF Queue
<1>3. QED
  BY <1>1, <1>2 DEF QueueInv, InRuns, InTurn, HeadIsEarly, EndIsCurrent, AtWork

LEMMA NextQueue == TypeOK /\ TruthInv /\ QueueInv /\ [Next]_vars => QueueInv'
<1> SUFFICES ASSUME TypeOK, TruthInv, QueueInv, [Next]_vars PROVE QueueInv'
  OBVIOUS
<1> SUFFICES ASSUME missing' = {} PROVE QueueInv'
  BY DEF QueueInv
<1>1. Still \/ SendPacket \/ Receive \/ RestartEdge
  <2>1. ~ SendFails /\ ~ Lose /\ ~ PacketFails
    <3>1. ~ SendFails /\ ~ Lose
      BY Constants DEF SendFails, Lose, ToAll
    <3>2. QED
      BY <3>1, FailedRows
  <2>2. QED
    BY <2>1 DEF Next, Generator, Script, Troubles, Still
<1>2. missing = {}
  BY <1>1, StillKeeps DEF SendPacket, Receive, RestartEdge
<1>3. /\ InRuns /\ InTurn /\ HeadIsEarly /\ EndIsCurrent
      /\ AtWork /\ Long(read) => Served(Job.pcap)
  BY <1>2 DEF QueueInv
<1>4. /\ InRuns' /\ InTurn' /\ HeadIsEarly' /\ EndIsCurrent'
      /\ \A f : Served(f) => Served(f)'
  <2>1. CASE Still
    <3>1. Queue' = Queue /\ items' = items
      BY <2>1, StillKeeps DEF Queue
    <3>2. ASSUME gen' = "replay", read' > 0
          PROVE  gen = "replay" /\ UNCHANGED <<jobs, current, read>>
      <4>1. ~ StartJob /\ AtWork'
        BY <3>2 DEF StartJob, AtWork
      <4>2. QED
        BY <2>1, <3>2, <4>1, StillKeeps
    <3>3. EndIsCurrent'
      BY <1>3, <3>1, <3>2 DEF EndIsCurrent, Early, HasRow, Packet, Job
    <3>4. QED
      BY <1>3, <3>1, <3>3, QueueStays
  <2>2. CASE SendPacket
    BY <1>2, <2>2, QueueOfSend
  <2>3. CASE Receive
    BY <1>3, <2>3, QueueOfReceive
  <2>4. CASE RestartEdge
    <3>1. /\ ToSet(open[SmallWindow]) \X {SmallWindow} \subseteq missing' /\ open'[SmallWindow] = <<>>
          /\ UNCHANGED <<genVars, link, items>>
      BY <2>4, Constants DEF RestartEdge, PacketsIn
    <3>2. open[SmallWindow] = <<>>
      <4>1. ASSUME NEW p \in ToSet(open[SmallWindow]) PROVE FALSE
        <5>1. <<p, SmallWindow>> \in ToSet(open[SmallWindow]) \X {SmallWindow}
          OBVIOUS
        <5>2. QED
          BY <3>1, <5>1
      <4>2. DOMAIN open[SmallWindow] = {}
        BY <4>1 DEF ToSet
      <4>3. open[SmallWindow] \in Seq(PacketType)
        BY Constants DEF TypeOK
      <4>4. QED
        BY <4>2, <4>3, NoDomain
    <3>3. Queue' = Queue /\ items' = items
      BY <3>1, <3>2 DEF Queue
    <3>4. EndIsCurrent'
      BY <1>3, <3>1, <3>3 DEF EndIsCurrent, Early, HasRow, Packet, Job, genVars
    <3>5. QED
      BY <1>3, <3>3, <3>4, QueueStays
  <2>5. QED
    BY <1>1, <2>1, <2>2, <2>3, <2>4
<1>5. ASSUME AtWork', Long(read)' PROVE Served(Job.pcap)'
  <2>1. CASE SendPacket
    BY <1>2, <1>5, <2>1, QueueOfSend
  <2>2. CASE ~ SendPacket
    <3>1. AtWork /\ UNCHANGED <<jobs, current, read>>
      <4>1. CASE Still
        <5>1. ~ StartJob
          BY <1>5, Constants DEF StartJob, Long
        <5>2. QED
          BY <1>5, <4>1, <5>1, StillKeeps
      <4>2. CASE Receive \/ RestartEdge
        BY <1>5, <4>2 DEF Receive, RestartEdge, genVars, AtWork
      <4>3. QED
        BY <1>1, <2>2, <4>1, <4>2
    <3>2. PICK f : f = Job.pcap /\ Served(f)
      BY <1>3, <1>5, <3>1 DEF Long
    <3>3. Served(f)' /\ Job'.pcap = f
      BY <1>4, <3>1, <3>2 DEF Job
    <3>4. QED
      BY <3>3 DEF Served, HasRow
  <2>3. QED
    BY <2>1, <2>2
<1>6. \/ truth' = truth
      \/ \E r \in RecordType : /\ truth' = Append(truth, r)
                               /\ r.status = "completed" /\ Long(r.read) => Served(r.flow)
  <2>1. CASE StartJob
    <3>1. Record("started", 0) \in RecordType /\ Record("started", 0).status # "completed"
      BY <2>1, JobTypes DEF StartJob, Record
    <3>2. QED
      BY <2>1, <3>1 DEF StartJob
  <2>2. CASE CompleteJob
    <3>1. AtWork /\ truth' = Append(truth, Record("completed", read)) /\ read \in Nat
      BY <2>2 DEF CompleteJob, AtWork, TypeOK
    <3>2. Record("completed", read) \in RecordType
      BY <3>1, JobTypes
    <3>3. Record("completed", read).flow = Job.pcap /\ Record("completed", read).read = read
      BY DEF Record
    <3>4. QED
      BY <1>3, <3>1, <3>2, <3>3
  <2>3. CASE ~ StartJob /\ ~ CompleteJob
    <3>1. CASE Still
      BY <2>3, <3>1, StillKeeps
    <3>2. CASE SendPacket \/ Receive \/ RestartEdge
      BY <3>2 DEF SendPacket, Receive, RestartEdge, genVars
    <3>3. QED
      BY <1>1, <3>1, <3>2
  <2>4. QED
    BY <2>1, <2>2, <2>3
<1>7. ASSUME NEW i \in DOMAIN truth', truth'[i].status = "completed", Long(truth[i].read)'
      PROVE  Served(truth[i].flow)'
  <2>1. PICK f : f = truth'[i].flow /\ Served(f)'
    BY <1>2, <1>4, <1>6, <1>7, RecordsServed DEF Long
  <2>2. QED
    BY <2>1 DEF Served, HasRow
<1>8. QED
  BY <1>4, <1>5, <1>7 DEF QueueInv
------------------------------------------------------------------------------
(* The archive of logs that have settled.                                   *)

LEMMA InitSettled == Init => SettledInv
BY DEF Init, SettledInv, Archived

LEMMA NextSettled == TypeOK /\ ScriptInv /\ PaceInv /\ SettledInv /\ [Next]_vars => SettledInv'
<1> SUFFICES ASSUME TypeOK, ScriptInv, PaceInv, SettledInv, [Next]_vars PROVE SettledInv'
  OBVIOUS
<1>1. CASE Archive
  <2> SUFFICES ASSUME SmallWindow <= EdgeRate * Settle, missing = {}, stable' >= Settle, link # <<>>
               PROVE  FALSE
    BY <1>1 DEF Archive, SettledInv, edgeVars
  <2> DEFINE n == Len(open[SmallWindow])
  <2>1. /\ n \in Nat /\ n + 1 <= SmallWindow /\ stable \in Nat /\ pace \in Nat
    BY Constants DEF TypeOK
  <2>2. /\ script = "settle" /\ stable < Settle /\ KeepsUp
        /\ stable' = IF waited < MaxSettle THEN Quiet ELSE stable
    BY <1>1 DEF Archive, PaceInv, Archived
  <2>3. waited < MaxSettle /\ Quiet >= Settle
    BY <2>1, <2>2, Constants
  <2>4. Steady /\ stable + 1 >= Settle
    BY <2>3, Constants DEF Quiet
  <2>5. EdgeRate * stable + pace <= n /\ pace = EdgeRate
    <3>1. waited > 0 /\ waited # 0
      BY <2>4 DEF Steady, TypeOK
    <3>2. QED
      BY <2>2, <2>4, <3>1 DEF PaceInv, Pace, Steady, KeepsUp
  <2> HIDE DEF n
  <2>6. /\ EdgeRate * stable \in Nat /\ EdgeRate * (stable + 1) = EdgeRate * stable + EdgeRate
        /\ EdgeRate * Settle <= EdgeRate * (stable + 1) /\ EdgeRate * Settle \in Nat
    <3>1. stable + 1 \in Nat
      BY <2>1
    <3>2. QED
      BY <2>1, <2>4, <3>1, Times, TimesMonotone, Constants
  <2>7. QED
    BY <2>1, <2>4, <2>5, <2>6, Constants
<1>2. CASE Generator \/ GetAddress \/ NoAddress \/ SendFails \/ GeneratorDies
  <2>1. gen \notin {"done", "dead"} /\ script' = script
    BY <1>2 DEF Generator, GetAddress, StartJob, EndManifest, SendPacket, CanRead, EndReplay, CompleteJob,
       CompleteRaises, NoAddress, SendFails, GeneratorDies, scriptVars
  <2>2. QED
    BY <2>1, ScriptWaits DEF SettledInv, Archived
<1>3. CASE WaitEnds \/ SettleRound
  BY <1>3 DEF WaitEnds, SettleRound, SettledInv, Archived
<1>4. CASE Receive \/ Lose \/ PacketFails
  <2>1. UNCHANGED scriptVars /\ link # <<>> /\ (missing' = {} => missing = {})
    <3>1. CASE Receive \/ Lose
      BY <3>1 DEF Receive, Lose
    <3>2. CASE PacketFails
      <4>1. missing' # {}
        BY <3>2, FailedRows
      <4>2. QED
        BY <3>2, <4>1 DEF PacketFails
    <3>3. QED
      BY <1>4, <3>1, <3>2
  <2>2. QED
    BY <2>1 DEF SettledInv, Archived, scriptVars
<1>5. CASE Expire \/ Age \/ RestartEdge \/ RemoveContainers \/ UNCHANGED vars
  <2>1. /\ UNCHANGED <<link, items, archive, stable>> /\ (missing' = {} => missing = {})
        /\ script' = script \/ script = "archived"
    <3>1. CASE Expire \/ Age \/ RestartEdge
      BY <3>1 DEF Expire, Age, RestartEdge, edgeVars, scriptVars
    <3>2. CASE RemoveContainers \/ UNCHANGED vars
      BY <3>2 DEF RemoveContainers, vars, edgeVars, scriptVars
    <3>3. QED
      BY <1>5, <3>1, <3>2
  <2>2. QED
    BY <2>1 DEF SettledInv, Archived
<1>6. QED
  BY <1>1, <1>2, <1>3, <1>4, <1>5 DEF Next, Script, Troubles

\* A long job without a row would have its end in the tunnel.
LEMMA Settled ==
  TypeOK /\ ScriptInv /\ QueueInv /\ SettledInv => SettledIsComplete
<1>1. ASSUME SmallWindow <= EdgeRate * Settle, missing = {}, Archived, stable >= Settle, SettledInv
      PROVE  link = <<>> /\ items = archive.items
  BY <1>1 DEF SettledInv
<1> SUFFICES ASSUME TypeOK, ScriptInv, QueueInv, SettledInv, SmallWindow <= EdgeRate * Settle, missing = {},
                    Archived, stable >= Settle
             PROVE  \A flow \in Missed(items, truth) : Index(truth)[flow].read < 2 * SmallWindow - 1
  BY <1>1 DEF SettledIsComplete, ScriptInv, ArchiveIsOfLogs
<1>2. ASSUME NEW flow \in Missed(items, truth) PROVE ~ HasRow(flow) /\ \E i \in DOMAIN truth :
        Index(truth)[flow] = truth[i] /\ truth[i].flow = flow /\ truth[i].status = "completed"
  <2>1. flow \in GroundTruth(truth) /\ flow \notin InResults(items, truth)
    BY <1>2 DEF Missed
  <2>2. Completed(truth, flow) # {} /\ flow \in FlowsOf(truth)
    BY <2>1 DEF GroundTruth, Completed, Records, FlowsOf
  <2>3. truth \in Seq(RecordType)
    BY DEF TypeOK
  <2>4. PICK i \in Completed(truth, flow) : Index(truth)[flow] = truth[i]
    BY <2>2, <2>3, IndexIsOfLog
  <2>5. ASSUME NEW k \in DOMAIN items, items[k].flow = flow PROVE FALSE
    <3>1. k \in DOMAIN Joined(items, truth)
      BY <2>2, <2>5 DEF Joined, Index
    <3>2. QED
      BY <2>1, <2>5, <3>1 DEF InResults
  <2>6. QED
    BY <2>4, <2>5 DEF HasRow, Completed, Records
<1>3. ASSUME NEW flow \in Missed(items, truth) PROVE Index(truth)[flow].read < 2 * SmallWindow - 1
  <2>1. PICK i \in DOMAIN truth :
          Index(truth)[flow] = truth[i] /\ truth[i].flow = flow /\ truth[i].status = "completed"
    BY <1>2, <1>3
  <2>2. truth[i].read \in Nat
    <3>1. truth[i] \in RecordType
      BY <2>1 DEF TypeOK
    <3>2. QED
      BY <3>1 DEF RecordType
  <2>3. ASSUME Long(truth[i].read) PROVE FALSE
    <3>1. Served(flow)
      BY <2>1, <2>3 DEF QueueInv
    <3>2. PICK e \in DOMAIN Queue : Queue[e].flow = flow /\ Queue[e].id >= 2 * SmallWindow - 2
      BY <1>2, <1>3, <3>1 DEF Served
    <3>3. e >= SmallWindow
      BY <1>2, <1>3, <3>2, FarEnd DEF QueueInv
    <3>4. DOMAIN Queue = 1..Len(Queue) /\ Len(Queue) = Len(open[SmallWindow]) + Len(link)
          /\ Len(open[SmallWindow]) \in Nat /\ Len(open[SmallWindow]) < SmallWindow
      BY QueueTypes
    <3>5. Len(link) = 0
      BY <1>1
    <3>6. QED
      BY <3>2, <3>3, <3>4, <3>5, Constants
  <2>4. QED
    BY <2>1, <2>2, <2>3, Constants DEF Long
<1>4. QED
  BY <1>3
------------------------------------------------------------------------------
(* The theorems.                                                           *)

LEMMA Inductive == Spec => []IInv
<1>1. Init => IInv
  BY InitType, InitTruth, InitScript, InitPackets, InitPace, InitQueue, InitSettled DEF IInv
<1>2. IInv /\ [Next]_vars => IInv'
  BY NextType, NextTruth, NextScript, NextPackets, NextPace, NextQueue, NextSettled DEF IInv
<1>3. QED
  BY <1>1, <1>2, PTL DEF Spec

\* Every variable keeps its type, and no window is full and open.
THEOREM TypesHold == Spec => []TypeOK
<1>1. IInv => TypeOK
  BY DEF IInv
<1>2. QED
  BY <1>1, Inductive, PTL

\* While the generator replays a job, /api/current_replay shows that job and no
\* other, and between the jobs it shows none, whatever the manifest repeats.
THEOREM RunningJobIsShown == Spec => []ShowsTheRunningJob
<1>1. IInv => ShowsTheRunningJob
  BY Shows DEF IInv
<1>2. QED
  BY <1>1, Inductive, PTL

\* A packet that a completed job has read and that the joined rows do not count
\* is missing, on its way, or in a window that has packets of another job too.
THEOREM RecallAlwaysExplained == Spec => []RecallIsExplained
<1>1. IInv => RecallIsExplained
  BY Recall DEF IInv
<1>2. QED
  BY <1>1, Inductive, PTL

\* The rows of the archive have the completed record of their job, but for those
\* of the job that the generator died in.
THEOREM ArchiveAlwaysHasTheJobs == Spec => []ArchiveHasTheJobs
<1>1. IInv => ArchiveHasTheJobs
  BY ArchiveJobs DEF IInv
<1>2. QED
  BY <1>1, Inductive, PTL

\* If the edge node gets through a small window of packets while the logs settle
\* and nothing gets lost, logs that have settled are complete: nothing is in the
\* tunnel, no row comes after the archive, and every job of at least
\* 2 * SmallWindow - 1 packets has a row of its own.
THEOREM SettledLogsAreComplete == Spec => []SettledIsComplete
<1>1. IInv => SettledIsComplete
  BY Settled DEF IInv
<1>2. QED
  BY <1>1, Inductive, PTL
==============================================================================
