------------------------- MODULE CustodyChain_proofs -------------------------
(***************************************************************************)
(* What TLAPS proves of CustodyChain for any number of processes, entries, *)
(* kills, failed writes and power losses: typing, the chain, the anchors   *)
(* and their cadence, the one key, that the files implement the abstract   *)
(* custody log, and the bound on what failed writes damage.                *)
(***************************************************************************)
EXTENDS CustodyChain, FiniteSetTheorems, TLAPS

USE ProcAssumption, AnchorAssumption, KeyAssumption

\* Appending to a sequence keeps its elements and adds one.
LEMMA AppendFacts ==
  ASSUME NEW S, NEW s \in Seq(S), NEW e \in S
  PROVE  /\ Append(s, e) \in Seq(S)
         /\ Len(Append(s, e)) = Len(s) + 1
         /\ Len(s) \in Nat
         /\ \A i \in 1..Len(s) : Append(s, e)[i] = s[i]
         /\ Append(s, e)[Len(s) + 1] = e
OBVIOUS

\* A prefix of a sequence has its elements.
LEMMA PrefixFacts ==
  ASSUME NEW S, NEW s \in Seq(S), NEW n \in 0..Len(s)
  PROVE  /\ SubSeq(s, 1, n) \in Seq(S)
         /\ Len(SubSeq(s, 1, n)) = n
         /\ n \in Nat /\ Len(s) \in Nat
         /\ \A i \in 1..n : SubSeq(s, 1, n)[i] = s[i]
OBVIOUS

\* get_previous_hash answers with the hash of an entry or with Genesis.
LEMMA HeadType ==
  ASSUME NEW lines \in Seq(Line), NEW unfinished
  PROVE  HeadOf(lines, unfinished) \in Nat
<1>1. CASE unfinished \/ lines = <<>>
  BY <1>1 DEF HeadOf, Genesis
<1>2. CASE ~ (unfinished \/ lines = <<>>)
  <2>1. lines[Len(lines)] \in Line
    BY <1>2
  <2>2. QED
    BY <1>2, <2>1 DEF HeadOf, Line
<1>3. QED
  BY <1>1, <1>2

LEMMA DamagedType == Damaged \in Line /\ Damaged.id = 0
BY DEF Damaged, Line, Genesis, NoKey

CallType == [call : {"none", "preserve", "anchor", "export"}, prev : Nat, sig : Nat,
             count : Nat, head : Nat]

LEMMA NoCallType == NoCall \in CallType /\ NoCall.call = "none"
BY DEF NoCall, CallType, Genesis, NoKey
------------------------------------------------------------------------------
\* Typing is an invariant of the custody log's processes (TypeOK).
THEOREM CustodyTypeCorrect == Spec => []TypeOK
<1>1. Init => TypeOK
  <2> SUFFICES ASSUME Init PROVE TypeOK
    OBVIOUS
  <2>1. mem \in [Procs -> CallType]
    BY NoCallType DEF Init
  <2>2. log \in Seq(Line) /\ Len(log) = 0 /\ synced \in 0..Len(log) /\ anchors \in Seq(AnchorRecord)
    BY DEF Init
  <2>3. QED
    BY <2>1, <2>2 DEF Init, TypeOK, CallType, Points, NoKey, Absent
<1>2. TypeOK /\ [Next]_vars => TypeOK'
  <2> SUFFICES ASSUME TypeOK, [Next]_vars PROVE TypeOK'
    OBVIOUS
  <2>1. /\ pc \in [Procs -> Points]
        /\ mem \in [Procs -> CallType]
        /\ cache \in [Procs -> Nat]
        /\ lock \in Procs \cup {NoProc}
        /\ log \in Seq(Line) /\ torn \in BOOLEAN
        /\ synced \in 0..Len(log)
        /\ anchors \in Seq(AnchorRecord)
        /\ keyFile \in Nat \cup {Absent} /\ keyDurable \in BOOLEAN
        /\ published \in Nat /\ minted \in Nat
        /\ written \in Nat /\ asked \in Nat /\ kills \in Nat /\ tears \in Nat /\ losses \in Nat
        /\ missed \in BOOLEAN /\ overtaken \in BOOLEAN
    BY DEF TypeOK, CallType
  <2>2. ASSUME /\ pc' \in [Procs -> Points]
               /\ mem' \in [Procs -> CallType]
               /\ cache' \in [Procs -> Nat]
               /\ lock' \in Procs \cup {NoProc}
               /\ log' \in Seq(Line) /\ torn' \in BOOLEAN
               /\ synced' \in 0..Len(log')
               /\ anchors' \in Seq(AnchorRecord)
               /\ keyFile' \in Nat \cup {Absent} /\ keyDurable' \in BOOLEAN
               /\ published' \in Nat /\ minted' \in Nat
               /\ written' \in Nat /\ asked' \in Nat
               /\ kills' \in Nat /\ tears' \in Nat /\ losses' \in Nat
               /\ missed' \in BOOLEAN /\ overtaken' \in BOOLEAN
        PROVE  TypeOK'
    BY <2>2 DEF TypeOK, CallType
  <2>3. ASSUME NEW p \in Procs, Leave(p)
        PROVE  pc' \in [Procs -> Points] /\ mem' \in [Procs -> CallType]
    BY <2>3, <2>1, NoCallType DEF Leave, Goto, Points
  <2>4. ASSUME NEW p \in Procs, NEW call \in {"preserve", "anchor", "export"},
               NEW point \in Points, Begin(p, call, point)
        PROVE  pc' \in [Procs -> Points] /\ mem' \in [Procs -> CallType]
    BY <2>4, <2>1, NoCallType DEF Begin, Goto, CallType
  <2>5. ASSUME NEW p \in Procs, NEW k \in Nat, UseKey(p, k)
        PROVE  pc' \in [Procs -> Points] /\ mem' \in [Procs -> CallType] /\ published' \in Nat
    <3>1. CASE published' = k /\ Leave(p)
      BY <2>3, <3>1
    <3>2. CASE /\ mem' = [mem EXCEPT ![p].sig = k]
               /\ Goto(p, IF mem[p].call = "preserve" THEN "append" ELSE "record")
               /\ UNCHANGED published
      BY <2>1, <3>2 DEF Goto, Points, CallType
    <3>3. QED
      BY <2>5, <3>1, <3>2 DEF UseKey
  <2>6. ASSUME NEW p \in Procs, KeyFails(p)
        PROVE  pc' \in [Procs -> Points] /\ mem' \in [Procs -> CallType] /\ missed' \in BOOLEAN
    <3>1. CASE Goto(p, "append") /\ UNCHANGED <<mem, missed>>
      BY <2>1, <3>1 DEF Goto, Points
    <3>2. CASE Leave(p) /\ missed' = (missed \/ mem[p].call = "anchor")
      BY <2>3, <3>2
    <3>3. QED
      BY <2>6, <3>1, <3>2 DEF KeyFails
  <2> USE DEF file, keys, bounds
  <2>7. ASSUME NEW p \in Procs, Call(p) PROVE TypeOK'
    <3>1. pc' \in [Procs -> Points] /\ mem' \in [Procs -> CallType]
      BY <2>7, <2>4 DEF Call, StartPreserve, StartAnchor, StartExport, Points
    <3>2. asked' \in Nat
      BY <2>7, <2>1, SMTT(30) DEF Call, StartPreserve, StartAnchor, StartExport
    <3>3. UNCHANGED <<lock, file, keys, written, kills, tears, losses, missed, overtaken>>
      BY <2>7 DEF Call, StartPreserve, StartAnchor, StartExport
    <3>4. QED
      BY <2>1, <2>2, <3>1, <3>2, <3>3
  <2>8. ASSUME NEW p \in Procs, Lock(p) \/ FsyncEntry(p) \/ FsyncLog(p) PROVE TypeOK'
    <3>1. pc' \in [Procs -> Points]
      BY <2>8, <2>1 DEF Lock, FsyncEntry, FsyncLog, Goto, Points
    <3>2. CASE Lock(p)
      BY <2>1, <2>2, <3>1, <3>2 DEF Lock
    <3>3. CASE FsyncEntry(p) \/ FsyncLog(p)
      <4>1. log' = log /\ synced' = Len(log) /\ Len(log) \in Nat
        BY <2>1, <3>3 DEF FsyncEntry, FsyncLog
      <4>2. synced' \in 0..Len(log')
        BY <4>1
      <4>3. QED
        BY <2>1, <2>2, <3>1, <3>3, <4>1, <4>2 DEF FsyncEntry, FsyncLog
    <3>4. QED
      BY <2>8, <3>2, <3>3
  <2>9. ASSUME NEW p \in Procs, GetPreviousHash(p) PROVE TypeOK'
    <3>1. mem' \in [Procs -> CallType]
      BY <2>9, <2>1, HeadType DEF GetPreviousHash, CallType
    <3>2. QED
      BY <2>9, <2>1, <2>2, <3>1 DEF GetPreviousHash, Goto, Points
  <2>10. ASSUME NEW p \in Procs, AppendEntry(p) PROVE TypeOK'
    <3> DEFINE e == IF torn THEN Damaged
                    ELSE [id |-> written + 1, prev |-> mem[p].prev, sig |-> mem[p].sig]
    <3>1. e \in Line
      BY <2>1, DamagedType DEF Line, CallType
    <3>2. log' = Append(log, e)
      BY <2>10 DEF AppendEntry
    <3> HIDE DEF e
    <3>3. log' \in Seq(Line) /\ synced \in 0..Len(log')
      BY <2>1, <3>1, <3>2, AppendFacts
    <3>4. pc' \in [Procs -> Points]
      BY <2>10, <2>1 DEF AppendEntry, Goto, Points
    <3>5. written' \in Nat /\ torn' = FALSE /\ overtaken' \in BOOLEAN
      <4>1. overtaken' = (overtaken \/ \E q \in Procs : pc[q] = "entries")
        BY <2>10 DEF AppendEntry
      <4>2. overtaken' \in BOOLEAN
        BY <2>1, <4>1, Zenon
      <4>3. written' \in Nat /\ torn' = FALSE
        BY <2>10, <2>1 DEF AppendEntry
      <4>4. QED
        BY <4>2, <4>3
    <3>6. UNCHANGED <<mem, lock, synced, anchors, keys, asked, kills, tears, losses, missed>>
      BY <2>10 DEF AppendEntry
    <3>7. QED
      BY <2>1, <2>2, <3>3, <3>4, <3>5, <3>6
  <2>11. ASSUME NEW p \in Procs, AppendFails(p) PROVE TypeOK'
    <3>1. pc' \in [Procs -> Points] /\ mem' \in [Procs -> CallType]
      BY <2>11, <2>3 DEF AppendFails
    <3>2. tears' \in Nat /\ lock' = NoProc
      BY <2>11, <2>1 DEF AppendFails
    <3>3. torn' \in BOOLEAN
      BY <2>11, <2>1, Zenon DEF AppendFails
    <3>4. UNCHANGED <<log, synced, anchors, keys, written, asked, kills, losses, missed, overtaken>>
      BY <2>11 DEF AppendFails
    <3>5. QED
      BY <2>1, <2>2, <3>1, <3>2, <3>3, <3>4
  <2>12. ASSUME NEW p \in Procs, CountAndUnlock(p) PROVE TypeOK'
    <3>1. CASE Leave(p)
      BY <2>12, <2>1, <2>2, <2>3, <3>1 DEF CountAndUnlock
    <3>2. CASE /\ Goto(p, "fsync")
               /\ mem' = [mem EXCEPT ![p] = [NoCall EXCEPT !.call = "anchor"]]
      <4>1. pc' \in [Procs -> Points]
        BY <2>1, <3>2 DEF Goto, Points
      <4>2. mem' \in [Procs -> CallType]
        BY <2>1, <3>2, NoCallType DEF CallType
      <4>3. QED
        BY <2>12, <2>1, <2>2, <4>1, <4>2 DEF CountAndUnlock
    <3>3. QED
      BY <2>12, <3>1, <3>2 DEF CountAndUnlock
  <2>13. ASSUME NEW p \in Procs, ReadEntries(p) PROVE TypeOK'
    <3>1. CASE Leave(p)
      BY <2>13, <2>1, <2>2, <2>3, <3>1 DEF ReadEntries
    <3>2. CASE /\ log # <<>>
               /\ mem' = [mem EXCEPT ![p].count = Len(log), ![p].head = log[Len(log)].id]
               /\ Goto(p, "key")
      <4>1. log[Len(log)].id \in Nat /\ Len(log) \in Nat
        <5>1. log[Len(log)] \in Line /\ Len(log) \in Nat
          BY <2>1, <3>2
        <5>2. QED
          BY <5>1 DEF Line
      <4>2. pc' \in [Procs -> Points] /\ mem' \in [Procs -> CallType]
        <5>1. pc' \in [Procs -> Points]
          BY <2>1, <3>2 DEF Goto, Points
        <5>2. mem' \in [Procs -> CallType]
          BY <2>1, <3>2, <4>1, ZenonT(30) DEF CallType
        <5>3. QED
          BY <5>1, <5>2
      <4>3. QED
        BY <2>13, <2>1, <2>2, <4>2 DEF ReadEntries
    <3>3. QED
      BY <2>13, <3>1, <3>2 DEF ReadEntries
  <2>14. ASSUME NEW p \in Procs, AppendAnchor(p) PROVE TypeOK'
    <3> DEFINE a == [count |-> mem[p].count, head |-> mem[p].head, sig |-> mem[p].sig]
    <3>1. a \in AnchorRecord /\ anchors' = Append(anchors, a)
      BY <2>14, <2>1 DEF AppendAnchor, AnchorRecord, CallType
    <3> HIDE DEF a
    <3>2. anchors' \in Seq(AnchorRecord)
      BY <2>1, <3>1, AppendFacts
    <3>3. QED
      BY <2>14, <2>1, <2>2, <2>3, <3>2 DEF AppendAnchor
  <2>15. ASSUME NEW p \in Procs, LoadKey(p) PROVE TypeOK'
    <3>1. CASE /\ cache[p] # NoKey
               /\ UseKey(p, cache[p])
               /\ UNCHANGED <<cache, missed>>
      BY <2>15, <2>1, <2>2, <2>5, <3>1 DEF LoadKey
    <3>2. CASE /\ keyFile \notin {Absent, Empty}
               /\ cache' = [cache EXCEPT ![p] = keyFile]
               /\ UseKey(p, keyFile)
               /\ UNCHANGED missed
      BY <2>15, <2>1, <2>2, <2>5, <3>2 DEF LoadKey
    <3>3. CASE KeyFails(p) /\ UNCHANGED <<cache, published>>
      BY <2>15, <2>1, <2>2, <2>6, <3>3 DEF LoadKey
    <3>4. CASE Goto(p, "create") /\ UNCHANGED <<mem, cache, published, missed>>
      BY <2>15, <2>1, <2>2, <3>4 DEF LoadKey, Goto, Points
    <3>5. QED
      BY <2>15, <3>1, <3>2, <3>3, <3>4 DEF LoadKey
  <2>16. ASSUME NEW p \in Procs, CreateKeyFile(p) PROVE TypeOK'
    <3>1. CASE /\ keyFile' = Empty /\ keyDurable' = FALSE
               /\ Goto(p, "generated")
               /\ UNCHANGED <<mem, missed>>
      BY <2>16, <2>1, <2>2, <3>1 DEF CreateKeyFile, Goto, Points, Empty
    <3>2. CASE KeyFails(p) /\ UNCHANGED <<keyFile, keyDurable>>
      BY <2>16, <2>1, <2>2, <2>6, <3>2 DEF CreateKeyFile
    <3>3. QED
      BY <2>16, <3>1, <3>2 DEF CreateKeyFile
  <2>17. ASSUME NEW p \in Procs, WriteKey(p) PROVE TypeOK'
    BY <2>17, <2>1, <2>2, <2>5 DEF WriteKey
  <2>18. ASSUME NEW p \in Procs, Kill(p) PROVE TypeOK'
    BY <2>18, <2>1, <2>2, <2>3 DEF Kill, NoKey
  <2>19. ASSUME Writeback PROVE TypeOK'
    BY <2>19, <2>1, <2>2 DEF Writeback
  <2>20. ASSUME PowerLoss PROVE TypeOK'
    <3>1. log' \in Seq(Line) /\ synced' \in 0..Len(log') /\ torn' \in BOOLEAN
      <4>1. PICK n \in synced..Len(log) :
              /\ log' = SubSeq(log, 1, n)
              /\ torn' \in IF n < Len(log) \/ torn THEN BOOLEAN ELSE {FALSE}
              /\ synced' = n
        BY <2>20 DEF PowerLoss
      <4>2. n \in 0..Len(log)
        BY <2>1
      <4>3. log' \in Seq(Line) /\ Len(log') = n /\ n \in Nat
        BY <2>1, <4>1, <4>2, PrefixFacts
      <4>4. torn' \in BOOLEAN
        BY <4>1, Zenon
      <4>5. QED
        BY <4>1, <4>3, <4>4
    <3>2. mem' \in [Procs -> CallType]
      BY <2>20, NoCallType DEF PowerLoss
    <3>3. QED
      BY <2>20, <2>1, <2>2, <3>1, <3>2 DEF PowerLoss, Points, NoKey, Empty
  <2>21. CASE UNCHANGED vars
    BY <2>21, <2>1, <2>2 DEF vars
  <2>22. QED
    BY <2>7, <2>8, <2>9, <2>10, <2>11, <2>12, <2>13, <2>14, <2>15, <2>16, <2>17, <2>18, <2>19, <2>20,
       <2>21
       DEF Next, Step
<1>3. QED
  BY <1>1, <1>2, PTL DEF Spec
------------------------------------------------------------------------------
(* The inductive invariant behind Chained.                                 *)

KeyPoints == {"key", "create", "generated"}

\* p is in preserve_bundle, past the wait for the lock.
Preserving(p) == mem[p].call = "preserve" /\ pc[p] # "lock"

CallOfPoint(p) ==
  /\ pc[p] = "idle" => mem[p].call = "none"
  /\ pc[p] \in {"lock", "previous", "append", "sync", "count"} => mem[p].call = "preserve"
  /\ pc[p] \in {"fsync", "entries", "record"} => mem[p].call = "anchor"
  /\ pc[p] \in KeyPoints => mem[p].call # "none"

LockHeld(p) == Preserving(p) => lock = p

\* The previous hash read under the lock is still the head of the log.
PreviousIsHead(p) ==
  (mem[p].call = "preserve" /\ pc[p] \in KeyPoints \cup {"append"})
    => mem[p].prev = HeadOf(log, torn)

\* The head an anchor was read from is still in the log, which was readable up to it.
HeadInLog(p) ==
  (mem[p].call = "anchor" /\ pc[p] \in KeyPoints \cup {"record"}) =>
    /\ mem[p].count \in 1..Len(log)
    /\ log[mem[p].count].id = mem[p].head
    /\ \A i \in 1..mem[p].count : log[i] # Damaged

ProcInv(p) == CallOfPoint(p) /\ LockHeld(p) /\ PreviousIsHead(p) /\ HeadInLog(p)

HashesUsed == \A i \in 1..Len(log) : log[i] # Damaged => log[i].id \in 1..written

LogInv == HashesUsed /\ Chained

IInv == (\A p \in Procs : ProcInv(p)) /\ LogInv

\* What the steps need of the types.
LEMMA Types ==
  ASSUME TypeOK
  PROVE  /\ pc \in [Procs -> Points] /\ mem \in [Procs -> CallType]
         /\ log \in Seq(Line) /\ Len(log) \in Nat /\ written \in Nat /\ losses \in Nat
         /\ anchors \in Seq(AnchorRecord) /\ Len(anchors) \in Nat
         /\ \A i \in 1..Len(log) : log[i] \in Line
         /\ synced \in 0..Len(log)
BY DEF TypeOK, CallType

\* A step of p that leaves the log as it is, or holds the lock and only adds to
\* the log, does not disturb another process.
LEMMA OthersKeep ==
  ASSUME NEW p \in Procs, NEW q \in Procs \ {p}, TypeOK, ProcInv(q),
         pc'[q] = pc[q], mem'[q] = mem[q],
         Len(log') \in Nat, Len(log) <= Len(log'),
         \A i \in 1..Len(log) : log'[i] = log[i],
         UNCHANGED <<log, torn>> \/ lock = p,
         lock' = lock \/ lock = NoProc \/ lock = p
  PROVE  ProcInv(q)'
<1>1. Len(log) \in Nat /\ mem[q].count \in Nat
  BY Types DEF CallType
<1>2. CallOfPoint(q)'
  BY DEF ProcInv, CallOfPoint
<1>3. LockHeld(q)'
  BY DEF ProcInv, LockHeld, Preserving
<1>4. PreviousIsHead(q)'
  <2>1. CASE lock = p
    BY <2>1 DEF ProcInv, PreviousIsHead, LockHeld, Preserving, KeyPoints
  <2>2. CASE UNCHANGED <<log, torn>>
    BY <2>2 DEF ProcInv, PreviousIsHead
  <2>3. QED
    BY <2>1, <2>2
<1>5. HeadInLog(q)'
  <2> SUFFICES ASSUME mem[q].call = "anchor", pc[q] \in KeyPoints \cup {"record"}
               PROVE  HeadInLog(q)'
    BY DEF HeadInLog
  <2>1. /\ mem[q].count \in 1..Len(log)
        /\ log[mem[q].count].id = mem[q].head
        /\ \A i \in 1..mem[q].count : log[i] # Damaged
    BY DEF ProcInv, HeadInLog
  <2>2. mem[q].count \in 1..Len(log') /\ \A i \in 1..mem[q].count : i \in 1..Len(log)
    BY <1>1, <2>1
  <2>3. QED
    BY <2>1, <2>2 DEF HeadInLog
<1>6. QED
  BY <1>2, <1>3, <1>4, <1>5 DEF ProcInv

\* A process outside of any call satisfies its part of the invariant.
LEMMA IdleInv ==
  ASSUME NEW p, pc'[p] = "idle", mem'[p] = NoCall
  PROVE  ProcInv(p)'
BY NoCallType DEF ProcInv, CallOfPoint, LockHeld, PreviousIsHead, HeadInLog, Preserving, KeyPoints

\* Leave makes a process idle, and no other step but its own changes it.
LEMMA LeaveEffect ==
  ASSUME TypeOK, NEW p \in Procs, Leave(p)
  PROVE  /\ ProcInv(p)' /\ pc'[p] = "idle" /\ mem'[p] = NoCall
         /\ \A q \in Procs \ {p} : pc'[q] = pc[q] /\ mem'[q] = mem[q]
<1>1. pc'[p] = "idle" /\ mem'[p] = NoCall
  BY Types DEF Leave, Goto
<1>2. \A q \in Procs \ {p} : pc'[q] = pc[q] /\ mem'[q] = mem[q]
  BY Types DEF Leave, Goto
<1>3. QED
  BY <1>1, <1>2, IdleInv

\* What a step of _load_or_create_key does to the call it is made for.
LEMMA KeyStep ==
  ASSUME TypeOK, NEW p \in Procs, ProcInv(p),
         LoadKey(p) \/ CreateKeyFile(p) \/ WriteKey(p)
  PROVE  /\ UNCHANGED <<log, torn, anchors, lock, written>>
         /\ \A q \in Procs \ {p} : pc'[q] = pc[q] /\ mem'[q] = mem[q]
         /\ ProcInv(p)'
         /\ pc[p] \in KeyPoints /\ pc'[p] # "entries"
         /\ mem'[p].call = "anchor" => mem[p].call = "anchor" /\ mem'[p].count = mem[p].count
<1>1. pc[p] \in KeyPoints
  BY DEF LoadKey, CreateKeyFile, WriteKey, KeyPoints
<1>2. UNCHANGED <<log, torn, anchors, lock, written>>
  BY DEF LoadKey, CreateKeyFile, WriteKey, file, bounds
<1>3. \/ Leave(p)
      \/ /\ \/ pc' = [pc EXCEPT ![p] = "append"] /\ mem[p].call = "preserve"
            \/ pc' = [pc EXCEPT ![p] = "record"] /\ mem[p].call \notin {"preserve", "export"}
            \/ pc' = [pc EXCEPT ![p] = "create"]
            \/ pc' = [pc EXCEPT ![p] = "generated"]
         /\ mem' = mem \/ \E k : mem' = [mem EXCEPT ![p].sig = k]
  <2>1. ASSUME NEW k, UseKey(p, k)
        PROVE  \/ Leave(p)
               \/ /\ \/ pc' = [pc EXCEPT ![p] = "append"] /\ mem[p].call = "preserve"
                     \/ /\ pc' = [pc EXCEPT ![p] = "record"]
                        /\ mem[p].call \notin {"preserve", "export"}
                  /\ mem' = [mem EXCEPT ![p].sig = k]
    BY <2>1 DEF UseKey, Goto
  <2>2. ASSUME KeyFails(p)
        PROVE  \/ Leave(p)
               \/ pc' = [pc EXCEPT ![p] = "append"] /\ mem[p].call = "preserve" /\ mem' = mem
    BY <2>2 DEF KeyFails, Goto
  <2>3. CASE LoadKey(p)
    BY <2>1, <2>2, <2>3 DEF LoadKey, Goto
  <2>4. CASE CreateKeyFile(p)
    BY <2>2, <2>4 DEF CreateKeyFile, Goto
  <2>5. CASE WriteKey(p)
    BY <2>1, <2>5 DEF WriteKey
  <2>6. QED
    BY <2>3, <2>4, <2>5
<1>4. CASE Leave(p)
  BY <1>2, <1>4, <1>1, LeaveEffect, NoCallType
<1>5. CASE ~ Leave(p)
  <2>1. /\ mem'[p].call = mem[p].call /\ mem'[p].prev = mem[p].prev
        /\ mem'[p].count = mem[p].count /\ mem'[p].head = mem[p].head
        /\ \A q \in Procs \ {p} : mem'[q] = mem[q]
    BY <1>3, <1>5, Types DEF CallType
  <2>2. /\ \A q \in Procs \ {p} : pc'[q] = pc[q]
        /\ \/ pc'[p] = "append" /\ mem[p].call = "preserve"
           \/ pc'[p] = "record" /\ mem[p].call \notin {"preserve", "export"}
           \/ pc'[p] \in {"create", "generated"}
    BY <1>3, <1>5, Types
  <2>3. mem[p].call \in {"preserve", "anchor", "export"}
    BY <1>1, Types DEF ProcInv, CallOfPoint, CallType
  <2>4. CallOfPoint(p)' /\ LockHeld(p)'
    BY <1>2, <1>1, <2>1, <2>2, <2>3 DEF ProcInv, CallOfPoint, LockHeld, Preserving, KeyPoints
  <2>5. PreviousIsHead(p)'
    BY <1>2, <1>1, <2>1, <2>2 DEF ProcInv, PreviousIsHead, KeyPoints
  <2>6. HeadInLog(p)'
    BY <1>2, <1>1, <2>1, <2>2 DEF ProcInv, HeadInLog, KeyPoints
  <2>7. QED
    BY <1>2, <1>1, <2>1, <2>2, <2>4, <2>5, <2>6 DEF ProcInv
<1>6. QED
  BY <1>4, <1>5

\* A step that leaves the log and the anchors alone does not disturb them.
LEMMA LogKeeps ==
  ASSUME LogInv, UNCHANGED <<log, anchors, written>>
  PROVE  LogInv'
BY DEF LogInv, HashesUsed, Chained

\* A step of p alone that leaves log, torn and anchors alone: p's own part of
\* the invariant is all there is to show.
LEMMA QuietStep ==
  ASSUME TypeOK, IInv, NEW p \in Procs, ProcInv(p)',
         UNCHANGED <<log, torn, anchors, written>>,
         \A q \in Procs \ {p} : pc'[q] = pc[q] /\ mem'[q] = mem[q],
         lock' = lock \/ lock = NoProc \/ lock = p
  PROVE  IInv'
<1>1. LogInv'
  BY LogKeeps DEF IInv
<1>2. ASSUME NEW q \in Procs PROVE ProcInv(q)'
  <2>1. CASE q = p
    BY <2>1
  <2>2. CASE q # p
    <3>1. Len(log') \in Nat /\ Len(log) <= Len(log') /\ \A i \in 1..Len(log) : log'[i] = log[i]
      BY Types
    <3>2. ProcInv(q)
      BY DEF IInv
    <3>3. pc'[q] = pc[q] /\ mem'[q] = mem[q] /\ q \in Procs \ {p}
      BY <2>2
    <3>4. QED
      BY <3>1, <3>2, <3>3, OthersKeep
  <2>3. QED
    BY <2>1, <2>2
<1>3. QED
  BY <1>1, <1>2 DEF IInv

\* An entry is added by the holder of the lock.
LEMMA AppendKeepsInv ==
  ASSUME TypeOK, IInv, NEW p \in Procs, AppendEntry(p)
  PROVE  IInv'
<1> DEFINE e == IF torn THEN Damaged
                ELSE [id |-> written + 1, prev |-> mem[p].prev, sig |-> mem[p].sig]
<1>1. /\ pc[p] = "append" /\ written' = written + 1 /\ torn' = FALSE
      /\ log' = Append(log, e)
      /\ UNCHANGED <<mem, lock, anchors>>
      /\ pc' = [pc EXCEPT ![p] = IF CustodyFsync THEN "sync" ELSE "count"]
  BY DEF AppendEntry, Goto
<1>2. /\ Len(log) \in Nat /\ written \in Nat /\ log \in Seq(Line)
      /\ mem[p] \in CallType /\ \A i \in 1..Len(log) : log[i] \in Line
  BY Types
<1>3. e \in Line
  BY <1>2, DamagedType DEF Line, CallType
<1>4. /\ torn => e = Damaged
      /\ ~ torn => e.id = written + 1 /\ e.prev = mem[p].prev
  OBVIOUS
<1> HIDE DEF e
<1>5. /\ Len(log') = Len(log) + 1
      /\ \A i \in 1..Len(log) : log'[i] = log[i]
      /\ log'[Len(log) + 1] = e
  BY <1>1, <1>3, <1>2, AppendFacts
<1>6. /\ mem[p].call = "preserve" /\ lock = p
      /\ mem[p].prev = HeadOf(log, torn)
  BY <1>1 DEF IInv, ProcInv, CallOfPoint, LockHeld, PreviousIsHead, Preserving
<1>7. HashesUsed /\ Chained
  BY DEF IInv, LogInv
<1>8. HashesUsed'
  <2> SUFFICES ASSUME NEW i \in 1..Len(log'), log'[i] # Damaged PROVE log'[i].id \in 1..written'
    BY DEF HashesUsed
  <2>1. CASE i \in 1..Len(log)
    BY <1>2, <1>1, <1>5, <1>7, <2>1 DEF HashesUsed
  <2>2. CASE i = Len(log) + 1
    BY <1>2, <1>1, <1>4, <1>5, <2>2
  <2>3. QED
    BY <1>2, <1>5, <2>1, <2>2
<1>9. Chained'
  <2>1. DOMAIN log = 1..Len(log) /\ DOMAIN log' = 1..Len(log')
    BY <1>2, <1>1, <1>3, AppendFacts
  <2>2. ASSUME NEW i \in 1..Len(log'), log'[i] # Damaged
        PROVE  log'[i].prev = IF i = 1 THEN Genesis ELSE log'[i - 1].id
    <3>1. CASE i \in 1..Len(log)
      <4>1. log[i].prev = IF i = 1 THEN Genesis ELSE log[i - 1].id
        BY <1>5, <1>7, <2>2, <2>1, <3>1 DEF Chained
      <4>2. i # 1 => log'[i - 1] = log[i - 1]
        BY <1>2, <1>5, <3>1
      <4>3. QED
        BY <1>5, <3>1, <4>1, <4>2
    <3>2. CASE i = Len(log) + 1
      <4>1. log'[i].prev = HeadOf(log, FALSE)
        <5>1. ~ torn /\ log'[i].prev = mem[p].prev
          BY <1>4, <1>5, <2>2, <3>2
        <5>2. torn = FALSE
          BY <5>1 DEF TypeOK
        <5>3. QED
          BY <1>6, <5>1, <5>2
      <4>2. CASE Len(log) = 0
        BY <1>2, <3>2, <4>1, <4>2 DEF HeadOf
      <4>3. CASE Len(log) # 0
        <5>1. log # <<>> /\ i # 1 /\ log'[i - 1] = log[Len(log)]
          BY <1>2, <1>5, <3>2, <4>3
        <5>2. QED
          BY <4>1, <5>1 DEF HeadOf
      <4>4. QED
        BY <4>2, <4>3
    <3>3. QED
      BY <1>2, <1>5, <3>1, <3>2
  <2>3. ASSUME NEW i \in 1..Len(log'), NEW j \in 1..Len(log'), log'[i] # Damaged, i # j
        PROVE  log'[i].id # log'[j].id
    <3>1. \A k \in 1..Len(log') : k \in 1..Len(log) \/ k = Len(log) + 1
      BY <1>2, <1>5
    <3>2. CASE i \in 1..Len(log) /\ j \in 1..Len(log)
      BY <1>5, <1>7, <2>3, <2>1, <3>2 DEF Chained
    <3>3. ASSUME NEW k \in 1..Len(log) PROVE log[k].id <= written /\ log[k].id \in Nat
      <4>1. CASE log[k] = Damaged
        BY <1>2, <4>1, DamagedType
      <4>2. CASE log[k] # Damaged
        <5>1. log[k].id \in 1..written
          BY <1>7, <4>2 DEF HashesUsed
        <5>2. QED
          BY <1>2, <5>1
      <4>3. QED
        BY <4>1, <4>2
    <3>4. CASE i = Len(log) + 1 /\ j \in 1..Len(log)
      <4>1. log'[i].id = written + 1
        BY <1>4, <1>5, <2>3, <3>4
      <4>2. log'[j].id <= written /\ log'[j].id \in Nat
        BY <1>5, <3>3, <3>4
      <4>3. QED
        BY <1>2, <4>1, <4>2
    <3>5. CASE i \in 1..Len(log) /\ j = Len(log) + 1
      <4>1. log'[i].id \in 1..written
        BY <1>5, <1>7, <2>3, <3>5 DEF HashesUsed
      <4>2. log'[j].id \in {0, written + 1}
        BY <1>4, <1>5, <3>5, DamagedType
      <4>3. QED
        BY <1>2, <4>1, <4>2
    <3>6. QED
      BY <2>3, <3>1, <3>2, <3>4, <3>5
  <2>4. QED
    BY <2>2, <2>3, <2>1 DEF Chained
<1>10. ASSUME NEW q \in Procs PROVE ProcInv(q)'
  <2>1. CASE q = p
    <3>1. pc'[p] \in {"sync", "count"} /\ mem'[p] = mem[p] /\ lock' = p
      BY <1>1, <1>6, Types
    <3>2. QED
      BY <1>6, <2>1, <3>1
         DEF ProcInv, CallOfPoint, LockHeld, PreviousIsHead, HeadInLog, Preserving, KeyPoints
  <2>2. CASE q # p
    <3>1. pc'[q] = pc[q] /\ mem'[q] = mem[q] /\ ProcInv(q)
      BY <1>1, <2>2, Types DEF IInv
    <3>2. Len(log') \in Nat /\ Len(log) <= Len(log')
      BY <1>2, <1>5
    <3>3. QED
      BY <1>5, <1>6, <2>2, <3>1, <3>2, OthersKeep
  <2>3. QED
    BY <2>1, <2>2
<1>11. QED
  BY <1>8, <1>9, <1>10 DEF IInv, LogInv

\* A power loss leaves a prefix of the log and no process in a call.
LEMMA LossKeepsInv ==
  ASSUME TypeOK, IInv, PowerLoss
  PROVE  IInv'
<1>1. /\ Len(log) \in Nat /\ log \in Seq(Line) /\ synced \in 0..Len(log)
      /\ losses \in Nat
  BY Types
<1>2. PICK n \in 0..Len(log) : log' = SubSeq(log, 1, n)
  BY <1>1 DEF PowerLoss
<1>3. /\ log' \in Seq(Line) /\ Len(log') = n /\ n \in Nat
      /\ \A i \in 1..n : log'[i] = log[i]
  BY <1>1, <1>2, PrefixFacts
<1>4. HashesUsed /\ Chained /\ written' = written
  BY DEF IInv, LogInv, PowerLoss
<1>5. HashesUsed'
  BY <1>1, <1>3, <1>4 DEF HashesUsed
<1>6. Chained'
  <2>1. DOMAIN log = 1..Len(log) /\ DOMAIN log' = 1..n
    BY <1>1, <1>3
  <2>2. ASSUME NEW i \in 1..n PROVE i \in 1..Len(log) /\ (i # 1 => i - 1 \in 1..n)
    BY <1>1, <1>3
  <2>3. ASSUME NEW i \in 1..n, log'[i] # Damaged
        PROVE  log'[i].prev = IF i = 1 THEN Genesis ELSE log'[i - 1].id
    <3>1. log[i].prev = IF i = 1 THEN Genesis ELSE log[i - 1].id
      BY <1>3, <1>4, <2>1, <2>2, <2>3 DEF Chained
    <3>2. QED
      BY <1>3, <2>2, <3>1
  <2>4. ASSUME NEW i \in 1..n, NEW j \in 1..n, log'[i] # Damaged, i # j
        PROVE  log'[i].id # log'[j].id
    BY <1>3, <1>4, <2>1, <2>2, <2>4 DEF Chained
  <2>5. QED
    BY <2>1, <2>3, <2>4 DEF Chained
<1>7. ASSUME NEW p \in Procs PROVE ProcInv(p)'
  BY IdleInv DEF PowerLoss
<1>8. QED
  BY <1>5, <1>6, <1>7 DEF IInv, LogInv

LEMMA CustodyInit == Init => IInv
<1> SUFFICES ASSUME Init PROVE IInv
  OBVIOUS
<1>1. ASSUME NEW p \in Procs PROVE ProcInv(p)
  BY NoCallType
     DEF Init, ProcInv, CallOfPoint, LockHeld, PreviousIsHead, HeadInLog, Preserving, KeyPoints
<1>2. LogInv
  BY DEF Init, LogInv, HashesUsed, Chained
<1>3. QED
  BY <1>1, <1>2 DEF IInv

LEMMA CustodyNext == TypeOK /\ IInv /\ [Next]_vars => IInv'
<1> SUFFICES ASSUME TypeOK, IInv, [Next]_vars PROVE IInv'
  OBVIOUS
<1> USE DEF file, bounds
<1>1. ASSUME NEW p \in Procs PROVE ProcInv(p)
  BY DEF IInv
<1>2. ASSUME NEW p \in Procs, Call(p) PROVE IInv'
  <2>1. /\ \/ /\ pc' = [pc EXCEPT ![p] = "lock"]
              /\ mem' = [mem EXCEPT ![p] = [NoCall EXCEPT !.call = "preserve"]]
           \/ /\ pc' = [pc EXCEPT ![p] = "fsync"]
              /\ mem' = [mem EXCEPT ![p] = [NoCall EXCEPT !.call = "anchor"]]
           \/ /\ pc' = [pc EXCEPT ![p] = "key"]
              /\ mem' = [mem EXCEPT ![p] = [NoCall EXCEPT !.call = "export"]]
        /\ UNCHANGED <<lock, log, torn, anchors, written>>
    BY <1>2 DEF Call, StartPreserve, StartAnchor, StartExport, Begin, Goto
  <2>2. \A q \in Procs \ {p} : pc'[q] = pc[q] /\ mem'[q] = mem[q]
    BY <2>1, Types
  <2>3. \/ pc'[p] = "lock" /\ mem'[p].call = "preserve"
        \/ pc'[p] = "fsync" /\ mem'[p].call = "anchor"
        \/ pc'[p] = "key" /\ mem'[p].call = "export"
    BY <2>1, Types, NoCallType DEF CallType
  <2>4. ProcInv(p)'
    BY <2>3
       DEF ProcInv, CallOfPoint, LockHeld, PreviousIsHead, HeadInLog, Preserving, KeyPoints
  <2>5. QED
    BY <2>1, <2>2, <2>4, QuietStep
<1>3. ASSUME NEW p \in Procs, Lock(p) PROVE IInv'
  <2>1. /\ pc[p] = "lock" /\ lock = NoProc /\ lock' = p
        /\ UNCHANGED <<mem, log, torn, anchors, written>>
        /\ pc' = [pc EXCEPT ![p] = "previous"]
    BY <1>3 DEF Lock, Goto
  <2>2. pc'[p] = "previous" /\ \A q \in Procs \ {p} : pc'[q] = pc[q] /\ mem'[q] = mem[q]
    BY <2>1, Types
  <2>3. ProcInv(p)'
    BY <1>1, <2>1, <2>2
       DEF ProcInv, CallOfPoint, LockHeld, PreviousIsHead, HeadInLog, Preserving, KeyPoints
  <2>4. QED
    BY <2>1, <2>2, <2>3, QuietStep
<1>4. ASSUME NEW p \in Procs, GetPreviousHash(p) PROVE IInv'
  <2>1. /\ pc[p] = "previous" /\ pc' = [pc EXCEPT ![p] = "key"]
        /\ mem' = [mem EXCEPT ![p].prev = HeadOf(log, torn)]
        /\ UNCHANGED <<lock, log, torn, anchors, written>>
    BY <1>4 DEF GetPreviousHash, Goto
  <2>2. /\ pc'[p] = "key" /\ mem'[p].call = mem[p].call /\ mem'[p].prev = HeadOf(log, torn)
        /\ \A q \in Procs \ {p} : pc'[q] = pc[q] /\ mem'[q] = mem[q]
    BY <2>1, Types DEF CallType
  <2>3. mem[p].call = "preserve" /\ lock = p
    BY <1>1, <2>1 DEF ProcInv, CallOfPoint, LockHeld, Preserving
  <2>4. ProcInv(p)'
    BY <2>1, <2>2, <2>3
       DEF ProcInv, CallOfPoint, LockHeld, PreviousIsHead, HeadInLog, Preserving, KeyPoints
  <2>5. QED
    BY <2>1, <2>2, <2>4, QuietStep
<1>5. ASSUME NEW p \in Procs, AppendFails(p) PROVE IInv'
  <2>1. /\ pc[p] = "append" /\ lock' = NoProc /\ Leave(p)
        /\ UNCHANGED <<log, anchors, written>>
    BY <1>5 DEF AppendFails
  <2>2. lock = p
    BY <1>1, <2>1 DEF ProcInv, CallOfPoint, LockHeld, Preserving
  <2>3. ProcInv(p)' /\ \A q \in Procs \ {p} : pc'[q] = pc[q] /\ mem'[q] = mem[q]
    BY <2>1, LeaveEffect
  <2>4. ASSUME NEW q \in Procs \ {p} PROVE ProcInv(q)'
    <3>1. Len(log') \in Nat /\ Len(log) <= Len(log') /\ \A i \in 1..Len(log) : log'[i] = log[i]
      BY <2>1, Types
    <3>2. QED
      BY <1>1, <2>2, <2>3, <3>1, OthersKeep
  <2>5. LogInv'
    BY <2>1, LogKeeps DEF IInv
  <2>6. QED
    BY <2>3, <2>4, <2>5 DEF IInv
<1>6. ASSUME NEW p \in Procs, FsyncEntry(p) \/ FsyncLog(p) PROVE IInv'
  <2>1. /\ \/ pc[p] = "sync" /\ pc' = [pc EXCEPT ![p] = "count"]
           \/ pc[p] = "fsync" /\ pc' = [pc EXCEPT ![p] = "entries"]
        /\ UNCHANGED <<mem, lock, log, torn, anchors, written>>
    BY <1>6 DEF FsyncEntry, FsyncLog, Goto
  <2>2. /\ \/ pc[p] = "sync" /\ pc'[p] = "count"
           \/ pc[p] = "fsync" /\ pc'[p] = "entries"
        /\ \A q \in Procs \ {p} : pc'[q] = pc[q] /\ mem'[q] = mem[q]
    BY <2>1, Types
  <2>3. ProcInv(p)'
    BY <1>1, <2>1, <2>2
       DEF ProcInv, CallOfPoint, LockHeld, PreviousIsHead, HeadInLog, Preserving, KeyPoints
  <2>4. QED
    BY <2>1, <2>2, <2>3, QuietStep
<1>7. ASSUME NEW p \in Procs, CountAndUnlock(p) PROVE IInv'
  <2>1. /\ pc[p] = "count" /\ lock' = NoProc
        /\ UNCHANGED <<log, torn, anchors, written>>
        /\ \/ Leave(p)
           \/ /\ pc' = [pc EXCEPT ![p] = "fsync"]
              /\ mem' = [mem EXCEPT ![p] = [NoCall EXCEPT !.call = "anchor"]]
    BY <1>7 DEF CountAndUnlock, Goto
  <2>2. lock = p
    BY <1>1, <2>1 DEF ProcInv, CallOfPoint, LockHeld, Preserving
  <2>3. CASE Leave(p)
    BY <2>1, <2>2, <2>3, LeaveEffect, QuietStep
  <2>4. CASE ~ Leave(p)
    <3>1. /\ pc'[p] = "fsync" /\ mem'[p].call = "anchor"
          /\ \A q \in Procs \ {p} : pc'[q] = pc[q] /\ mem'[q] = mem[q]
      BY <2>1, <2>4, Types, NoCallType DEF CallType
    <3>2. ProcInv(p)'
      BY <3>1
         DEF ProcInv, CallOfPoint, LockHeld, PreviousIsHead, HeadInLog, Preserving, KeyPoints
    <3>3. QED
      BY <2>1, <2>2, <3>1, <3>2, QuietStep
  <2>5. QED
    BY <2>3, <2>4
<1>8. ASSUME NEW p \in Procs, ReadEntries(p) PROVE IInv'
  <2>1. /\ pc[p] = "entries"
        /\ UNCHANGED <<lock, log, torn, anchors, written>>
        /\ \/ Leave(p)
           \/ /\ log # <<>> /\ Readable(log, torn)
              /\ mem' = [mem EXCEPT ![p].count = Len(log), ![p].head = log[Len(log)].id]
              /\ pc' = [pc EXCEPT ![p] = "key"]
    BY <1>8 DEF ReadEntries, Goto
  <2>2. CASE Leave(p)
    BY <2>1, <2>2, LeaveEffect, QuietStep
  <2>3. CASE ~ Leave(p)
    <3>1. /\ pc'[p] = "key" /\ mem'[p].call = mem[p].call
          /\ mem'[p].count = Len(log) /\ mem'[p].head = log[Len(log)].id
          /\ \A q \in Procs \ {p} : pc'[q] = pc[q] /\ mem'[q] = mem[q]
      BY <2>1, <2>3, Types DEF CallType
    <3>2. Len(log) \in 1..Len(log) /\ \A i \in 1..Len(log) : log[i] # Damaged
      BY <2>1, <2>3, Types DEF Readable
    <3>3. mem[p].call = "anchor"
      BY <1>1, <2>1 DEF ProcInv, CallOfPoint
    <3>4. HeadInLog(p)'
      BY <2>1, <3>1, <3>2 DEF HeadInLog
    <3>5. CallOfPoint(p)' /\ LockHeld(p)' /\ PreviousIsHead(p)'
      BY <3>1, <3>3 DEF CallOfPoint, LockHeld, PreviousIsHead, Preserving, KeyPoints
    <3>6. QED
      BY <2>1, <3>1, <3>4, <3>5, QuietStep DEF ProcInv
  <2>4. QED
    BY <2>2, <2>3
<1>9. ASSUME NEW p \in Procs, AppendAnchor(p) PROVE IInv'
  <2>1. /\ pc[p] = "record" /\ Leave(p)
        /\ UNCHANGED <<lock, log, torn, written>>
    BY <1>9 DEF AppendAnchor
  <2>2. HashesUsed' /\ Chained'
    BY <2>1 DEF IInv, LogInv, HashesUsed, Chained
  <2>3. ASSUME NEW q \in Procs PROVE ProcInv(q)'
    <3>1. CASE q = p
      BY <2>1, <3>1, LeaveEffect
    <3>2. CASE q # p
      <4>1. Len(log') \in Nat /\ Len(log) <= Len(log') /\ \A i \in 1..Len(log) : log'[i] = log[i]
        BY <2>1, Types
      <4>2. q \in Procs \ {p} /\ pc'[q] = pc[q] /\ mem'[q] = mem[q]
        BY <2>1, <3>2, LeaveEffect
      <4>3. QED
        BY <1>1, <2>1, <4>1, <4>2, OthersKeep
    <3>3. QED
      BY <3>1, <3>2
  <2>4. QED
    BY <2>2, <2>3 DEF IInv, LogInv
<1>10. ASSUME NEW p \in Procs, LoadKey(p) \/ CreateKeyFile(p) \/ WriteKey(p) PROVE IInv'
  <2>1. /\ UNCHANGED <<log, torn, anchors, lock, written>>
        /\ \A q \in Procs \ {p} : pc'[q] = pc[q] /\ mem'[q] = mem[q]
        /\ ProcInv(p)'
    BY <1>1, <1>10, KeyStep
  <2>2. QED
    BY <2>1, QuietStep
<1>11. ASSUME NEW p \in Procs, Kill(p) PROVE IInv'
  <2>1. Leave(p) /\ UNCHANGED <<log, torn, anchors, written>> /\ (lock' = lock \/ lock = p)
    BY <1>11 DEF Kill
  <2>2. QED
    BY <2>1, LeaveEffect, QuietStep
<1>12. ASSUME Writeback \/ UNCHANGED vars PROVE IInv'
  <2>1. UNCHANGED <<pc, mem, lock, log, torn, anchors, written>>
    BY <1>12 DEF Writeback, vars
  <2>2. ASSUME NEW p \in Procs PROVE ProcInv(p)'
    BY <1>1, <2>1
       DEF ProcInv, CallOfPoint, LockHeld, PreviousIsHead, HeadInLog, Preserving, KeyPoints
  <2>3. LogInv'
    BY <2>1, LogKeeps DEF IInv
  <2>4. QED
    BY <2>2, <2>3 DEF IInv
<1>13. QED
  BY <1>2, <1>3, <1>4, <1>5, <1>6, <1>7, <1>8, <1>9, <1>10, <1>11, <1>12,
     AppendKeepsInv, LossKeepsInv
     DEF Next, Step

LEMMA CustodyInvariance == Spec => []IInv
BY CustodyInit, CustodyNext, CustodyTypeCorrect, PTL DEF Spec

\* The chain does not fork (Chained), for any number of concurrent writers,
\* kills, failed writes and power losses.
THEOREM ChainHolds == Spec => []Chained
<1>1. IInv => Chained
  BY DEF IInv, LogInv
<1>2. QED
  BY <1>1, CustodyInvariance, PTL

------------------------------------------------------------------------------
(* Anchors and power losses: what is anchored, or about to be, has been    *)
(* synced, unless an entry overtook an anchor_chain on its way.            *)

\* p has read a head that it has not anchored yet.
HoldsHead(p) == mem[p].call = "anchor" /\ pc[p] \in KeyPoints \cup {"record"}

Synced ==
  /\ \A p \in Procs : pc[p] = "entries" => synced = Len(log)
  /\ \A p \in Procs : HoldsHead(p) => mem[p].count <= synced
  /\ \A k \in DOMAIN anchors : anchors[k].count <= synced

SyncInv == AnchorsMatch /\ (~ overtaken => Synced)

\* A step of p that adds no anchor and reads no head.
LEMMA SyncKept ==
  ASSUME TypeOK, TypeOK', SyncInv, NEW p \in Procs, UNCHANGED <<log, anchors, losses, overtaken>>,
         synced' = synced \/ synced' = Len(log),
         \A q \in Procs \ {p} : pc'[q] = pc[q] /\ mem'[q] = mem[q],
         pc'[p] = "entries" => synced' = Len(log),
         HoldsHead(p)' => HoldsHead(p) /\ mem'[p].count = mem[p].count
  PROVE  SyncInv'
<1>1. AnchorsMatch'
  BY DEF SyncInv, AnchorsMatch
<1>2. ASSUME ~ overtaken PROVE Synced'
  <2>1. Synced /\ synced <= synced' /\ synced \in Nat /\ synced' \in Nat /\ Len(log) \in Nat
    BY <1>2, Types DEF SyncInv
  <2>2. \A k \in DOMAIN anchors : anchors[k].count \in Nat
    <3>1. DOMAIN anchors = 1..Len(anchors) /\ \A k \in 1..Len(anchors) : anchors[k] \in AnchorRecord
      BY Types
    <3>2. QED
      BY <3>1 DEF AnchorRecord
  <2>3. ASSUME NEW q \in Procs
        PROVE  /\ pc'[q] = "entries" => synced' = Len(log)
               /\ HoldsHead(q)' => mem'[q].count <= synced'
    <3>1. mem[q].count \in Nat
      BY Types DEF CallType
    <3>2. CASE q = p
      BY <2>1, <3>1, <3>2 DEF Synced
    <3>3. CASE q # p
      BY <2>1, <3>1, <3>3 DEF Synced, HoldsHead
    <3>4. QED
      BY <3>2, <3>3
  <2>4. \A k \in DOMAIN anchors' : anchors'[k].count <= synced'
    BY <2>1, <2>2 DEF Synced
  <2>5. QED
    BY <2>3, <2>4 DEF Synced
<1>3. QED
  BY <1>1, <1>2 DEF SyncInv

\* An entry is added behind what is anchored; who was reading is overtaken.
LEMMA SyncAppend ==
  ASSUME TypeOK, IInv, SyncInv, NEW p \in Procs, AppendEntry(p)
  PROVE  SyncInv'
<1> DEFINE e == IF torn THEN Damaged
                ELSE [id |-> written + 1, prev |-> mem[p].prev, sig |-> mem[p].sig]
<1>1. /\ pc[p] = "append" /\ log' = Append(log, e)
      /\ UNCHANGED <<mem, anchors, losses, synced>>
      /\ overtaken' = (overtaken \/ \E q \in Procs : pc[q] = "entries")
      /\ pc' = [pc EXCEPT ![p] = IF CustodyFsync THEN "sync" ELSE "count"]
  BY DEF AppendEntry, Goto
<1>2. Len(log) \in Nat /\ log \in Seq(Line) /\ written \in Nat /\ mem[p] \in CallType
  BY Types
<1>3. e \in Line
  BY <1>2, DamagedType DEF Line, CallType
<1> HIDE DEF e
<1>4. /\ DOMAIN log = 1..Len(log) /\ DOMAIN log' = 1..Len(log') /\ Len(log') = Len(log) + 1
      /\ \A i \in 1..Len(log) : log'[i] = log[i]
  BY <1>1, <1>2, <1>3, AppendFacts
<1>5. \A q \in Procs : pc'[q] = pc[q] \/ (q = p /\ pc'[q] \in {"sync", "count"})
  BY <1>1, Types
<1>6. AnchorsMatch'
  <2> SUFFICES ASSUME losses = 0 \/ ~ overtaken, NEW k \in DOMAIN anchors
               PROVE  anchors[k].count \in DOMAIN log' /\ log'[anchors[k].count].id = anchors[k].head
    BY <1>1 DEF AnchorsMatch
  <2>1. anchors[k].count \in DOMAIN log /\ log[anchors[k].count].id = anchors[k].head
    BY DEF SyncInv, AnchorsMatch
  <2>2. 1..Len(log) \subseteq 1..Len(log')
    BY <1>2, <1>4
  <2>3. QED
    BY <1>4, <2>1, <2>2
<1>7. ASSUME ~ overtaken' PROVE Synced'
  <2>1. Synced /\ \A q \in Procs : pc[q] # "entries"
    BY <1>1, <1>7 DEF SyncInv
  <2>2. \A q \in Procs : pc'[q] # "entries" /\ (HoldsHead(q)' => HoldsHead(q))
    BY <1>1, <1>5, <2>1 DEF HoldsHead, KeyPoints
  <2>3. QED
    BY <1>1, <2>1, <2>2 DEF Synced
<1>8. QED
  BY <1>6, <1>7 DEF SyncInv

\* The head is read from a log that is synced, unless it was overtaken.
LEMMA SyncRead ==
  ASSUME TypeOK, IInv, SyncInv, NEW p \in Procs, ReadEntries(p)
  PROVE  SyncInv'
<1>1. /\ pc[p] = "entries"
      /\ UNCHANGED <<log, anchors, losses, synced, overtaken>>
      /\ \/ Leave(p)
         \/ /\ mem' = [mem EXCEPT ![p].count = Len(log), ![p].head = log[Len(log)].id]
            /\ pc' = [pc EXCEPT ![p] = "key"]
  BY DEF ReadEntries, Goto, file, bounds
<1>2. AnchorsMatch'
  BY <1>1 DEF SyncInv, AnchorsMatch
<1>3. \A q \in Procs \ {p} : pc'[q] = pc[q] /\ mem'[q] = mem[q]
  BY <1>1, Types DEF Leave, Goto
<1>4. pc'[p] = "idle" \/ (pc'[p] = "key" /\ mem'[p].count = Len(log))
  BY <1>1, Types DEF Leave, Goto, CallType
<1>5. ASSUME ~ overtaken PROVE Synced'
  <2>1. Synced /\ synced = Len(log) /\ Len(log) \in Nat
    BY <1>1, <1>5, Types DEF SyncInv, Synced
  <2>2. ASSUME NEW q \in Procs
        PROVE  (pc'[q] = "entries" => synced' = Len(log')) /\ (HoldsHead(q)' => mem'[q].count <= synced')
    <3>1. CASE q = p
      BY <1>1, <1>4, <2>1, <3>1 DEF HoldsHead, KeyPoints
    <3>2. CASE q # p
      BY <1>1, <1>3, <2>1, <3>2 DEF Synced, HoldsHead
    <3>3. QED
      BY <3>1, <3>2
  <2>3. QED
    BY <1>1, <2>1, <2>2 DEF Synced
<1>6. QED
  BY <1>1, <1>2, <1>5 DEF SyncInv

\* What is anchored is the head that was read, and it is still in the log.
LEMMA SyncAnchor ==
  ASSUME TypeOK, IInv, SyncInv, NEW p \in Procs, AppendAnchor(p)
  PROVE  SyncInv'
<1> DEFINE a == [count |-> mem[p].count, head |-> mem[p].head, sig |-> mem[p].sig]
<1>1. /\ pc[p] = "record" /\ anchors' = Append(anchors, a) /\ Leave(p)
      /\ UNCHANGED <<log, losses, synced, overtaken>>
  BY DEF AppendAnchor, bounds
<1>2. mem[p].call = "anchor" /\ a.count \in 1..Len(log) /\ log[a.count].id = a.head
  BY <1>1 DEF IInv, ProcInv, CallOfPoint, HeadInLog
<1>3. a \in AnchorRecord /\ a.count = mem[p].count
  BY Types DEF AnchorRecord, CallType
<1> HIDE DEF a
<1>4. /\ Len(anchors') = Len(anchors) + 1 /\ Len(anchors) \in Nat
      /\ DOMAIN anchors' = 1..Len(anchors') /\ DOMAIN anchors = 1..Len(anchors)
      /\ DOMAIN log = 1..Len(log)
      /\ \A k \in 1..Len(anchors) : anchors'[k] = anchors[k]
      /\ anchors'[Len(anchors) + 1] = a
  BY <1>1, <1>3, Types, AppendFacts
<1>5. \A q \in Procs : (q = p /\ pc'[q] = "idle") \/ (pc'[q] = pc[q] /\ mem'[q] = mem[q])
  BY <1>1, Types DEF Leave, Goto
<1>6. AnchorsMatch'
  <2> SUFFICES ASSUME losses = 0 \/ ~ overtaken, NEW k \in 1..Len(anchors')
               PROVE  anchors'[k].count \in DOMAIN log /\ log[anchors'[k].count].id = anchors'[k].head
    BY <1>1, <1>4 DEF AnchorsMatch
  <2>1. CASE k \in 1..Len(anchors)
    BY <1>4, <2>1 DEF SyncInv, AnchorsMatch
  <2>2. CASE k = Len(anchors) + 1
    BY <1>2, <1>4, <2>2
  <2>3. QED
    BY <1>4, <2>1, <2>2
<1>7. ASSUME ~ overtaken PROVE Synced'
  <2>1. Synced /\ HoldsHead(p)
    BY <1>1, <1>2, <1>7 DEF SyncInv, HoldsHead
  <2>2. a.count <= synced
    BY <1>3, <2>1 DEF Synced
  <2>3. \A q \in Procs : (pc'[q] = "entries" => pc[q] = "entries") /\ (HoldsHead(q)' => HoldsHead(q) /\ mem'[q] = mem[q])
    BY <1>5 DEF HoldsHead, KeyPoints
  <2>4. \A k \in 1..Len(anchors') : anchors'[k].count <= synced
    BY <1>4, <2>1, <2>2 DEF Synced
  <2>5. QED
    BY <1>1, <1>4, <2>1, <2>3, <2>4 DEF Synced
<1>8. QED
  BY <1>1, <1>6, <1>7 DEF SyncInv

\* What is synced survives.
LEMMA SyncLoss ==
  ASSUME TypeOK, SyncInv, PowerLoss
  PROVE  SyncInv'
<1>1. PICK n \in synced..Len(log) : log' = SubSeq(log, 1, n) /\ synced' = n
  BY DEF PowerLoss
<1>2. /\ losses' = losses + 1 /\ UNCHANGED <<anchors, overtaken>>
      /\ pc' = [p \in Procs |-> "idle"]
  BY DEF PowerLoss
<1>3. /\ Len(log) \in Nat /\ log \in Seq(Line) /\ synced \in 0..Len(log) /\ losses \in Nat
      /\ n \in 0..Len(log) /\ synced <= n
  BY <1>1, Types
<1>4. /\ log' \in Seq(Line) /\ Len(log') = n /\ \A i \in 1..n : log'[i] = log[i]
  BY <1>1, <1>3, PrefixFacts
<1>5. \A k \in DOMAIN anchors : anchors[k].count \in Nat
  <2>1. DOMAIN anchors = 1..Len(anchors) /\ \A k \in 1..Len(anchors) : anchors[k] \in AnchorRecord
    BY Types
  <2>2. QED
    BY <2>1 DEF AnchorRecord
<1>6. ASSUME ~ overtaken PROVE AnchorsMatch' /\ Synced'
  <2>1. Synced /\ \A k \in DOMAIN anchors : anchors[k].count \in DOMAIN log /\ log[anchors[k].count].id = anchors[k].head
    BY <1>6 DEF SyncInv, AnchorsMatch
  <2>2. \A k \in DOMAIN anchors : anchors[k].count \in 1..n /\ anchors[k].count <= n
    BY <1>3, <1>5, <2>1 DEF Synced
  <2>3. DOMAIN log' = 1..n
    BY <1>4
  <2>4. AnchorsMatch'
    BY <1>2, <1>4, <2>1, <2>2, <2>3 DEF AnchorsMatch
  <2>5. Synced'
    BY <1>1, <1>2, <2>2 DEF Synced, HoldsHead, KeyPoints
  <2>6. QED
    BY <2>4, <2>5
<1>7. ASSUME overtaken PROVE AnchorsMatch'
  BY <1>2, <1>3, <1>7 DEF AnchorsMatch
<1>8. QED
  BY <1>2, <1>6, <1>7 DEF SyncInv

LEMMA SyncNext == TypeOK /\ TypeOK' /\ IInv /\ SyncInv /\ [Next]_vars => SyncInv'
<1> SUFFICES ASSUME TypeOK, TypeOK', IInv, SyncInv, [Next]_vars PROVE SyncInv'
  OBVIOUS
<1> USE DEF file, bounds
<1>1. ASSUME NEW p \in Procs PROVE ProcInv(p)
  BY DEF IInv
<1>2. ASSUME NEW p \in Procs, Call(p) PROVE SyncInv'
  <2>1. /\ \/ /\ pc' = [pc EXCEPT ![p] = "lock"]
              /\ mem' = [mem EXCEPT ![p] = [NoCall EXCEPT !.call = "preserve"]]
           \/ /\ pc' = [pc EXCEPT ![p] = "fsync"]
              /\ mem' = [mem EXCEPT ![p] = [NoCall EXCEPT !.call = "anchor"]]
           \/ /\ pc' = [pc EXCEPT ![p] = "key"]
              /\ mem' = [mem EXCEPT ![p] = [NoCall EXCEPT !.call = "export"]]
        /\ UNCHANGED <<log, anchors, losses, overtaken, synced>>
    BY <1>2 DEF Call, StartPreserve, StartAnchor, StartExport, Begin, Goto
  <2>2. /\ \A q \in Procs \ {p} : pc'[q] = pc[q] /\ mem'[q] = mem[q]
        /\ \/ pc'[p] = "lock"
           \/ pc'[p] = "fsync"
           \/ pc'[p] = "key" /\ mem'[p].call = "export"
    BY <2>1, Types, NoCallType DEF CallType
  <2>3. pc'[p] # "entries" /\ ~ HoldsHead(p)'
    BY <2>2 DEF HoldsHead, KeyPoints
  <2>4. QED
    BY <2>1, <2>2, <2>3, SyncKept
<1>3. ASSUME NEW p \in Procs, Lock(p) \/ GetPreviousHash(p) PROVE SyncInv'
  <2>1. /\ pc[p] \in {"lock", "previous"} /\ UNCHANGED <<log, anchors, losses, overtaken, synced>>
        /\ pc' = [pc EXCEPT ![p] = "previous"] \/ pc' = [pc EXCEPT ![p] = "key"]
        /\ mem' = mem \/ mem' = [mem EXCEPT ![p].prev = HeadOf(log, torn)]
    BY <1>3 DEF Lock, GetPreviousHash, Goto
  <2>2. /\ \A q \in Procs \ {p} : pc'[q] = pc[q] /\ mem'[q] = mem[q]
        /\ pc'[p] \in {"previous", "key"} /\ mem'[p].call = mem[p].call
    BY <2>1, Types DEF CallType
  <2>3. mem[p].call = "preserve"
    BY <1>1, <2>1 DEF ProcInv, CallOfPoint
  <2>4. pc'[p] # "entries" /\ ~ HoldsHead(p)'
    BY <2>2, <2>3 DEF HoldsHead
  <2>5. QED
    BY <2>1, <2>2, <2>4, SyncKept
<1>4. ASSUME NEW p \in Procs, Leave(p), UNCHANGED <<log, anchors, losses, overtaken, synced>>
      PROVE  SyncInv'
  <2>1. /\ pc'[p] = "idle" /\ \A q \in Procs \ {p} : pc'[q] = pc[q] /\ mem'[q] = mem[q]
    BY <1>4, LeaveEffect
  <2>2. pc'[p] # "entries" /\ ~ HoldsHead(p)'
    BY <2>1 DEF HoldsHead, KeyPoints
  <2>3. QED
    BY <1>4, <2>1, <2>2, SyncKept
<1>5. ASSUME NEW p \in Procs, AppendFails(p) \/ Kill(p) PROVE SyncInv'
  BY <1>4, <1>5 DEF AppendFails, Kill
<1>6. ASSUME NEW p \in Procs, FsyncEntry(p) \/ FsyncLog(p) PROVE SyncInv'
  <2>1. /\ \/ pc' = [pc EXCEPT ![p] = "count"]
           \/ pc' = [pc EXCEPT ![p] = "entries"]
        /\ synced' = Len(log) /\ UNCHANGED <<mem, log, anchors, losses, overtaken>>
    BY <1>6 DEF FsyncEntry, FsyncLog, Goto
  <2>2. pc'[p] \in {"count", "entries"} /\ \A q \in Procs \ {p} : pc'[q] = pc[q] /\ mem'[q] = mem[q]
    BY <2>1, Types
  <2>3. ~ HoldsHead(p)'
    BY <2>2 DEF HoldsHead, KeyPoints
  <2>4. QED
    BY <2>1, <2>2, <2>3, SyncKept
<1>7. ASSUME NEW p \in Procs, CountAndUnlock(p) PROVE SyncInv'
  <2>1. /\ UNCHANGED <<log, anchors, losses, overtaken, synced>>
        /\ \/ Leave(p)
           \/ /\ pc' = [pc EXCEPT ![p] = "fsync"]
              /\ mem' = [mem EXCEPT ![p] = [NoCall EXCEPT !.call = "anchor"]]
    BY <1>7 DEF CountAndUnlock, Goto
  <2>2. CASE Leave(p)
    BY <1>4, <2>1, <2>2
  <2>3. CASE ~ Leave(p)
    <3>1. pc'[p] = "fsync" /\ \A q \in Procs \ {p} : pc'[q] = pc[q] /\ mem'[q] = mem[q]
      BY <2>1, <2>3, Types
    <3>2. ~ HoldsHead(p)'
      BY <3>1 DEF HoldsHead, KeyPoints
    <3>3. QED
      BY <2>1, <3>1, <3>2, SyncKept
  <2>4. QED
    BY <2>2, <2>3
<1>8. ASSUME NEW p \in Procs, LoadKey(p) \/ CreateKeyFile(p) \/ WriteKey(p) PROVE SyncInv'
  <2>1. /\ UNCHANGED <<log, anchors, losses, overtaken, synced>>
    BY <1>8 DEF LoadKey, CreateKeyFile, WriteKey
  <2>2. /\ \A q \in Procs \ {p} : pc'[q] = pc[q] /\ mem'[q] = mem[q]
        /\ pc[p] \in KeyPoints /\ pc'[p] # "entries"
        /\ mem'[p].call = "anchor" => mem[p].call = "anchor" /\ mem'[p].count = mem[p].count
    BY <1>1, <1>8, KeyStep
  <2>3. HoldsHead(p)' => HoldsHead(p) /\ mem'[p].count = mem[p].count
    BY <2>2 DEF HoldsHead
  <2>4. QED
    BY <2>1, <2>2, <2>3, SyncKept
<1>9. ASSUME Writeback \/ UNCHANGED vars PROVE SyncInv'
  <2>1. /\ UNCHANGED <<pc, mem, log, anchors, losses, overtaken>>
        /\ synced' = synced \/ synced' = Len(log)
    BY <1>9 DEF Writeback, vars
  <2>2. AnchorsMatch'
    BY <2>1 DEF SyncInv, AnchorsMatch
  <2>3. ASSUME ~ overtaken PROVE Synced'
    <3>1. Synced /\ synced <= synced' /\ synced \in Nat /\ synced' \in Nat /\ Len(log) \in Nat
      BY <2>1, <2>3, Types DEF SyncInv
    <3>2. \A q \in Procs : /\ pc'[q] = "entries" => synced' = Len(log)
                           /\ HoldsHead(q)' <=> HoldsHead(q)
                           /\ mem'[q] = mem[q] /\ mem[q].count \in Nat
      BY <2>1, <3>1, Types DEF Synced, HoldsHead, CallType
    <3>3. DOMAIN anchors = 1..Len(anchors) /\ \A k \in 1..Len(anchors) : anchors[k].count \in Nat
      <4>1. DOMAIN anchors = 1..Len(anchors) /\ \A k \in 1..Len(anchors) : anchors[k] \in AnchorRecord
        BY Types
      <4>2. QED
        BY <4>1 DEF AnchorRecord
    <3>4. QED
      BY <2>1, <3>1, <3>2, <3>3 DEF Synced
  <2>4. QED
    BY <2>1, <2>2, <2>3 DEF SyncInv
<1>10. QED
  BY <1>2, <1>3, <1>5, <1>6, <1>7, <1>8, <1>9, SyncAppend, SyncRead, SyncAnchor, SyncLoss
     DEF Next, Step

\* The log holds what its anchors say (AnchorsMatch) for any number of processes:
\* as long as the host keeps its power, although anchor_chain takes no lock, and
\* through any number of power losses unless an entry overtook an anchor.
THEOREM AnchorsHold == Spec => []AnchorsMatch
<1>1. Init => SyncInv
  BY DEF Init, SyncInv, Synced, AnchorsMatch, HoldsHead, KeyPoints
<1>2. SyncInv => AnchorsMatch
  BY DEF SyncInv
<1>3. QED
  BY <1>1, <1>2, SyncNext, CustodyInvariance, CustodyTypeCorrect, PTL DEF Spec
------------------------------------------------------------------------------
(* One key: whatever a process holds or has written is of the key in the   *)
(* file, and only one process can be about to write that file.             *)

OfTheKey(k) == k \in {NoKey, keyFile}

KeysAgree ==
  /\ OfTheKey(published)
  /\ \A p \in Procs : OfTheKey(mem[p].sig) /\ OfTheKey(cache[p])
  /\ \A i \in 1..Len(log) : OfTheKey(log[i].sig)
  /\ \A k \in 1..Len(anchors) : OfTheKey(anchors[k].sig)
  /\ \A p \in Procs : pc[p] = "generated" => keyFile = Empty
  /\ \A p, q \in Procs : (pc[p] = "generated" /\ pc[q] = "generated") => p = q

AnchorsSigned ==
  /\ \A p \in Procs : pc[p] = "record" => mem[p].sig # NoKey
  /\ \A k \in 1..Len(anchors) : anchors[k].sig # NoKey

KeyInv == AnchorsSigned /\ (losses = 0 => KeysAgree)

LEMMA KeyTypes ==
  ASSUME TypeOK
  PROVE  /\ pc \in [Procs -> Points] /\ mem \in [Procs -> CallType]
         /\ cache \in [Procs -> Nat] /\ keyFile \in Nat \cup {-1}
         /\ published \in Nat /\ minted \in Nat /\ losses \in Nat
         /\ log \in Seq(Line) /\ Len(log) \in Nat /\ \A i \in 1..Len(log) : log[i].sig \in Nat
         /\ anchors \in Seq(AnchorRecord) /\ Len(anchors) \in Nat
         /\ \A k \in 1..Len(anchors) : anchors[k].sig \in Nat
         /\ \A p \in Procs : mem[p].sig \in Nat /\ cache[p] \in Nat
<1>1. /\ pc \in [Procs -> Points] /\ mem \in [Procs -> CallType]
      /\ log \in Seq(Line) /\ Len(log) \in Nat /\ \A i \in 1..Len(log) : log[i] \in Line
      /\ anchors \in Seq(AnchorRecord) /\ Len(anchors) \in Nat /\ losses \in Nat
  BY Types
<1>2. /\ cache \in [Procs -> Nat] /\ keyFile \in Nat \cup {-1}
      /\ published \in Nat /\ minted \in Nat
  BY DEF TypeOK, Absent
<1>3. \A p \in Procs : mem[p].sig \in Nat /\ cache[p] \in Nat
  BY <1>1, <1>2 DEF CallType
<1>4. \A k \in 1..Len(anchors) : anchors[k] \in AnchorRecord
  BY <1>1
<1>5. QED
  BY <1>1, <1>2, <1>3, <1>4 DEF Line, AnchorRecord

\* A step of p that leaves the key files alone: what p holds after it decides.
LEMMA KeyFrame ==
  ASSUME TypeOK, KeyInv, NEW p \in Procs,
         UNCHANGED <<keyFile, losses>>,
         \A q \in Procs \ {p} : pc'[q] = pc[q] /\ mem'[q].sig = mem[q].sig /\ cache'[q] = cache[q],
         pc'[p] # "generated",
         pc'[p] = "record" => mem'[p].sig # NoKey,
         AnchorsSigned => \A k \in 1..Len(anchors') : anchors'[k].sig # NoKey,
         (losses = 0 /\ KeysAgree) =>
            /\ OfTheKey(mem'[p].sig) /\ OfTheKey(cache'[p]) /\ OfTheKey(published')
            /\ \A i \in 1..Len(log') : OfTheKey(log'[i].sig)
            /\ \A k \in 1..Len(anchors') : OfTheKey(anchors'[k].sig)
  PROVE  KeyInv'
<1>1. AnchorsSigned'
  BY DEF KeyInv, AnchorsSigned
<1>2. ASSUME losses = 0 PROVE KeysAgree'
  <2>1. KeysAgree
    BY <1>2 DEF KeyInv
  <2>2. \A k : OfTheKey(k)' <=> OfTheKey(k)
    BY DEF OfTheKey
  <2>3. \A q \in Procs : OfTheKey(mem'[q].sig) /\ OfTheKey(cache'[q])
    BY <1>2, <2>1 DEF KeysAgree
  <2>4. /\ OfTheKey(published')
        /\ \A i \in 1..Len(log') : OfTheKey(log'[i].sig)
        /\ \A k \in 1..Len(anchors') : OfTheKey(anchors'[k].sig)
    BY <1>2, <2>1
  <2>5. /\ \A q \in Procs : pc'[q] = "generated" => keyFile' = Empty
        /\ \A q, r \in Procs : (pc'[q] = "generated" /\ pc'[r] = "generated") => q = r
    BY <2>1 DEF KeysAgree
  <2>6. QED
    BY <2>3, <2>4, <2>5 DEF KeysAgree, OfTheKey
<1>3. QED
  BY <1>1, <1>2 DEF KeyInv

\* A step of p that leaves alone all the keys there are.
LEMMA KeyQuiet ==
  ASSUME TypeOK, KeyInv, NEW p \in Procs,
         UNCHANGED <<keyFile, losses, published, log, anchors, cache>>,
         \A q \in Procs \ {p} : pc'[q] = pc[q] /\ mem'[q].sig = mem[q].sig,
         mem'[p].sig \in {mem[p].sig, NoKey},
         pc'[p] \notin {"generated", "record"}
  PROVE  KeyInv'
<1>1. AnchorsSigned => \A k \in 1..Len(anchors') : anchors'[k].sig # NoKey
  BY DEF AnchorsSigned
<1>2. KeysAgree =>
         /\ OfTheKey(mem'[p].sig) /\ OfTheKey(cache'[p]) /\ OfTheKey(published')
         /\ \A i \in 1..Len(log') : OfTheKey(log'[i].sig)
         /\ \A k \in 1..Len(anchors') : OfTheKey(anchors'[k].sig)
  BY DEF KeysAgree, OfTheKey
<1>3. QED
  BY <1>1, <1>2, KeyFrame

LEMMA LeaveKeys ==
  ASSUME TypeOK, NEW p \in Procs, Leave(p)
  PROVE  /\ pc'[p] = "idle" /\ mem'[p].sig = NoKey
         /\ \A q \in Procs \ {p} : pc'[q] = pc[q] /\ mem'[q] = mem[q]
BY KeyTypes DEF Leave, Goto, NoCall

\* Where a process goes that has got the key k.
LEMMA UseKeyEffect ==
  ASSUME TypeOK, NEW p \in Procs, NEW k, UseKey(p, k)
  PROVE  /\ pc'[p] # "generated"
         /\ pc'[p] = "record" => mem'[p].sig = k
         /\ mem'[p].sig \in {NoKey, k} /\ published' \in {published, k}
         /\ \A q \in Procs \ {p} : pc'[q] = pc[q] /\ mem'[q] = mem[q]
<1>1. CASE mem[p].call = "export"
  BY <1>1, LeaveKeys DEF UseKey
<1>2. CASE mem[p].call # "export"
  BY <1>2, KeyTypes DEF UseKey, Goto, CallType
<1>3. QED
  BY <1>1, <1>2

LEMMA KeyFailsEffect ==
  ASSUME TypeOK, NEW p \in Procs, KeyFails(p)
  PROVE  /\ pc'[p] \notin {"generated", "record"}
         /\ mem'[p].sig \in {NoKey, mem[p].sig}
         /\ \A q \in Procs \ {p} : pc'[q] = pc[q] /\ mem'[q] = mem[q]
<1>1. CASE mem[p].call = "preserve"
  BY <1>1, KeyTypes DEF KeyFails, Goto
<1>2. CASE mem[p].call # "preserve"
  BY <1>2, LeaveKeys DEF KeyFails
<1>3. QED
  BY <1>1, <1>2

LEMMA LoadKeyKeeps ==
  ASSUME TypeOK, KeyInv, NEW p \in Procs, LoadKey(p)
  PROVE  KeyInv'
<1>1. UNCHANGED <<log, anchors, keyFile, losses>>
  BY DEF LoadKey, file
\* The key comes from the cache or from the file.
<1>2. ASSUME NEW k \in Nat \ {NoKey}, UseKey(p, k), KeysAgree /\ losses = 0 => k = keyFile,
             \/ cache' = cache
             \/ cache' = [cache EXCEPT ![p] = k]
      PROVE  KeyInv'
  <2>1. /\ pc'[p] # "generated"
        /\ pc'[p] = "record" => mem'[p].sig = k
        /\ mem'[p].sig \in {NoKey, k} /\ published' \in {published, k}
        /\ \A q \in Procs \ {p} : pc'[q] = pc[q] /\ mem'[q] = mem[q]
    BY <1>2, UseKeyEffect
  <2>2. cache'[p] \in {cache[p], k} /\ \A q \in Procs \ {p} : cache'[q] = cache[q]
    BY <1>2, KeyTypes
  <2>3. AnchorsSigned => \A n \in 1..Len(anchors') : anchors'[n].sig # NoKey
    BY <1>1 DEF AnchorsSigned
  <2>4. (losses = 0 /\ KeysAgree) =>
            /\ OfTheKey(mem'[p].sig) /\ OfTheKey(cache'[p]) /\ OfTheKey(published')
            /\ \A i \in 1..Len(log') : OfTheKey(log'[i].sig)
            /\ \A n \in 1..Len(anchors') : OfTheKey(anchors'[n].sig)
    BY <1>1, <1>2, <2>1, <2>2 DEF KeysAgree, OfTheKey
  <2>5. QED
    BY <1>1, <1>2, <2>1, <2>2, <2>3, <2>4, KeyFrame
<1>3. CASE cache[p] # NoKey /\ UseKey(p, cache[p]) /\ UNCHANGED cache
  <2>1. cache[p] \in Nat \ {NoKey} /\ (KeysAgree => cache[p] = keyFile)
    BY <1>3, KeyTypes DEF KeysAgree, OfTheKey
  <2>2. QED
    BY <1>2, <1>3, <2>1
<1>4. CASE /\ keyFile \notin {Absent, Empty} /\ UseKey(p, keyFile)
           /\ cache' = [cache EXCEPT ![p] = keyFile]
  <2>1. keyFile \in Nat \ {NoKey}
    BY <1>4, KeyTypes DEF Absent, Empty, NoKey
  <2>2. QED
    BY <1>2, <1>4, <2>1
<1>5. CASE KeyFails(p) /\ UNCHANGED <<cache, published>>
  BY <1>1, <1>5, KeyFailsEffect, KeyQuiet
<1>6. CASE Goto(p, "create") /\ UNCHANGED <<mem, cache, published>>
  <2>1. pc'[p] = "create" /\ \A q \in Procs \ {p} : pc'[q] = pc[q]
    BY <1>6, KeyTypes DEF Goto
  <2>2. QED
    BY <1>1, <1>6, <2>1, KeyQuiet
<1>7. QED
  BY <1>3, <1>4, <1>5, <1>6 DEF LoadKey

\* The file that is created empty, and the key written to it: until then nobody
\* has a key.
LEMMA NewKeyKeeps ==
  ASSUME TypeOK, KeyInv, NEW p \in Procs, CreateKeyFile(p) \/ WriteKey(p)
  PROVE  KeyInv'
<1>1. UNCHANGED <<log, anchors, losses>>
  BY DEF CreateKeyFile, WriteKey, file, bounds
<1>2. CASE pc[p] = "create" /\ keyFile = Absent /\ keyFile' = Empty /\ Goto(p, "generated")
           /\ UNCHANGED <<mem, cache, published>>
  <2>1. pc'[p] = "generated" /\ \A q \in Procs \ {p} : pc'[q] = pc[q]
    BY <1>2, KeyTypes DEF Goto
  <2>2. AnchorsSigned'
    BY <1>1, <1>2, <2>1 DEF KeyInv, AnchorsSigned
  <2>3. ASSUME losses = 0 PROVE KeysAgree'
    <3>1. KeysAgree
      BY <2>3 DEF KeyInv
    <3>2. \A k \in Nat : OfTheKey(k) => OfTheKey(k)'
      BY <1>2 DEF OfTheKey, Absent
    <3>3. \A q \in Procs : pc[q] # "generated"
      BY <1>2, <3>1 DEF KeysAgree, Absent, Empty
    <3>4. /\ OfTheKey(published)'
          /\ \A q \in Procs : OfTheKey(mem[q].sig)' /\ OfTheKey(cache[q])'
          /\ \A i \in 1..Len(log) : OfTheKey(log[i].sig)'
          /\ \A k \in 1..Len(anchors) : OfTheKey(anchors[k].sig)'
      BY <1>1, <1>2, <3>1, <3>2, KeyTypes DEF KeysAgree, OfTheKey
    <3>5. QED
      BY <1>1, <1>2, <2>1, <3>3, <3>4 DEF KeysAgree
  <2>4. QED
    BY <1>1, <2>2, <2>3 DEF KeyInv
<1>3. CASE KeyFails(p) /\ UNCHANGED <<cache, published, keyFile>>
  BY <1>1, <1>3, KeyFailsEffect, KeyQuiet
<1>4. CASE WriteKey(p)
  <2> DEFINE k == minted + 1
  <2>1. /\ pc[p] = "generated" /\ keyFile' = k /\ cache' = [cache EXCEPT ![p] = k]
        /\ UseKey(p, k) /\ k \in Nat \ {NoKey}
    BY <1>4, KeyTypes DEF WriteKey, NoKey
  <2> HIDE DEF k
  <2>2. /\ pc'[p] # "generated"
        /\ pc'[p] = "record" => mem'[p].sig = k
        /\ mem'[p].sig \in {NoKey, k} /\ published' \in {published, k}
        /\ \A q \in Procs \ {p} : pc'[q] = pc[q] /\ mem'[q] = mem[q]
    BY <2>1, UseKeyEffect
  <2>3. cache'[p] = k /\ \A q \in Procs \ {p} : cache'[q] = cache[q]
    BY <2>1, KeyTypes
  <2>4. AnchorsSigned'
    BY <1>1, <2>1, <2>2 DEF KeyInv, AnchorsSigned
  <2>5. ASSUME losses = 0 PROVE KeysAgree'
    <3>1. KeysAgree /\ keyFile = Empty
      BY <2>1, <2>5 DEF KeyInv, KeysAgree
    <3>2. \A n : OfTheKey(n) => n = NoKey
      BY <3>1 DEF OfTheKey, Empty, NoKey
    <3>3. \A q \in Procs : pc'[q] # "generated"
      BY <2>1, <2>2, <3>1 DEF KeysAgree
    <3>4. QED
      BY <1>1, <2>1, <2>2, <2>3, <3>1, <3>2, <3>3 DEF KeysAgree, OfTheKey
  <2>6. QED
    BY <1>1, <2>4, <2>5 DEF KeyInv
<1>5. QED
  BY <1>2, <1>3, <1>4 DEF CreateKeyFile

LEMMA KeyInvInit == Init => KeyInv
BY DEF Init, KeyInv, AnchorsSigned, KeysAgree, OfTheKey, NoCall

LEMMA KeyInvNext == TypeOK /\ KeyInv /\ [Next]_vars => KeyInv'
<1> SUFFICES ASSUME TypeOK, KeyInv, [Next]_vars PROVE KeyInv'
  OBVIOUS
<1> USE DEF file, keys, bounds
\* The steps that have nothing to do with keys.
<1>1. ASSUME NEW p \in Procs, UNCHANGED <<keyFile, losses, published, log, anchors, cache, mem>>,
             NEW point \in Points \ {"generated", "record"}, Goto(p, point)
      PROVE  KeyInv'
  <2>1. pc'[p] = point /\ \A q \in Procs \ {p} : pc'[q] = pc[q]
    BY <1>1, KeyTypes DEF Goto
  <2>2. QED
    BY <1>1, <2>1, KeyQuiet
<1>2. ASSUME NEW p \in Procs, UNCHANGED <<keyFile, losses, published, log, anchors, cache>>, Leave(p)
      PROVE  KeyInv'
  BY <1>2, LeaveKeys, KeyQuiet
<1>3. ASSUME NEW p \in Procs, UNCHANGED <<keyFile, losses, published, log, anchors, cache>>,
             NEW point \in Points \ {"generated", "record"}, Goto(p, point),
             NEW c \in CallType, mem' = [mem EXCEPT ![p] = c], c.sig \in {mem[p].sig, NoKey}
      PROVE  KeyInv'
  <2>1. /\ pc'[p] = point /\ mem'[p] = c
        /\ \A q \in Procs \ {p} : pc'[q] = pc[q] /\ mem'[q] = mem[q]
    BY <1>3, KeyTypes DEF Goto
  <2>2. QED
    BY <1>3, <2>1, KeyQuiet
<1>4. ASSUME NEW p \in Procs, Call(p) PROVE KeyInv'
  <2>1. \A call \in {"preserve", "anchor", "export"} :
          [NoCall EXCEPT !.call = call] \in CallType /\ [NoCall EXCEPT !.call = call].sig = NoKey
    BY NoCallType DEF CallType, NoCall
  <2>2. QED
    BY <1>3, <1>4, <2>1 DEF Call, StartPreserve, StartAnchor, StartExport, Begin, Points
<1>5. ASSUME NEW p \in Procs, Lock(p) \/ FsyncEntry(p) \/ FsyncLog(p) PROVE KeyInv'
  BY <1>1, <1>5 DEF Lock, FsyncEntry, FsyncLog, Points
<1>6. ASSUME NEW p \in Procs, GetPreviousHash(p) PROVE KeyInv'
  <2> DEFINE c == [mem[p] EXCEPT !.prev = HeadOf(log, torn)]
  <2>1. HeadOf(log, torn) \in Nat
    BY HeadType, KeyTypes
  <2>2. c \in CallType /\ c.sig = mem[p].sig /\ mem' = [mem EXCEPT ![p] = c]
    BY <1>6, <2>1, KeyTypes DEF GetPreviousHash, CallType
  <2> HIDE DEF c
  <2>3. UNCHANGED <<keyFile, losses, published, log, anchors, cache>> /\ Goto(p, "key")
    BY <1>6 DEF GetPreviousHash
  <2>4. QED
    BY <1>3, <2>2, <2>3 DEF Points
<1>7. ASSUME NEW p \in Procs, CountAndUnlock(p) PROVE KeyInv'
  <2>1. [NoCall EXCEPT !.call = "anchor"] \in CallType /\ [NoCall EXCEPT !.call = "anchor"].sig = NoKey
    BY NoCallType DEF CallType, NoCall
  <2>2. QED
    BY <1>2, <1>3, <1>7, <2>1 DEF CountAndUnlock, Points
<1>8. ASSUME NEW p \in Procs, ReadEntries(p) PROVE KeyInv'
  <2>1. UNCHANGED <<keyFile, losses, published, log, anchors, cache>>
    BY <1>8 DEF ReadEntries
  <2>2. CASE Leave(p)
    BY <1>2, <2>1, <2>2
  <2>3. CASE ~ Leave(p)
    <3>1. /\ mem' = [mem EXCEPT ![p].count = Len(log), ![p].head = log[Len(log)].id]
          /\ Goto(p, "key")
      BY <1>8, <2>3 DEF ReadEntries
    <3>2. /\ pc'[p] = "key" /\ mem'[p].sig = mem[p].sig
          /\ \A q \in Procs \ {p} : pc'[q] = pc[q] /\ mem'[q] = mem[q]
      BY <3>1, KeyTypes DEF Goto, CallType
    <3>3. QED
      BY <2>1, <3>2, KeyQuiet
  <2>4. QED
    BY <2>2, <2>3
<1>9. ASSUME NEW p \in Procs, AppendFails(p) PROVE KeyInv'
  BY <1>2, <1>9 DEF AppendFails
\* An entry is signed with what its writer holds.
<1>10. ASSUME NEW p \in Procs, AppendEntry(p) PROVE KeyInv'
  <2>1. PICK line : /\ log' = Append(log, line) /\ line.sig \in {mem[p].sig, NoKey}
                    /\ line \in Line
    <3>1. Damaged \in Line /\ Damaged.sig = NoKey
      BY DamagedType DEF Damaged
    <3>2. [id |-> written + 1, prev |-> mem[p].prev, sig |-> mem[p].sig] \in Line
      BY Types DEF Line, CallType
    <3>3. QED
      BY <1>10, <3>1, <3>2 DEF AppendEntry
  <2>2. /\ UNCHANGED <<keyFile, losses, published, anchors, cache, mem>>
        /\ pc'[p] \in {"sync", "count"} /\ \A q \in Procs \ {p} : pc'[q] = pc[q]
    BY <1>10, KeyTypes DEF AppendEntry, Goto
  <2>3. (losses = 0 /\ KeysAgree) => \A i \in 1..Len(log') : OfTheKey(log'[i].sig)
    BY <2>1, KeyTypes DEF KeysAgree, OfTheKey
  <2>4. AnchorsSigned => \A k \in 1..Len(anchors') : anchors'[k].sig # NoKey
    BY <2>2 DEF AnchorsSigned
  <2>5. (losses = 0 /\ KeysAgree) =>
            /\ OfTheKey(mem'[p].sig) /\ OfTheKey(cache'[p]) /\ OfTheKey(published')
            /\ \A k \in 1..Len(anchors') : OfTheKey(anchors'[k].sig)
    BY <2>2 DEF KeysAgree
  <2>6. QED
    BY <2>2, <2>3, <2>4, <2>5, KeyFrame
<1>11. ASSUME NEW p \in Procs, AppendAnchor(p) PROVE KeyInv'
  <2>1. /\ anchors' = Append(anchors, [count |-> mem[p].count, head |-> mem[p].head,
                                       sig |-> mem[p].sig])
        /\ UNCHANGED <<keyFile, losses, published, log, cache>> /\ pc[p] = "record"
    BY <1>11 DEF AppendAnchor
  <2>2. /\ pc'[p] = "idle" /\ mem'[p].sig = NoKey
        /\ \A q \in Procs \ {p} : pc'[q] = pc[q] /\ mem'[q] = mem[q]
    BY <1>11, LeaveKeys DEF AppendAnchor
  <2>3. /\ \A k \in 1..Len(anchors) : anchors'[k] = anchors[k]
        /\ Len(anchors') = Len(anchors) + 1 /\ anchors'[Len(anchors) + 1].sig = mem[p].sig
    BY <2>1, KeyTypes DEF CallType
  <2>4. mem[p].sig # NoKey
    BY <2>1 DEF KeyInv, AnchorsSigned
  <2>5. AnchorsSigned => \A k \in 1..Len(anchors') : anchors'[k].sig # NoKey
    BY <2>3, <2>4, KeyTypes DEF AnchorsSigned
  <2>6. (losses = 0 /\ KeysAgree) =>
            /\ OfTheKey(mem'[p].sig) /\ OfTheKey(cache'[p]) /\ OfTheKey(published')
            /\ \A i \in 1..Len(log') : OfTheKey(log'[i].sig)
            /\ \A k \in 1..Len(anchors') : OfTheKey(anchors'[k].sig)
    BY <2>1, <2>2, <2>3, KeyTypes DEF KeysAgree, OfTheKey
  <2>7. QED
    BY <2>1, <2>2, <2>5, <2>6, KeyFrame
<1>12. ASSUME NEW p \in Procs, Kill(p) PROVE KeyInv'
  <2>1. /\ pc'[p] = "idle" /\ mem'[p].sig = NoKey
        /\ \A q \in Procs \ {p} : pc'[q] = pc[q] /\ mem'[q] = mem[q]
    BY <1>12, LeaveKeys DEF Kill
  <2>2. /\ cache'[p] = NoKey /\ \A q \in Procs \ {p} : cache'[q] = cache[q]
        /\ UNCHANGED <<keyFile, losses, published, log, anchors>>
    BY <1>12, KeyTypes DEF Kill
  <2>3. AnchorsSigned => \A k \in 1..Len(anchors') : anchors'[k].sig # NoKey
    BY <2>2 DEF AnchorsSigned
  <2>4. (losses = 0 /\ KeysAgree) =>
            /\ OfTheKey(mem'[p].sig) /\ OfTheKey(cache'[p]) /\ OfTheKey(published')
            /\ \A i \in 1..Len(log') : OfTheKey(log'[i].sig)
            /\ \A k \in 1..Len(anchors') : OfTheKey(anchors'[k].sig)
    BY <2>1, <2>2 DEF KeysAgree, OfTheKey
  <2>5. QED
    BY <2>1, <2>2, <2>3, <2>4, KeyFrame
<1>13. CASE PowerLoss
  <2>1. losses' = losses + 1 /\ losses' # 0
    BY <1>13, KeyTypes DEF PowerLoss
  <2>2. AnchorsSigned'
    BY <1>13 DEF PowerLoss, KeyInv, AnchorsSigned
  <2>3. QED
    BY <2>1, <2>2 DEF KeyInv
<1>14. CASE Writeback \/ UNCHANGED vars
  BY <1>14 DEF Writeback, vars, KeyInv, AnchorsSigned, KeysAgree, OfTheKey
<1>15. QED
  BY <1>4, <1>5, <1>6, <1>7, <1>8, <1>9, <1>10, <1>11, <1>12, <1>13, <1>14,
     LoadKeyKeeps, NewKeyKeeps
     DEF Next, Step

\* As long as the host keeps its power, every signature and the published key are
\* of the one key in the file, and no anchor is unsigned (OneKey), for any number
\* of processes that find no key file at the same time or die while they make it.
THEOREM KeyIsOne == Spec => []OneKey
<1>1. TypeOK /\ KeyInv => OneKey
  <2> SUFFICES ASSUME TypeOK, KeyInv PROVE OneKey
    OBVIOUS
  <2>1. DOMAIN log = 1..Len(log) /\ DOMAIN anchors = 1..Len(anchors)
    BY KeyTypes
  <2>2. QED
    BY <2>1 DEF KeyInv, AnchorsSigned, KeysAgree, OfTheKey, OneKey, Signatures
<1>2. QED
  BY <1>1, KeyInvInit, KeyInvNext, CustodyTypeCorrect, PTL DEF Spec
------------------------------------------------------------------------------
(* The cadence of anchors: every multiple of ANCHOR_EVERY is anchored, or  *)
(* some process is at a point from which it will anchor it.                *)

Multiple(n) == n % AnchorEvery = 0

OnTheWay(p, n) ==
  mem[p].call = "anchor" /\ (pc[p] \in {"fsync", "entries"} \/ mem[p].count >= n)

\* p has added an entry and has not yet counted them.
Counting(p) == pc[p] \in {"sync", "count"}

Covered(n) ==
  \/ \E k \in 1..Len(anchors) : anchors[k].count >= n
  \/ \E p \in Procs : OnTheWay(p, n)
  \/ n = Len(log) /\ \E p \in Procs : Counting(p)

Cadence ==
  (AnchorEvery # 0 /\ ~ missed) => \A n \in 1..Len(log) : Multiple(n) => Covered(n)

\* A step of p that leaves the log and the anchors alone: what p was about to
\* anchor has to stay covered, unless an anchor is missed.
LEMMA CadenceFrame ==
  ASSUME Cadence, NEW p \in Procs, UNCHANGED <<log, anchors>>, missed => missed',
         \A q \in Procs \ {p} : pc'[q] = pc[q] /\ mem'[q] = mem[q],
         \A n \in 1..Len(log) : (~ missed' /\ AnchorEvery # 0 /\ Multiple(n) /\ OnTheWay(p, n))
            => OnTheWay(p, n)',
         (~ missed' /\ AnchorEvery # 0 /\ Counting(p) /\ Multiple(Len(log)))
            => Counting(p)' \/ OnTheWay(p, Len(log))'
  PROVE  Cadence'
<1> SUFFICES ASSUME AnchorEvery # 0, ~ missed', NEW n \in 1..Len(log), Multiple(n)
             PROVE  Covered(n)'
  BY DEF Cadence, Multiple
<1>1. Covered(n)
  BY DEF Cadence
<1>2. \A q \in Procs \ {p} : (OnTheWay(q, n) => OnTheWay(q, n)') /\ (Counting(q) => Counting(q)')
  BY DEF OnTheWay, Counting
<1>3. CASE \E k \in 1..Len(anchors) : anchors[k].count >= n
  BY <1>3 DEF Covered
<1>4. CASE \E q \in Procs : OnTheWay(q, n)
  BY <1>2, <1>4 DEF Covered
<1>5. CASE n = Len(log) /\ \E q \in Procs : Counting(q)
  BY <1>2, <1>5 DEF Covered
<1>6. QED
  BY <1>1, <1>3, <1>4, <1>5 DEF Covered

\* A process in none of these points has nothing to anchor.
LEMMA CadenceIdle ==
  ASSUME Cadence, NEW p \in Procs, UNCHANGED <<log, anchors>>, missed => missed',
         \A q \in Procs \ {p} : pc'[q] = pc[q] /\ mem'[q] = mem[q],
         ~ missed' => mem[p].call # "anchor" /\ ~ Counting(p)
  PROVE  Cadence'
<1>1. \A n : ~ missed' => ~ OnTheWay(p, n)
  BY DEF OnTheWay
<1>2. QED
  BY <1>1, CadenceFrame

\* The key: an anchor gets it and goes on to its record, or is missed.
LEMMA CadenceKey ==
  ASSUME TypeOK, IInv, Cadence, NEW p \in Procs,
         LoadKey(p) \/ CreateKeyFile(p) \/ WriteKey(p)
  PROVE  Cadence'
<1>1. /\ UNCHANGED <<log, anchors>> /\ (missed => missed') /\ pc[p] \in KeyPoints
      /\ \A q \in Procs \ {p} : pc'[q] = pc[q] /\ mem'[q] = mem[q]
  <2>1. missed => missed'
    BY DEF LoadKey, CreateKeyFile, WriteKey, KeyFails, bounds
  <2>2. pc[p] \in KeyPoints
    BY DEF LoadKey, CreateKeyFile, WriteKey, KeyPoints
  <2>3. QED
    BY <2>1, <2>2, KeyStep DEF IInv
<1>2. ~ Counting(p)
  BY <1>1 DEF Counting, KeyPoints
<1>3. CASE mem[p].call # "anchor"
  BY <1>1, <1>2, <1>3, CadenceIdle
<1>4. CASE mem[p].call = "anchor"
  <2>1. missed' \/ mem' = mem \/ \E k : mem' = [mem EXCEPT ![p].sig = k]
    BY <1>4 DEF LoadKey, CreateKeyFile, WriteKey, KeyFails, UseKey
  <2>2. missed' \/ (mem'[p].call = mem[p].call /\ mem'[p].count = mem[p].count)
    BY <2>1, Types DEF CallType
  <2>3. \A n : OnTheWay(p, n) /\ ~ missed' => OnTheWay(p, n)'
    BY <1>1, <2>2 DEF OnTheWay, KeyPoints
  <2>4. QED
    BY <1>1, <1>2, <2>3, CadenceFrame
<1>5. QED
  BY <1>3, <1>4

\* A new entry may be the one that is due, and its writer goes on to count; no
\* other process is between its entry and its count, as p holds the lock.
LEMMA CadenceAppend ==
  ASSUME TypeOK, IInv, Cadence, NEW p \in Procs, AppendEntry(p)
  PROVE  Cadence'
<1>1. /\ pc[p] = "append" /\ UNCHANGED <<mem, anchors, missed>>
      /\ pc'[p] \in {"sync", "count"} /\ \A q \in Procs \ {p} : pc'[q] = pc[q]
  BY Types DEF AppendEntry, Goto
<1>2. Len(log') = Len(log) + 1 /\ Len(log) \in Nat
  BY Types DEF AppendEntry
<1>3. mem[p].call = "preserve" /\ lock = p
  BY <1>1 DEF IInv, ProcInv, CallOfPoint, LockHeld, Preserving
<1>4. \A q \in Procs : ~ Counting(q)
  <2> SUFFICES ASSUME NEW q \in Procs, Counting(q) PROVE FALSE
    OBVIOUS
  <2>1. mem[q].call = "preserve" /\ lock = q
    BY DEF IInv, ProcInv, CallOfPoint, LockHeld, Preserving, Counting
  <2>2. QED
    BY <1>1, <1>3, <2>1 DEF Counting
<1> SUFFICES ASSUME AnchorEvery # 0, ~ missed', NEW n \in 1..Len(log'), Multiple(n)
             PROVE  Covered(n)'
  BY DEF Cadence, Multiple
<1>5. CASE n = Len(log')
  BY <1>1, <1>5 DEF Covered, Counting
<1>6. CASE n # Len(log')
  <2>1. n \in 1..Len(log)
    BY <1>2, <1>6
  <2>2. Covered(n)
    BY <1>1, <2>1 DEF Cadence
  <2>3. \A q \in Procs : OnTheWay(q, n) => OnTheWay(q, n)'
    BY <1>1, <1>3 DEF OnTheWay
  <2>4. QED
    BY <1>1, <1>4, <2>2, <2>3 DEF Covered
<1>7. QED
  BY <1>5, <1>6

\* An anchor that is on the way arrives.
LEMMA CadenceAnchor ==
  ASSUME TypeOK, IInv, Cadence, NEW p \in Procs, AppendAnchor(p)
  PROVE  Cadence'
<1>1. /\ anchors' = Append(anchors, [count |-> mem[p].count, head |-> mem[p].head,
                                     sig |-> mem[p].sig])
      /\ UNCHANGED <<log, missed>> /\ pc[p] = "record"
  BY DEF AppendAnchor, bounds
<1>2. \A q \in Procs \ {p} : pc'[q] = pc[q] /\ mem'[q] = mem[q]
  BY LeaveEffect DEF AppendAnchor
<1>3. /\ Len(anchors') = Len(anchors) + 1 /\ Len(anchors) \in Nat
      /\ \A k \in 1..Len(anchors) : anchors'[k] = anchors[k]
      /\ anchors'[Len(anchors) + 1].count = mem[p].count
  BY <1>1, Types DEF CallType
<1> SUFFICES ASSUME AnchorEvery # 0, ~ missed', NEW n \in 1..Len(log), Multiple(n)
             PROVE  Covered(n)'
  BY <1>1 DEF Cadence, Multiple
<1>4. Covered(n)
  BY <1>1 DEF Cadence
<1>5. \A q \in Procs \ {p} : (OnTheWay(q, n) => OnTheWay(q, n)') /\ (Counting(q) => Counting(q)')
  BY <1>2 DEF OnTheWay, Counting
<1>6. CASE \E k \in 1..Len(anchors) : anchors[k].count >= n
  BY <1>3, <1>6 DEF Covered
<1>7. CASE OnTheWay(p, n)
  <2>1. mem[p].count >= n
    BY <1>1, <1>7 DEF OnTheWay
  <2>2. Len(anchors) + 1 \in 1..Len(anchors')
    BY <1>3
  <2>3. QED
    BY <1>3, <2>1, <2>2 DEF Covered
<1>8. CASE \E q \in Procs \ {p} : OnTheWay(q, n)
  BY <1>5, <1>8 DEF Covered
<1>9. CASE n = Len(log) /\ \E q \in Procs : Counting(q)
  <2>1. ~ Counting(p)
    BY <1>1 DEF Counting
  <2>2. QED
    BY <1>1, <1>5, <1>9, <2>1 DEF Covered
<1>10. QED
  BY <1>4, <1>6, <1>7, <1>8, <1>9 DEF Covered

LEMMA CadenceInit == Init => Cadence
BY DEF Init, Cadence

LEMMA CadenceNext == TypeOK /\ IInv /\ Cadence /\ [Next]_vars => Cadence'
<1> SUFFICES ASSUME TypeOK, IInv, Cadence, [Next]_vars PROVE Cadence'
  OBVIOUS
<1> USE DEF file, keys, bounds
<1>1. ASSUME NEW p \in Procs PROVE CallOfPoint(p)
  BY DEF IInv, ProcInv
<1>2. ASSUME NEW p \in Procs, Call(p) PROVE Cadence'
  <2>1. pc[p] = "idle" /\ UNCHANGED <<log, anchors, missed>>
    BY <1>2 DEF Call, StartPreserve, StartAnchor, StartExport, Begin
  <2>2. \A q \in Procs \ {p} : pc'[q] = pc[q] /\ mem'[q] = mem[q]
    BY <1>2, Types DEF Call, StartPreserve, StartAnchor, StartExport, Begin, Goto
  <2>3. mem[p].call # "anchor" /\ ~ Counting(p)
    BY <1>1, <2>1 DEF CallOfPoint, Counting
  <2>4. QED
    BY <2>1, <2>2, <2>3, CadenceIdle
<1>3. ASSUME NEW p \in Procs, Lock(p) \/ GetPreviousHash(p) PROVE Cadence'
  <2>1. pc[p] \in {"lock", "previous"} /\ UNCHANGED <<log, anchors, missed>>
    BY <1>3 DEF Lock, GetPreviousHash
  <2>2. \A q \in Procs \ {p} : pc'[q] = pc[q] /\ mem'[q] = mem[q]
    BY <1>3, Types DEF Lock, GetPreviousHash, Goto
  <2>3. mem[p].call # "anchor" /\ ~ Counting(p)
    BY <1>1, <2>1 DEF CallOfPoint, Counting
  <2>4. QED
    BY <2>1, <2>2, <2>3, CadenceIdle
<1>4. ASSUME NEW p \in Procs, AppendFails(p) PROVE Cadence'
  <2>1. pc[p] = "append" /\ UNCHANGED <<log, anchors, missed>>
    BY <1>4 DEF AppendFails
  <2>2. \A q \in Procs \ {p} : pc'[q] = pc[q] /\ mem'[q] = mem[q]
    BY <1>4, LeaveEffect DEF AppendFails
  <2>3. mem[p].call # "anchor" /\ ~ Counting(p)
    BY <1>1, <2>1 DEF CallOfPoint, Counting
  <2>4. QED
    BY <2>1, <2>2, <2>3, CadenceIdle
<1>5. ASSUME NEW p \in Procs, FsyncEntry(p) \/ FsyncLog(p) PROVE Cadence'
  <2>1. /\ UNCHANGED <<mem, log, anchors, missed>>
        /\ \/ pc[p] = "sync" /\ pc'[p] = "count"
           \/ pc[p] = "fsync" /\ pc'[p] = "entries"
        /\ \A q \in Procs \ {p} : pc'[q] = pc[q]
    BY <1>5, Types DEF FsyncEntry, FsyncLog, Goto
  <2>2. (\A n : OnTheWay(p, n) => OnTheWay(p, n)') /\ (Counting(p) => Counting(p)')
    BY <2>1 DEF OnTheWay, Counting
  <2>3. QED
    BY <2>1, <2>2, CadenceFrame
\* The count that finds a multiple makes its process an anchoring one.
<1>6. ASSUME NEW p \in Procs, CountAndUnlock(p) PROVE Cadence'
  <2>1. pc[p] = "count" /\ UNCHANGED <<log, anchors>> /\ (missed => missed')
    BY <1>6 DEF CountAndUnlock
  <2>2. mem[p].call # "anchor"
    BY <1>1, <2>1 DEF CallOfPoint
  <2>3. \A q \in Procs \ {p} : pc'[q] = pc[q] /\ mem'[q] = mem[q]
    BY <1>6, Types DEF CountAndUnlock, Leave, Goto
  <2>4. ASSUME ~ missed', AnchorEvery # 0, Multiple(Len(log)) PROVE OnTheWay(p, Len(log))'
    <3>1. Readable(log, torn)
      BY <1>6, <2>4 DEF CountAndUnlock
    <3>2. pc' = [pc EXCEPT ![p] = "fsync"] /\ mem' = [mem EXCEPT ![p] = [NoCall EXCEPT !.call = "anchor"]]
      BY <1>6, <2>4, <3>1 DEF CountAndUnlock, Multiple, Goto
    <3>3. pc'[p] = "fsync" /\ mem'[p].call = "anchor"
      BY <3>2, Types DEF NoCall
    <3>4. QED
      BY <3>3 DEF OnTheWay
  <2>5. \A n : ~ OnTheWay(p, n)
    BY <2>2 DEF OnTheWay
  <2>6. QED
    BY <2>1, <2>3, <2>4, <2>5, CadenceFrame
\* The head that is read covers every entry there is.
<1>7. ASSUME NEW p \in Procs, ReadEntries(p) PROVE Cadence'
  <2>1. pc[p] = "entries" /\ UNCHANGED <<log, anchors>> /\ (missed => missed')
    BY <1>7 DEF ReadEntries
  <2>2. \A q \in Procs \ {p} : pc'[q] = pc[q] /\ mem'[q] = mem[q]
    BY <1>7, Types DEF ReadEntries, Leave, Goto
  <2>3. mem[p].call = "anchor" /\ ~ Counting(p)
    BY <1>1, <2>1 DEF CallOfPoint, Counting
  <2>4. ASSUME ~ missed', NEW n \in 1..Len(log) PROVE OnTheWay(p, n)'
    <3>1. log # <<>> /\ Readable(log, torn)
      <4>1. log # <<>>
        BY <2>4
      <4>2. missed' = (missed \/ ~ Readable(log, torn))
        BY <1>7 DEF ReadEntries
      <4>3. QED
        BY <2>4, <4>1, <4>2
    <3>2. mem' = [mem EXCEPT ![p].count = Len(log), ![p].head = log[Len(log)].id]
      BY <1>7, <3>1 DEF ReadEntries
    <3>3. mem'[p].call = mem[p].call /\ mem'[p].count = Len(log)
      BY <3>2, Types DEF CallType
    <3>4. QED
      BY <2>3, <3>3, Types DEF OnTheWay
  <2>5. QED
    BY <2>1, <2>2, <2>3, <2>4, CadenceFrame
<1>8. ASSUME NEW p \in Procs, Kill(p) PROVE Cadence'
  BY <1>8 DEF Kill, Cadence
<1>9. CASE PowerLoss
  BY <1>9 DEF PowerLoss, Cadence
<1>10. CASE Writeback \/ UNCHANGED vars
  BY <1>10 DEF Writeback, vars, Cadence, Covered, OnTheWay, Counting, Multiple
<1>11. QED
  BY <1>2, <1>3, <1>4, <1>5, <1>6, <1>7, <1>8, <1>9, <1>10,
     CadenceKey, CadenceAppend, CadenceAnchor
     DEF Next, Step

\* With ANCHOR_EVERY = n, at least as many entries are anchored as the latest
\* multiple of n, or somebody is on the way to do it, unless a failure cut an
\* anchor short (AnchorCadence): whatever their number, no two writers leave the
\* anchor to each other, as the count is taken before the lock is released.
THEOREM CadenceHolds == Spec => []AnchorCadence
<1>1. TypeOK /\ Cadence => AnchorCadence
  <2> SUFFICES ASSUME TypeOK, Cadence PROVE AnchorCadence
    OBVIOUS
  <2>1. DOMAIN log = 1..Len(log) /\ DOMAIN anchors = 1..Len(anchors)
    BY KeyTypes
  <2>2. QED
    BY <2>1 DEF Cadence, Covered, OnTheWay, Counting, Multiple, AnchorCadence
<1>2. QED
  BY <1>1, CadenceInit, CadenceNext, CustodyInvariance, CustodyTypeCorrect, PTL DEF Spec
------------------------------------------------------------------------------
(* The refinement of CustodyLog.                                           *)

\* Every step of the processes is a step of the abstract log, or leaves it alone.
LEMMA StepRefines ==
  ASSUME TypeOK, IInv, [Next]_vars
  PROVE  [Abstract!Next]_<<log, torn, anchors>>
<1> SUFFICES ASSUME ~ UNCHANGED <<log, torn, anchors>> PROVE Abstract!Next
  OBVIOUS
<1>1. /\ Len(log) \in Nat /\ log \in Seq(Line) /\ written \in Nat
      /\ mem \in [Procs -> CallType]
      /\ anchors \in Seq(AnchorRecord) /\ Len(anchors) \in Nat
      /\ synced \in 0..Len(log)
      /\ \A i \in 1..Len(log) : log[i] \in Line
  BY Types
<1>2. /\ Abstract!Damaged = Damaged /\ Abstract!Line = Line /\ Abstract!Genesis = Genesis
      /\ Abstract!HeadOf(log, FALSE) = HeadOf(log, FALSE)
  BY DEF Abstract!Damaged, Damaged, Abstract!Line, Line, Abstract!Genesis, Genesis,
         Abstract!NoKey, NoKey, Abstract!HeadOf, HeadOf
<1>3. ASSUME NEW p \in Procs, AppendEntry(p) PROVE Abstract!Next
  <2> DEFINE e == [id |-> written + 1, prev |-> mem[p].prev, sig |-> mem[p].sig]
  <2>1. /\ pc[p] = "append" /\ log' = Append(log, IF torn THEN Damaged ELSE e)
        /\ torn' = FALSE /\ UNCHANGED anchors
    BY <1>3 DEF AppendEntry, file
  <2>2. CASE torn
    BY <1>2, <2>1, <2>2 DEF Abstract!Next, Abstract!AddBehindFragment
  <2>3. CASE ~ torn
    <3>1. torn = FALSE /\ log' = Append(log, e)
      BY <2>1, <2>3 DEF TypeOK
    <3>2. e \in Line
      BY <1>1 DEF Line, CallType
    <3>3. e.prev = HeadOf(log, FALSE)
      BY <2>1, <3>1 DEF IInv, ProcInv, CallOfPoint, PreviousIsHead
    <3>4. e.id \notin {log[i].id : i \in DOMAIN log} \cup {Genesis}
      <4>1. ASSUME NEW i \in 1..Len(log) PROVE log[i].id # written + 1
        <5>1. CASE log[i] = Damaged
          BY <1>1, <5>1, DamagedType
        <5>2. CASE log[i] # Damaged
          <6>1. log[i].id \in 1..written
            BY <5>2 DEF IInv, LogInv, HashesUsed
          <6>2. QED
            BY <1>1, <6>1
        <5>3. QED
          BY <5>1, <5>2
      <4>2. written + 1 # Genesis
        BY <1>1 DEF Genesis
      <4>3. QED
        BY <1>1, <4>1, <4>2
    <3> HIDE DEF e
    <3>5. Len(log') = Len(log) + 1 /\ log'[Len(log')] = e
      BY <1>1, <3>1, <3>2, AppendFacts
    <3>6. Abstract!AddEntry
      BY <1>2, <2>1, <2>3, <3>1, <3>2, <3>3, <3>4, <3>5 DEF Abstract!AddEntry
    <3>7. QED
      BY <3>6 DEF Abstract!Next
  <2>4. QED
    BY <2>2, <2>3
<1>4. ASSUME NEW p \in Procs, AppendFails(p) PROVE Abstract!Next
  <2>1. torn' \in {torn, TRUE} /\ UNCHANGED <<log, anchors>>
    BY <1>4 DEF AppendFails
  <2>2. torn' = TRUE
    BY <2>1, Zenon
  <2>3. QED
    BY <2>1, <2>2 DEF Abstract!Next, Abstract!Tear
<1>5. ASSUME NEW p \in Procs, AppendAnchor(p) PROVE Abstract!Next
  <2> DEFINE a == [count |-> mem[p].count, head |-> mem[p].head, sig |-> mem[p].sig]
  <2>1. pc[p] = "record" /\ anchors' = Append(anchors, a) /\ UNCHANGED <<log, torn>>
    BY <1>5 DEF AppendAnchor
  <2>2. a \in AnchorRecord /\ a.count = mem[p].count /\ a.head = mem[p].head
    BY <1>1 DEF AnchorRecord, CallType
  <2> HIDE DEF a
  <2>3. /\ mem[p].count \in 1..Len(log) /\ log[mem[p].count].id = mem[p].head
        /\ \A i \in 1..mem[p].count : log[i] # Damaged
    BY <2>1 DEF IInv, ProcInv, CallOfPoint, HeadInLog
  <2>4. Len(anchors') = Len(anchors) + 1 /\ anchors'[Len(anchors')] = a
    BY <1>1, <2>1, <2>2, AppendFacts
  <2>5. Abstract!AddAnchor(mem[p].count)
    BY <1>2, <2>1, <2>2, <2>3, <2>4 DEF Abstract!AddAnchor
  <2>6. QED
    BY <2>3, <2>5 DEF Abstract!Next
<1>6. ASSUME PowerLoss PROVE Abstract!Next
  <2>1. PICK n \in synced..Len(log) :
          /\ log' = SubSeq(log, 1, n)
          /\ torn' \in IF n < Len(log) \/ torn THEN BOOLEAN ELSE {FALSE}
    BY <1>6 DEF PowerLoss
  <2>2. torn' \in BOOLEAN
    BY <2>1, Zenon
  <2>3. n \in 0..Len(log)
    BY <1>1
  <2>4. Abstract!Lose(n)
    BY <1>6, <2>1, <2>2 DEF PowerLoss, Abstract!Lose
  <2>5. QED
    BY <2>3, <2>4 DEF Abstract!Next
<1>7. ASSUME NEW p \in Procs,
             \/ Call(p) \/ Kill(p)
             \/ Lock(p) \/ GetPreviousHash(p) \/ FsyncEntry(p) \/ CountAndUnlock(p)
             \/ FsyncLog(p) \/ ReadEntries(p)
             \/ LoadKey(p) \/ CreateKeyFile(p) \/ WriteKey(p)
      PROVE  UNCHANGED <<log, torn, anchors>>
  BY <1>7
     DEF Call, StartPreserve, StartAnchor, StartExport, Kill, Lock, GetPreviousHash, FsyncEntry,
         CountAndUnlock, FsyncLog, ReadEntries, LoadKey, CreateKeyFile, WriteKey, file
<1>8. ASSUME Writeback \/ UNCHANGED vars PROVE UNCHANGED <<log, torn, anchors>>
  BY <1>8 DEF Writeback, vars, file
<1>9. QED
  BY <1>3, <1>4, <1>5, <1>6, <1>7, <1>8 DEF Next, Step

\* The processes, with their lock, kills and failed writes, implement the
\* abstract custody log, in which linking and adding an entry is one step.
THEOREM CustodyRefinement == Spec => ImplementsLog
<1>1. Init => Abstract!Init
  BY DEF Init, Abstract!Init
<1>2. TypeOK /\ IInv /\ [Next]_vars => [Abstract!Next]_<<log, torn, anchors>>
  BY StepRefines
<1>3. QED
  BY <1>1, <1>2, CustodyTypeCorrect, CustodyInvariance, PTL
     DEF Spec, ImplementsLog, Abstract!Spec, Abstract!logVars
------------------------------------------------------------------------------
(* The damage of failed writes.                                            *)

LEMMA DamageFacts ==
  ASSUME TypeOK
  PROVE  /\ IsFiniteSet(DamagedLines) /\ Cardinality(DamagedLines) \in Nat
         /\ DamagedLines \subseteq 1..Len(log) /\ tears \in Nat /\ losses \in Nat
<1>1. DamagedLines \subseteq 1..Len(log) /\ Len(log) \in Nat /\ tears \in Nat /\ losses \in Nat
  BY Types DEF DamagedLines, TypeOK
<1>2. IsFiniteSet(1..Len(log))
  BY <1>1, FS_Interval
<1>3. IsFiniteSet(DamagedLines)
  BY <1>1, <1>2, FS_Subset
<1>4. QED
  BY <1>1, <1>3, FS_CardinalityType

\* An unfinished line becomes a damaged one with the next entry.
LEMMA AppendDamage ==
  ASSUME TypeOK, DamageIsBounded, NEW p \in Procs, AppendEntry(p)
  PROVE  DamageIsBounded'
<1> DEFINE e == IF torn THEN Damaged
                ELSE [id |-> written + 1, prev |-> mem[p].prev, sig |-> mem[p].sig]
<1>1. log' = Append(log, e) /\ torn' = FALSE /\ UNCHANGED <<tears, losses>>
  BY DEF AppendEntry
<1>2. log \in Seq(Line) /\ Len(log) \in Nat /\ torn \in BOOLEAN
  BY Types DEF TypeOK
<1>3. e = Damaged <=> torn
  <2>1. ~ torn => e.id = written + 1 /\ written \in Nat
    BY Types
  <2>2. QED
    BY <2>1, DamagedType
<1> HIDE DEF e
<1>4. /\ DOMAIN log' = 1..(Len(log) + 1) /\ DOMAIN log = 1..Len(log) /\ log'[Len(log) + 1] = e
      /\ \A i \in 1..Len(log) : log'[i] = log[i]
  BY <1>1, <1>2
<1>5. DamagedLines' = IF torn THEN DamagedLines \cup {Len(log) + 1} ELSE DamagedLines
  BY <1>2, <1>3, <1>4 DEF DamagedLines
<1>6. CASE torn
  <2>1. /\ Cardinality(DamagedLines \cup {Len(log) + 1}) =
             IF Len(log) + 1 \in DamagedLines THEN Cardinality(DamagedLines) ELSE Cardinality(DamagedLines) + 1
        /\ Cardinality(DamagedLines) \in Nat
    BY DamageFacts, FS_AddElement
  <2>2. Cardinality(DamagedLines') <= Cardinality(DamagedLines) + 1 /\ Cardinality(DamagedLines') \in Nat
    BY <1>5, <1>6, <2>1
  <2>3. QED
    BY <1>1, <1>6, <2>2, DamageFacts DEF DamageIsBounded
<1>7. CASE ~ torn
  BY <1>1, <1>5, <1>7 DEF DamageIsBounded
<1>8. QED
  BY <1>6, <1>7

\* A power loss leaves a prefix of the log, and at most one unfinished line.
LEMMA LossDamage ==
  ASSUME TypeOK, DamageIsBounded, PowerLoss
  PROVE  DamageIsBounded'
<1>1. PICK n \in synced..Len(log) :
        log' = SubSeq(log, 1, n) /\ torn' \in IF n < Len(log) \/ torn THEN BOOLEAN ELSE {FALSE}
  BY DEF PowerLoss
<1>2. losses' = losses + 1 /\ tears' = tears /\ torn' \in BOOLEAN
  BY <1>1 DEF PowerLoss
<1>3. log \in Seq(Line) /\ Len(log) \in Nat /\ n \in 0..Len(log) /\ torn \in BOOLEAN
  BY Types DEF TypeOK
<1>4. DOMAIN log' = 1..n /\ \A i \in 1..n : i \in DOMAIN log /\ log'[i] = log[i]
  BY <1>1, <1>3
<1>5. DamagedLines' \in SUBSET DamagedLines
  BY <1>4 DEF DamagedLines
<1>6. Cardinality(DamagedLines') <= Cardinality(DamagedLines) /\ Cardinality(DamagedLines') \in Nat
  BY <1>5, DamageFacts, FS_Subset, FS_CardinalityType
<1>7. QED
  BY <1>2, <1>3, <1>6, DamageFacts DEF DamageIsBounded

\* For any number of writers, failed writes and power losses, a failed write
\* costs at most the line behind it besides its own (DamageIsBounded).
THEOREM DamageStaysBounded == Spec => []DamageIsBounded
<1>1. Init => DamageIsBounded
  <2> SUFFICES ASSUME Init PROVE DamageIsBounded
    OBVIOUS
  <2>1. DamagedLines = {} /\ torn = FALSE /\ tears = 0 /\ losses = 0
    BY DEF Init, DamagedLines
  <2>2. QED
    BY <2>1, FS_EmptySet DEF DamageIsBounded
<1>2. TypeOK /\ DamageIsBounded /\ [Next]_vars => DamageIsBounded'
  <2> SUFFICES ASSUME TypeOK, DamageIsBounded, [Next]_vars PROVE DamageIsBounded'
    OBVIOUS
  <2>1. ASSUME UNCHANGED <<log, torn, tears, losses>> PROVE DamageIsBounded'
    BY <2>1 DEF DamageIsBounded, DamagedLines
  <2>2. ASSUME NEW p \in Procs, Call(p) \/ Kill(p) PROVE DamageIsBounded'
    BY <2>1, <2>2 DEF Call, StartPreserve, StartAnchor, StartExport, Kill, file, bounds
  <2>3. ASSUME NEW p \in Procs, AppendFails(p) PROVE DamageIsBounded'
    <3>1. log' = log /\ tears' = tears + 1 /\ losses' = losses /\ torn' \in {torn, TRUE}
      BY <2>3 DEF AppendFails
    <3>2. DamagedLines' = DamagedLines /\ torn \in BOOLEAN
      BY <3>1 DEF DamagedLines, TypeOK
    <3>3. QED
      BY <3>1, <3>2, DamageFacts DEF DamageIsBounded
  <2>4. ASSUME NEW p \in Procs, Step(p) PROVE DamageIsBounded'
    <3>1. CASE AppendEntry(p)
      BY <3>1, AppendDamage
    <3>2. CASE ~ AppendEntry(p)
      BY <2>1, <2>4, <3>2
         DEF Step, Lock, GetPreviousHash, FsyncEntry, CountAndUnlock, FsyncLog, ReadEntries,
             AppendAnchor, LoadKey, CreateKeyFile, WriteKey, file, bounds
    <3>3. QED
      BY <3>1, <3>2
  <2>5. CASE Writeback \/ UNCHANGED vars
    BY <2>1, <2>5 DEF Writeback, vars, file, bounds
  <2>6. QED
    BY <2>2, <2>3, <2>4, <2>5, LossDamage DEF Next
<1>3. QED
  BY <1>1, <1>2, CustodyTypeCorrect, PTL DEF Spec
==============================================================================
