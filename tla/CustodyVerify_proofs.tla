------------------------- MODULE CustodyVerify_proofs -------------------------
(***************************************************************************)
(* What TLAPS proves of CustodyVerify, for logs of any length, with any    *)
(* number of torn lines, unsigned entries, anchors and changes: typing,    *)
(* that a VALID incident is unaltered, that anchors expose truncation,     *)
(* that one change is located, and that what nobody touched verifies.      *)
(***************************************************************************)
EXTENDS CustodyVerify, WellFoundedInduction, TLAPS

Entry == [core : CoreType, signature : CoreType]

\* What verify_incident relies on: a hash is only known for what was hashed.
DigestsAreOwn == \A n \in DOMAIN digests : digests[n].incident = n /\ digests[n].bundle = n

\* What the anchors rely on, as long as nothing but the tail was removed.
AnchorStands(a) ==
  /\ a.count \in Nat \ {0}
  /\ changes = {} => a.count <= Len(log)
  /\ a.count <= Len(log) => log[a.count].core.hash = a.head
AnchorsStand ==
  (\A c \in changes : c.what = "tail") => \A k \in DOMAIN anchors : AnchorStands(anchors[k])

IInv == TypeOK /\ DigestsAreOwn /\ AnchorsStand
------------------------------------------------------------------------------
(* Lemmas.                                                                 *)

\* A set of natural numbers that is not empty has a least element.
LEMMA LeastExists ==
  ASSUME NEW T \in SUBSET Nat, T # {}
  PROVE  \E m \in T : \A k \in T : m <= k
<1> DEFINE R == OpToRel(<, Nat)
<1>1. IsWellFoundedOn(R, Nat)
  BY NatLessThanWellFounded
<1>2. PICK m \in T : \A y \in T : ~ (<<y, m>> \in R)
  <2> HIDE DEF R
  <2> QED BY <1>1, WFMin
<1>3. R = {ss \in Nat \X Nat : ss[1] < ss[2]}
  BY Zenon DEF OpToRel
<1>4. ASSUME NEW y \in T PROVE ~ (y < m)
  <2> HIDE DEF R
  <2>1. <<y, m>> \notin {ss \in Nat \X Nat : ss[1] < ss[2]}
    BY <1>2, <1>3
  <2> QED BY <2>1
<1>5. QED
  BY <1>4

\* An entry is a line with a core and a signature, and so is a damaged line.
LEMMA EntryTypes ==
  /\ Damaged \in Entry /\ Nothing \in CoreType
  /\ \A n, prev \in Int : CoreOf(n, prev) \in CoreType
  /\ \A core \in CoreType : ContentOf(core) \in ContentType
BY DEF Damaged, Nothing, CoreOf, ContentOf, Entry, CoreType, ContentType, Absent

\* Changing one field of a core leaves a core, whose other fields are as they were.
LEMMA ChangedCore ==
  ASSUME NEW core \in CoreType, NEW f \in Fields, NEW value \in Int
  PROVE  [core EXCEPT ![f] = value] \in CoreType
BY DEF CoreType, Fields, HashedFields

\* The log is a sequence of entries.
LEMMA LogFacts ==
  ASSUME TypeOK
  PROVE  log \in Seq(Entry) /\ Len(log) \in Nat /\ DOMAIN log = 1..Len(log)
<1>1. log \in Seq(Entry)
  BY DEF TypeOK, Entry
<1>2. QED
  BY <1>1

\* The hash preserve_bundle chains to is a number.
LEMMA PreviousHashType ==
  ASSUME TypeOK
  PROVE  PreviousHash \in Int
<1>1. CASE log = <<>> \/ log[Len(log)] = Damaged
  BY <1>1 DEF PreviousHash, Genesis
<1>2. CASE ~ (log = <<>> \/ log[Len(log)] = Damaged)
  <2>1. Len(log) \in DOMAIN log /\ log[Len(log)] \in Entry
    <3> HIDE DEF Entry
    <3> QED BY <1>2, LogFacts
  <2>2. Core(Len(log)).hash \in Int
    BY <2>1 DEF Core, Entry, CoreType
  <2>3. QED
    BY <1>2, <2>2 DEF PreviousHash
<1>3. QED
  BY <1>1, <1>2
------------------------------------------------------------------------------
(* The inductive invariant.                                                *)

\* It holds before the first entry.
LEMMA InitIInv == Init => IInv
BY DEF Init, IInv, TypeOK, DigestsAreOwn, AnchorsStand, ContentType, CoreType, Fields

\* preserve_bundle keeps it: the new entry is behind every anchored one.
LEMMA PreserveIInv ==
  ASSUME IInv, NEW signed \in BOOLEAN, Preserve(signed)
  PROVE  IInv'
<1> DEFINE core == CoreOf(New, PreviousHash)
<1>1. New \in Nat /\ PreviousHash \in Int
  BY PreviousHashType DEF IInv, TypeOK, New
<1>2. core \in CoreType /\ ContentOf(core) \in ContentType /\ Nothing \in CoreType
  BY <1>1, EntryTypes
<1>3. /\ log' = Append(log, [core |-> core, signature |-> IF signed THEN core ELSE Nothing])
      /\ digests' = Append(digests, ContentOf(core)) /\ held' = Append(held, New)
      /\ UNCHANGED <<anchors, tears, changes>> /\ changes = {}
  BY DEF Preserve
<1>4. [core |-> core, signature |-> IF signed THEN core ELSE Nothing] \in Entry
  BY <1>2 DEF Entry
<1>5. TypeOK'
  <2>1. log' \in Seq(Entry)
    BY <1>3, <1>4 DEF IInv, TypeOK, Entry
  <2>2. digests' \in Seq(ContentType) /\ held' \in Seq(Int) /\ Len(held') = Len(digests')
    <3>1. digests \in Seq(ContentType) /\ held \in Seq(Int) /\ Len(held) = Len(digests)
      BY DEF IInv, TypeOK
    <3> HIDE DEF core
    <3>2. digests' \in Seq(ContentType) /\ Len(digests') = Len(digests) + 1
      BY <1>2, <1>3, <3>1
    <3>3. held' \in Seq(Int) /\ Len(held') = Len(held) + 1
      BY <1>1, <1>3, <3>1
    <3>4. QED
      BY <3>1, <3>2, <3>3
  <2>3. QED
    BY <1>3, <2>1, <2>2 DEF IInv, TypeOK, Entry
<1>6. DigestsAreOwn'
  <2>1. ContentOf(core).incident = New /\ ContentOf(core).bundle = New
    BY DEF ContentOf, CoreOf
  <2>2. QED
    BY <1>1, <1>3, <2>1 DEF IInv, TypeOK, DigestsAreOwn, New
<1>7. AnchorsStand'
  <2>1. \A k \in DOMAIN anchors : AnchorStands(anchors[k])
    BY <1>3 DEF IInv, AnchorsStand
  <2>2. ASSUME NEW k \in DOMAIN anchors PROVE AnchorStands(anchors[k])'
    <3>1. anchors[k].count \in Nat \ {0} /\ anchors[k].count <= Len(log)
          /\ log[anchors[k].count].core.hash = anchors[k].head
      BY <1>3, <2>1 DEF AnchorStands
    <3>2. log \in Seq(Entry)
      BY DEF IInv, TypeOK, Entry
    <3>3. Len(log') = Len(log) + 1 /\ log'[anchors[k].count] = log[anchors[k].count]
      BY <1>3, <3>1, <3>2
    <3>4. QED
      BY <1>3, <3>1, <3>2, <3>3 DEF AnchorStands
  <2>3. QED
    BY <1>3, <2>2 DEF AnchorsStand
<1>8. QED
  BY <1>5, <1>6, <1>7 DEF IInv

\* A torn line keeps it.
LEMMA TearIInv ==
  ASSUME IInv, Tear
  PROVE  IInv'
<1>1. log \in Seq(Entry) /\ Damaged \in Entry
  BY EntryTypes DEF IInv, TypeOK, Entry
<1>2. log' = Append(log, Damaged) /\ UNCHANGED <<digests, held, anchors, changes>> /\ changes = {}
  BY DEF Tear
<1>3. TypeOK'
  <2>1. log' \in Seq(Entry)
    BY <1>1, <1>2
  <2>2. QED
    BY <1>2, <2>1 DEF IInv, TypeOK, Entry, Tear
<1>4. DigestsAreOwn'
  BY <1>2 DEF IInv, DigestsAreOwn
<1>5. AnchorsStand'
  <2>1. \A k \in DOMAIN anchors : AnchorStands(anchors[k])
    BY <1>2 DEF IInv, AnchorsStand
  <2>2. ASSUME NEW k \in DOMAIN anchors PROVE AnchorStands(anchors[k])'
    <3>1. anchors[k].count \in Nat \ {0} /\ anchors[k].count <= Len(log)
          /\ log[anchors[k].count].core.hash = anchors[k].head
      BY <1>2, <2>1 DEF AnchorStands
    <3>2. Len(log') = Len(log) + 1 /\ log'[anchors[k].count] = log[anchors[k].count]
      BY <1>1, <1>2, <3>1
    <3>3. QED
      BY <1>1, <1>2, <3>1, <3>2 DEF AnchorStands
  <2>3. QED
    BY <1>2, <2>2 DEF AnchorsStand
<1>6. QED
  BY <1>3, <1>4, <1>5 DEF IInv

\* anchor_chain records the last entry of a log that is not empty.
LEMMA AnchorIInv ==
  ASSUME IInv, Anchor
  PROVE  IInv'
<1> DEFINE a == [count |-> Len(log), head |-> Core(Len(log)).hash]
<1>1. log \in Seq(Entry) /\ log # <<>> /\ anchors' = Append(anchors, a)
      /\ UNCHANGED <<log, digests, held, tears, changes>> /\ changes = {}
  BY DEF IInv, TypeOK, Entry, Anchor
<1>2. Len(log) \in Nat \ {0} /\ log[Len(log)] \in Entry
  BY <1>1
<1>3. a \in [count : Nat, head : Int]
  BY <1>2 DEF Core, Entry, CoreType
<1>4. TypeOK'
  BY <1>1, <1>3 DEF IInv, TypeOK
<1>5. DigestsAreOwn'
  BY <1>1 DEF IInv, DigestsAreOwn
<1>6. AnchorsStand'
  <2>1. SUFFICES ASSUME NEW k \in DOMAIN anchors' PROVE AnchorStands(anchors[k])'
    BY DEF AnchorsStand
  <2>2. anchors \in Seq([count : Nat, head : Int])
    BY DEF IInv, TypeOK
  <2>3. \A j \in DOMAIN anchors : AnchorStands(anchors[j])
    BY <1>1 DEF IInv, AnchorsStand
  <2>4. QED
    <3>1. CASE k \in DOMAIN anchors
      <4>1. anchors'[k] = anchors[k] /\ AnchorStands(anchors[k])
        BY <1>1, <2>2, <2>3, <3>1
      <4>2. QED
        BY <1>1, <4>1 DEF AnchorStands
    <3>2. CASE k \notin DOMAIN anchors
      <4>1. anchors'[k].count = Len(log) /\ anchors'[k].head = log[Len(log)].core.hash
        BY <1>1, <2>1, <2>2, <3>2 DEF Core
      <4>2. QED
        BY <1>1, <1>2, <4>1 DEF AnchorStands
    <3>3. QED
      BY <3>1, <3>2
<1>7. QED
  BY <1>4, <1>5, <1>6 DEF IInv

\* A changed field, or a changed bundle: the anchors are no longer promised anything.
LEMMA ChangeIInv ==
  ASSUME IInv,
         \/ \E i \in DOMAIN log, f \in Fields, value \in {Altered, Absent} : ChangeField(i, f, value)
         \/ \E i \in DOMAIN held, value \in {Altered, Absent, Unreadable} : ChangeBundle(i, value)
  PROVE  IInv'
<1>1. CASE \E i \in DOMAIN log, f \in Fields, value \in {Altered, Absent} : ChangeField(i, f, value)
  <2>1. PICK i \in DOMAIN log, f \in Fields, value \in {Altered, Absent} : ChangeField(i, f, value)
    BY <1>1
  <2>2. /\ log' = [log EXCEPT ![i].core[f] = value]
        /\ changes' = changes \cup {[what |-> f, at |-> i]}
        /\ UNCHANGED <<digests, held, anchors, tears>>
    BY <2>1 DEF ChangeField, Change
  <2>3. log \in Seq(Entry) /\ i \in Nat /\ log[i] \in Entry /\ value \in Int
    BY LogFacts DEF IInv, Altered, Absent
  <2>4. [log[i].core EXCEPT ![f] = value] \in CoreType
    BY <2>3, ChangedCore DEF Entry
  <2>5. [log[i] EXCEPT !.core = [log[i].core EXCEPT ![f] = value]] \in Entry
    BY <2>3, <2>4 DEF Entry
  <2>6. log' = [log EXCEPT ![i] = [log[i] EXCEPT !.core = [log[i].core EXCEPT ![f] = value]]]
    BY <2>2
  <2>7. log' \in Seq(Entry)
    BY <2>3, <2>5, <2>6
  <2>8. TypeOK'
    BY <2>2, <2>3, <2>7 DEF IInv, TypeOK, Entry
  <2>9. f # "tail"
    BY DEF Fields, HashedFields
  <2>10. QED
    <3> DEFINE c == [what |-> f, at |-> i]
    <3>1. c \in changes' /\ c.what # "tail"
      BY <2>2, <2>9
    <3>2. AnchorsStand' /\ DigestsAreOwn'
      BY <2>2, <3>1 DEF IInv, DigestsAreOwn, AnchorsStand
    <3>3. QED
      BY <2>8, <3>2 DEF IInv
<1>2. CASE \E i \in DOMAIN held, value \in {Altered, Absent, Unreadable} : ChangeBundle(i, value)
  <2>1. PICK i \in DOMAIN held, value \in {Altered, Absent, Unreadable} : ChangeBundle(i, value)
    BY <1>2
  <2>2. /\ held' = [held EXCEPT ![i] = value]
        /\ changes' = changes \cup {[what |-> "files", at |-> i]}
        /\ UNCHANGED <<log, digests, anchors, tears>>
    BY <2>1 DEF ChangeBundle, Change
  <2>3. held \in Seq(Int) /\ i \in Nat /\ value \in Int
    BY DEF IInv, TypeOK, Altered, Absent, Unreadable
  <2>4. held' \in Seq(Int) /\ Len(held') = Len(held)
    BY <2>2, <2>3
  <2>5. TypeOK'
    BY <2>2, <2>3, <2>4 DEF IInv, TypeOK
  <2>6. QED
    <3> DEFINE c == [what |-> "files", at |-> i]
    <3>1. c \in changes' /\ c.what # "tail"
      BY <2>2
    <3>2. AnchorsStand' /\ DigestsAreOwn'
      BY <2>2, <3>1 DEF IInv, DigestsAreOwn, AnchorsStand
    <3>3. QED
      BY <2>5, <3>2 DEF IInv
<1>3. QED
  BY <1>1, <1>2

\* A log that has lost its tail has kept what is in front of it.
LEMMA RemoveTailIInv ==
  ASSUME IInv, NEW n \in 0..(Len(log) - 1), RemoveTail(n)
  PROVE  IInv'
<1>1. /\ log' = SubSeq(log, 1, n)
      /\ changes' = changes \cup {[what |-> "tail", at |-> n]}
      /\ UNCHANGED <<digests, held, anchors, tears>>
  BY DEF RemoveTail, Change
<1>2. log \in Seq(Entry) /\ Len(log) \in Nat /\ n \in Nat /\ n < Len(log)
  BY DEF IInv, TypeOK, Entry
<1>3. log' \in Seq(Entry) /\ Len(log') = n /\ \A j \in 1..n : log'[j] = log[j]
  BY <1>1, <1>2
<1>4. TypeOK'
  BY <1>1, <1>2, <1>3 DEF IInv, TypeOK, Entry
<1>5. AnchorsStand'
  <2>1. SUFFICES ASSUME \A c \in changes' : c.what = "tail", NEW k \in DOMAIN anchors
                 PROVE  AnchorStands(anchors[k])'
    BY <1>1 DEF AnchorsStand
  <2>2. AnchorStands(anchors[k])
    BY <1>1, <2>1 DEF IInv, AnchorsStand
  <2>3. changes' # {}
    BY <1>1
  <2>4. QED
    BY <1>1, <1>2, <1>3, <2>2, <2>3 DEF AnchorStands
<1>6. QED
  BY <1>1, <1>4, <1>5 DEF IInv, DigestsAreOwn

\* It is an invariant of every log, however it was written and changed.
LEMMA SpecIInv == Spec => []IInv
<1>1. ASSUME IInv, [Next]_vars PROVE IInv'
  <2>1. CASE \E signed \in BOOLEAN : Preserve(signed)
    BY <1>1, <2>1, PreserveIInv
  <2>2. CASE Tear
    BY <1>1, <2>2, TearIInv
  <2>3. CASE Anchor
    BY <1>1, <2>3, AnchorIInv
  <2>4. CASE \/ \E i \in DOMAIN log, f \in Fields, value \in {Altered, Absent} : ChangeField(i, f, value)
             \/ \E i \in DOMAIN held, value \in {Altered, Absent, Unreadable} : ChangeBundle(i, value)
    BY <1>1, <2>4, ChangeIInv
  <2>5. CASE \E n \in 0..(Len(log) - 1) : RemoveTail(n)
    BY <1>1, <2>5, RemoveTailIInv
  <2>6. CASE UNCHANGED vars
    BY <1>1, <2>6 DEF vars, IInv, TypeOK, DigestsAreOwn, AnchorsStand, AnchorStands
  <2>7. QED
    BY <1>1, <2>1, <2>2, <2>3, <2>4, <2>5, <2>6 DEF Next
<1>2. QED
  BY <1>1, InitIInv, PTL DEF Spec

\* The files of the custody log and the bundles stay in their types, whatever is
\* changed in them.
THEOREM VerifierTypeCorrect == Spec => []TypeOK
BY SpecIInv, PTL DEF IInv
------------------------------------------------------------------------------
(* verify_incident.                                                        *)

\* The entry verify_incident looks at is one of the incident.
LEMMA IndexOfFacts ==
  ASSUME TypeOK, NEW n, ~ \A i \in DOMAIN log : Core(i).incident # n
  PROVE  IndexOf(n) \in DOMAIN log /\ Core(IndexOf(n)).incident = n
<1> DEFINE T == {i \in DOMAIN log : Core(i).incident = n}
<1>1. DOMAIN log \subseteq Nat /\ DOMAIN log = 1..Len(log) /\ Len(log) \in Nat
  BY LogFacts
<1>2. PICK m \in T : \A k \in T : m <= k
  <2>1. T \in SUBSET Nat /\ T # {}
    BY <1>1
  <2>2. QED
    BY <2>1, LeastExists
<1>3. m \in DOMAIN log /\ Core(m).incident = n
  BY <1>2
<1>4. ASSUME NEW j \in 1..(m - 1) PROVE Core(j).incident # n
  <2>1. j \in DOMAIN log /\ ~ (m <= j)
    BY <1>1, <1>3
  <2>2. QED
    BY <1>2, <2>1
<1>5. \E i \in DOMAIN log : Core(i).incident = n /\ \A j \in 1..(i - 1) : Core(j).incident # n
  BY <1>3, <1>4
<1>6. QED
  BY <1>5 DEF IndexOf

\* An incident is VALID only if nothing is wrong with its own entry.
LEMMA ValidHasNoCodes ==
  ASSUME NEW n, Verdict(n) = "VALID"
  PROVE  CodesAt(IndexOf(n)) = {} /\ ~ \A i \in DOMAIN log : Core(i).incident # n
<1>1. Parsed(log)
  BY DEF Verdict
<1>2. ~ \A i \in DOMAIN log : Core(i).incident # n
  BY <1>1 DEF Verdict
<1>3. CodesAt(IndexOf(n)) \cup UNION {LinkCodes(i) : i \in 1..(IndexOf(n) - 1)} = {}
  BY <1>1, <1>2, Zenon DEF Verdict
<1>4. QED
  BY <1>2, <1>3

\* An entry with which nothing is wrong has a hash that was computed from it, and
\* the bundle that it names.
LEMMA NoCodesMeans ==
  ASSUME NEW i, CodesAt(i) = {}
  PROVE  HashMatches(Core(i)) /\ Found(Core(i)) = Core(i).bundle
<1>1. LinkCodes(i) = {} /\ BundleCodes(Core(i)) = {}
  BY DEF CodesAt
<1>2. HashMatches(Core(i))
  BY <1>1 DEF LinkCodes
<1>3. Found(Core(i)) = Core(i).bundle
  BY <1>1 DEF BundleCodes
<1>4. QED
  BY <1>2, <1>3

\* Whatever was changed in the log and the bundles, and however often, an incident
\* that verify_incident finds VALID has the entry and the files it had.
THEOREM ValidIsUnaltered == Spec => []ValidMeansUnaltered
<1>1. ASSUME IInv PROVE ValidMeansUnaltered
  <2>1. SUFFICES ASSUME NEW n \in DOMAIN digests, Verdict(n) = "VALID"
                 PROVE  /\ ContentOf(Core(IndexOf(n))) = digests[n] /\ Core(IndexOf(n)).hash = n
                        /\ Found(Core(IndexOf(n))) = n
    BY DEF ValidMeansUnaltered
  <2> DEFINE core == Core(IndexOf(n))
  <2>2. CodesAt(IndexOf(n)) = {} /\ core.incident = n
    BY <1>1, <2>1, ValidHasNoCodes, IndexOfFacts DEF IInv
  <2>3. core.hash \in DOMAIN digests /\ digests[core.hash] = ContentOf(core)
        /\ Found(core) = core.bundle
    BY <2>2, NoCodesMeans DEF HashMatches
  <2>4. digests[core.hash].incident = core.hash /\ digests[core.hash].bundle = core.hash
    BY <1>1, <2>3 DEF IInv, DigestsAreOwn
  <2>5. ContentOf(core).incident = core.incident /\ ContentOf(core).bundle = core.bundle
    BY DEF ContentOf
  <2>6. core.hash = n /\ core.bundle = n
    BY <2>2, <2>3, <2>4, <2>5
  <2>7. QED
    BY <2>3, <2>6
<1>2. QED
  BY <1>1, SpecIInv, PTL
------------------------------------------------------------------------------
(* The anchors.                                                            *)

\* However much of the log is cut off, and in however many steps, the verifier
\* reports it exactly if an anchored entry is gone.
THEOREM AnchorsExpose == Spec => []AnchorsExposeTruncation
<1>1. ASSUME IInv PROVE AnchorsExposeTruncation
  <2>1. SUFFICES ASSUME \A c \in changes : c.what = "tail"
                 PROVE  AnchorProblems = {} <=> \A k \in DOMAIN anchors : anchors[k].count <= Len(log)
    BY DEF AnchorsExposeTruncation
  <2>2. \A k \in DOMAIN anchors : AnchorStands(anchors[k])
    BY <1>1, <2>1 DEF IInv, AnchorsStand
  <2>3. Len(log) \in Nat
    BY <1>1, LogFacts DEF IInv
  <2>4. ASSUME NEW k \in DOMAIN anchors
        PROVE  AnchorCodes(anchors[k]) = {} <=> anchors[k].count <= Len(log)
    <3>1. AnchorStands(anchors[k])
      BY <2>2
    <3>2. CASE anchors[k].count <= Len(log)
      BY <2>3, <3>1, <3>2 DEF AnchorStands, AnchorCodes, Core
    <3>3. CASE ~ (anchors[k].count <= Len(log))
      BY <2>3, <3>1, <3>3 DEF AnchorStands, AnchorCodes
    <3>4. QED
      BY <3>2, <3>3
  <2>5. AnchorProblems = {} <=> \A k \in DOMAIN anchors : AnchorCodes(anchors[k]) = {}
    BY DEF AnchorProblems
  <2>6. QED
    BY <2>4, <2>5
<1>2. QED
  BY <1>1, SpecIInv, PTL
------------------------------------------------------------------------------
(* What was written, and what the changes left of it.                      *)

\* The entries o as they were written: every hash is that of its entry, and is
\* chained to the entry before it, or to Genesis behind a torn line.
WrittenPrev(o, i) == IF i = 1 \/ o[i - 1] = Damaged THEN Genesis ELSE o[i - 1].core.hash

WrittenEntry(o, ds, i) ==
  LET n == o[i].core.hash IN
    /\ n \in DOMAIN ds
    /\ o[i].core = CoreOf(n, WrittenPrev(o, i)) /\ ds[n] = ContentOf(o[i].core)
    /\ o[i].signature \in {o[i].core, Nothing}

Written(o, ds) ==
  /\ \A i \in DOMAIN o : o[i] # Damaged => WrittenEntry(o, ds, i)
  /\ \A i, j \in DOMAIN o : i < j /\ o[i] # Damaged /\ o[j] # Damaged => o[i].core.hash < o[j].core.hash

\* The log is o but for the fields that were changed and the tail.
Changed(f, i) == [what |-> f, at |-> i] \in changes

FieldsStand(o, i) ==
  /\ log[i].signature = o[i].signature
  /\ o[i] = Damaged => log[i] = Damaged
  /\ \A f \in Fields : IF Changed(f, i) THEN log[i].core[f] \in {Altered, Absent}
                       ELSE log[i].core[f] = o[i].core[f]

LeftOf(o) ==
  /\ Len(log) <= Len(o)
  /\ (\A c \in changes : c.what # "tail") => Len(log) = Len(o)
  /\ \A c \in changes : c.what \in Fields => c.at \in DOMAIN o
  /\ \A i \in DOMAIN log : FieldsStand(o, i)

HeldStand ==
  \A n \in DOMAIN held :
    IF Changed("files", n) THEN held[n] \in {Altered, Absent, Unreadable} ELSE held[n] = n

HistoryInv == HeldStand /\ \E o \in Seq(Entry) : Written(o, digests) /\ LeftOf(o)

\* What is written is neither absent nor damaged.
LEMMA WrittenFacts ==
  ASSUME TypeOK, NEW o \in Seq(Entry), Written(o, digests), NEW i \in DOMAIN o, o[i] # Damaged
  PROVE  /\ o[i].core.hash \in Nat /\ o[i].core.hash \in DOMAIN digests /\ o[i].core.hash >= 1
         /\ o[i].core = CoreOf(o[i].core.hash, WrittenPrev(o, i)) /\ WrittenPrev(o, i) \in Nat
         /\ \A f \in Fields : o[i].core[f] \in Nat
         /\ i > 1 /\ o[i - 1] # Damaged => WrittenPrev(o, i) = o[i - 1].core.hash
<1>1. DOMAIN digests = 1..Len(digests) /\ Len(digests) \in Nat /\ DOMAIN o = 1..Len(o) /\ Len(o) \in Nat
  BY DEF TypeOK
<1>2. \A j \in DOMAIN o : o[j] # Damaged => o[j].core.hash \in DOMAIN digests
  BY DEF Written, WrittenEntry
<1>3. WrittenPrev(o, i) \in Nat
  BY <1>1, <1>2 DEF WrittenPrev, Genesis
<1>4. o[i].core = CoreOf(o[i].core.hash, WrittenPrev(o, i)) /\ o[i].core.hash \in Nat /\ o[i].core.hash >= 1
  BY <1>1, <1>2 DEF Written, WrittenEntry
<1>5. \A n, prev \in Nat : \A f \in Fields : CoreOf(n, prev)[f] \in Nat
  BY DEF CoreOf, Fields, HashedFields
<1>6. QED
  BY <1>1, <1>2, <1>3, <1>4, <1>5 DEF WrittenPrev

\* Where no field was changed the line is as it was written.
LEMMA CoreIsItsFields ==
  ASSUME NEW a \in CoreType, NEW b \in CoreType, \A f \in Fields : a[f] = b[f]
  PROVE  a = b
BY DEF CoreType, Fields, HashedFields

LEMMA Unchanged ==
  ASSUME TypeOK, NEW o \in Seq(Entry), LeftOf(o), NEW i \in DOMAIN log,
         \A f \in Fields : ~ Changed(f, i)
  PROVE  i \in DOMAIN o /\ log[i] = o[i]
<1>1. i \in DOMAIN o /\ i \in DOMAIN log /\ log \in Seq(Entry)
  BY LogFacts DEF LeftOf
<1>2. log[i] \in Entry /\ o[i] \in Entry
  BY <1>1
<1>3. log[i].signature = o[i].signature /\ \A f \in Fields : log[i].core[f] = o[i].core[f]
  BY DEF LeftOf, FieldsStand
<1>4. log[i].core = o[i].core
  BY <1>2, <1>3, CoreIsItsFields DEF Entry
<1>5. QED
  BY <1>1, <1>2, <1>3, <1>4 DEF Entry

\* preserve_bundle chains the new entry to the last line.
LEMMA PreserveHistory ==
  ASSUME IInv, HistoryInv, NEW signed \in BOOLEAN, Preserve(signed)
  PROVE  HistoryInv'
<1> DEFINE core == CoreOf(New, PreviousHash)
           e == [core |-> core, signature |-> IF signed THEN core ELSE Nothing]
<1>1. /\ log' = Append(log, e) /\ digests' = Append(digests, ContentOf(core))
      /\ held' = Append(held, New) /\ changes' = changes /\ changes = {}
  BY DEF Preserve
<1>2. PICK o \in Seq(Entry) : Written(o, digests) /\ LeftOf(o)
  BY DEF HistoryInv
<1>3. /\ TypeOK /\ log \in Seq(Entry) /\ DOMAIN log = 1..Len(log) /\ Len(log) \in Nat
      /\ digests \in Seq(ContentType) /\ held \in Seq(Int) /\ Len(held) = Len(digests)
      /\ New = Len(digests) + 1 /\ New \in Nat
  BY LogFacts DEF IInv, TypeOK, New
<1>4. Len(o) = Len(log) /\ \A i \in DOMAIN log : log[i] = o[i]
  BY <1>1, <1>2, <1>3, Unchanged DEF LeftOf, Changed
<1>5. o = log
  BY <1>3, <1>4
<1>6. Written(log, digests)
  BY <1>2, <1>5
<1>7. core \in CoreType /\ core.hash = New /\ ContentOf(core) \in ContentType /\ Nothing \in CoreType
      /\ core = CoreOf(New, PreviousHash) /\ PreviousHash \in Int
  BY <1>3, PreviousHashType, EntryTypes DEF CoreOf
<1> HIDE DEF core
<1>8. e \in Entry /\ e.core = core /\ e.signature \in {core, Nothing}
  BY <1>7 DEF Entry
<1> HIDE DEF e
<1>9. /\ log' \in Seq(Entry) /\ Len(log') = Len(log) + 1 /\ log'[Len(log) + 1] = e
      /\ \A i \in 1..Len(log) : log'[i] = log[i]
  BY <1>1, <1>3, <1>8
<1>10. /\ Len(digests') = Len(digests) + 1 /\ digests'[New] = ContentOf(core)
       /\ \A n \in 1..Len(digests) : digests'[n] = digests[n]
       /\ DOMAIN digests' = 1..New /\ DOMAIN digests = 1..Len(digests)
  BY <1>1, <1>3, <1>7
<1>11. Written(log', digests')
  <2>1. \A i \in 1..Len(log) : log[i] # Damaged => log[i].core.hash \in 1..Len(digests)
    BY <1>3, <1>6, <1>10 DEF Written, WrittenEntry
  <2>2. ASSUME NEW i \in 1..Len(log), log[i] # Damaged PROVE WrittenEntry(log', digests', i)
    <3>1. WrittenEntry(log, digests, i)
      BY <1>3, <1>6, <2>2 DEF Written
    <3>2. log'[i] = log[i] /\ WrittenPrev(log', i) = WrittenPrev(log, i)
      BY <1>3, <1>9 DEF WrittenPrev
    <3>3. QED
      BY <1>3, <1>9, <1>10, <3>1, <3>2 DEF WrittenEntry
  <2>3. WrittenEntry(log', digests', Len(log) + 1)
    <3>1. PreviousHash = WrittenPrev(log', Len(log) + 1)
      <4>1. CASE log = <<>>
        BY <4>1 DEF PreviousHash, WrittenPrev
      <4>2. CASE log # <<>>
        <5>1. Len(log) \in 1..Len(log) /\ Len(log) + 1 # 1 /\ (Len(log) + 1) - 1 = Len(log)
          BY <1>3, <4>2
        <5>2. log'[Len(log)] = log[Len(log)]
          BY <1>9, <5>1
        <5>3. WrittenPrev(log', Len(log) + 1) =
                IF log[Len(log)] = Damaged THEN Genesis ELSE log[Len(log)].core.hash
          BY <1>3, <1>9, <5>1, <5>2 DEF WrittenPrev
        <5>4. QED
          BY <4>2, <5>3 DEF PreviousHash, Core
      <4>3. QED
        BY <4>1, <4>2
    <3>2. QED
      BY <1>3, <1>7, <1>8, <1>9, <1>10, <3>1 DEF WrittenEntry
  <2>4. \A i \in DOMAIN log' : log'[i] # Damaged => WrittenEntry(log', digests', i)
    BY <1>3, <1>9, <2>2, <2>3
  <2>5. ASSUME NEW i \in 1..(Len(log) + 1), NEW j \in 1..(Len(log) + 1), i < j,
               log'[i] # Damaged, log'[j] # Damaged
        PROVE  log'[i].core.hash < log'[j].core.hash
    <3>1. i \in 1..Len(log) /\ log'[i] = log[i]
      BY <1>3, <1>9, <2>5
    <3>2. CASE j \in 1..Len(log)
      BY <1>3, <1>6, <1>9, <2>5, <3>1, <3>2 DEF Written
    <3>3. CASE j = Len(log) + 1
      BY <1>3, <1>7, <1>8, <1>9, <2>1, <2>5, <3>1, <3>3
    <3>4. QED
      BY <1>3, <3>2, <3>3
  <2>6. QED
    BY <1>3, <1>9, <2>4, <2>5 DEF Written
<1>12. LeftOf(log)'
  BY <1>1, <1>3, <1>9, SMTT(30) DEF LeftOf, FieldsStand, Changed
<1>13. HeldStand'
  <2>1. \A n \in DOMAIN held : held[n] = n
    BY <1>1 DEF HistoryInv, HeldStand, Changed
  <2>2. \A n \in DOMAIN held' : held'[n] = n
    BY <1>1, <1>3, <2>1
  <2>3. QED
    BY <1>1, <2>2 DEF HeldStand, Changed
<1>14. QED
  BY <1>9, <1>11, <1>12, <1>13 DEF HistoryInv

\* A torn line.
LEMMA TearHistory ==
  ASSUME IInv, HistoryInv, Tear
  PROVE  HistoryInv'
<1>1. log' = Append(log, Damaged) /\ UNCHANGED <<digests, held, changes>> /\ changes = {}
  BY DEF Tear
<1>2. PICK o \in Seq(Entry) : Written(o, digests) /\ LeftOf(o)
  BY DEF HistoryInv
<1>3. TypeOK /\ log \in Seq(Entry) /\ DOMAIN log = 1..Len(log) /\ Len(log) \in Nat /\ Damaged \in Entry
  BY LogFacts, EntryTypes DEF IInv
<1>4. Len(o) = Len(log) /\ \A i \in DOMAIN log : log[i] = o[i]
  BY <1>1, <1>2, <1>3, Unchanged DEF LeftOf, Changed
<1>5. o = log
  BY <1>3, <1>4
<1>6. Written(log, digests)
  BY <1>2, <1>5
<1>7. /\ log' \in Seq(Entry) /\ Len(log') = Len(log) + 1 /\ log'[Len(log) + 1] = Damaged
      /\ \A i \in 1..Len(log) : log'[i] = log[i]
  BY <1>1, <1>3
<1>8. Written(log', digests')
  <2>1. ASSUME NEW i \in 1..(Len(log) + 1), log'[i] # Damaged PROVE WrittenEntry(log', digests', i)
    <3>1. i \in 1..Len(log) /\ log'[i] = log[i] /\ WrittenEntry(log, digests, i)
      BY <1>3, <1>6, <1>7, <2>1 DEF Written
    <3>2. WrittenPrev(log', i) = WrittenPrev(log, i)
      BY <1>3, <1>7, <3>1 DEF WrittenPrev
    <3>3. QED
      BY <1>1, <3>1, <3>2 DEF WrittenEntry
  <2>2. ASSUME NEW i \in 1..(Len(log) + 1), NEW j \in 1..(Len(log) + 1), i < j,
               log'[i] # Damaged, log'[j] # Damaged
        PROVE  log'[i].core.hash < log'[j].core.hash
    <3>1. i \in 1..Len(log) /\ j \in 1..Len(log)
      BY <1>3, <1>7, <2>2
    <3>2. log'[i] = log[i] /\ log'[j] = log[j]
      BY <1>7, <3>1
    <3>3. QED
      BY <1>3, <1>6, <2>2, <3>1, <3>2 DEF Written
  <2>3. QED
    BY <1>3, <1>7, <2>1, <2>2 DEF Written
<1>9. LeftOf(log)' /\ HeldStand'
  BY <1>1, <1>3, <1>7 DEF LeftOf, FieldsStand, Changed, HistoryInv, HeldStand
<1>10. QED
  BY <1>7, <1>8, <1>9 DEF HistoryInv

\* A changed field is a changed field of what was written.
LEMMA FieldHistory ==
  ASSUME IInv, HistoryInv, NEW i \in DOMAIN log, NEW f \in Fields, NEW value \in {Altered, Absent},
         ChangeField(i, f, value)
  PROVE  HistoryInv'
<1>1. /\ log[i] # Damaged /\ log' = [log EXCEPT ![i].core[f] = value]
      /\ changes' = changes \cup {[what |-> f, at |-> i]} /\ UNCHANGED <<digests, held>>
  BY DEF ChangeField, Change
<1>2. PICK o \in Seq(Entry) : Written(o, digests) /\ LeftOf(o)
  BY DEF HistoryInv
<1>3. /\ TypeOK /\ log \in Seq(Entry) /\ DOMAIN log = 1..Len(log) /\ Len(log) \in Nat
      /\ log[i] \in Entry /\ log[i].core \in CoreType
  <2>1. TypeOK /\ log \in Seq(Entry) /\ DOMAIN log = 1..Len(log) /\ Len(log) \in Nat
    BY LogFacts DEF IInv
  <2>2. log[i] \in Entry
    BY <2>1
  <2>3. QED
    BY <2>1, <2>2 DEF Entry
<1> DEFINE e == [log[i] EXCEPT !.core = [log[i].core EXCEPT ![f] = value]]
<1>4. log' = [log EXCEPT ![i] = e]
  BY <1>1
<1>5. /\ e.signature = log[i].signature /\ e.core[f] = value
      /\ \A g \in Fields : g # f => e.core[g] = log[i].core[g]
  BY <1>3 DEF Entry, CoreType, Fields, HashedFields
<1> HIDE DEF e
<1>6. /\ DOMAIN log' = DOMAIN log /\ Len(log') = Len(log) /\ log'[i] = e
      /\ \A j \in DOMAIN log : j # i => log'[j] = log[j]
  <2>1. log' = [j \in 1..Len(log) |-> IF j = i THEN e ELSE log[j]]
    BY <1>3, <1>4
  <2>2. QED
    BY <1>3, <2>1
<1>7. \A g, j : Changed(g, j)' <=> Changed(g, j) \/ (g = f /\ j = i)
  BY <1>1 DEF Changed
<1>8. \A j \in DOMAIN log : FieldsStand(o, j)
  BY <1>2 DEF LeftOf
<1>9. ASSUME NEW j \in DOMAIN log PROVE FieldsStand(o, j)'
  <2>1. CASE j = i
    <3>1. log'[i].signature = o[i].signature /\ o[i] # Damaged
      BY <1>1, <1>5, <1>6, <1>8 DEF FieldsStand
    <3>2. \A g \in Fields : IF Changed(g, i)' THEN log'[i].core[g] \in {Altered, Absent}
                            ELSE log'[i].core[g] = o[i].core[g]
      BY <1>5, <1>6, <1>7, <1>8 DEF FieldsStand
    <3>3. QED
      BY <2>1, <3>1, <3>2 DEF FieldsStand, Damaged, Altered, Absent
  <2>2. CASE j # i
    BY <1>6, <1>7, <1>8, <2>2 DEF FieldsStand
  <2>3. QED
    BY <2>1, <2>2
<1>10. LeftOf(o)'
  <2>1. i \in DOMAIN o
    BY <1>2, <1>3 DEF LeftOf
  <2>2. \A c \in changes' : c.what \in Fields => c.at \in DOMAIN o
    BY <1>1, <1>2, <2>1 DEF LeftOf
  <2>3. changes \subseteq changes'
    BY <1>1
  <2>4. QED
    BY <1>2, <1>6, <1>9, <2>2, <2>3 DEF LeftOf, Fields, HashedFields
<1>11. HeldStand'
  <2>1. f # "files"
    BY DEF Fields, HashedFields
  <2>2. QED
    BY <1>1, <1>7, <2>1 DEF HistoryInv, HeldStand
<1>12. QED
  BY <1>1, <1>2, <1>10, <1>11 DEF HistoryInv

\* Files of a bundle are changed, entries are anchored, or the tail is removed.
LEMMA OtherHistory ==
  ASSUME IInv, HistoryInv,
         \/ Anchor \/ UNCHANGED vars
         \/ \E i \in DOMAIN held, value \in {Altered, Absent, Unreadable} : ChangeBundle(i, value)
         \/ \E n \in 0..(Len(log) - 1) : RemoveTail(n)
  PROVE  HistoryInv'
<1>1. PICK o \in Seq(Entry) : Written(o, digests) /\ LeftOf(o)
  BY DEF HistoryInv
<1>2. TypeOK /\ log \in Seq(Entry) /\ DOMAIN log = 1..Len(log) /\ Len(log) \in Nat
  BY LogFacts DEF IInv
<1>3. CASE Anchor \/ UNCHANGED vars
  <2>1. UNCHANGED <<log, digests, held, changes>>
    BY <1>3 DEF Anchor, vars
  <2>2. LeftOf(o)' /\ HeldStand'
    BY <1>1, <2>1 DEF HistoryInv, LeftOf, FieldsStand, HeldStand, Changed, Damaged
  <2>3. QED
    BY <1>1, <2>1, <2>2 DEF HistoryInv
<1>4. ASSUME NEW i \in DOMAIN held, NEW value \in {Altered, Absent, Unreadable}, ChangeBundle(i, value)
      PROVE  HistoryInv'
  <2>1. /\ held' = [held EXCEPT ![i] = value] /\ UNCHANGED <<log, digests>>
        /\ changes' = changes \cup {[what |-> "files", at |-> i]}
    BY <1>4 DEF ChangeBundle, Change
  <2>2. \A g, j : Changed(g, j)' <=> Changed(g, j) \/ (g = "files" /\ j = i)
    BY <2>1 DEF Changed
  <2>3. "files" \notin Fields
    BY DEF Fields, HashedFields
  <2>4. \A j \in DOMAIN log : FieldsStand(o, j)'
    BY <1>1, <2>1, <2>2, <2>3 DEF LeftOf, FieldsStand, Damaged
  <2>5. LeftOf(o)'
    <3>1. /\ Len(log') <= Len(o) /\ ((\A c \in changes' : c.what # "tail") => Len(log') = Len(o))
      BY <1>1, <2>1 DEF LeftOf
    <3>2. \A c \in changes' : c.what \in Fields => c.at \in DOMAIN o
      BY <1>1, <2>1, <2>3 DEF LeftOf
    <3>3. QED
      BY <2>1, <2>4, <3>1, <3>2 DEF LeftOf, Fields, HashedFields
  <2>6. HeldStand'
    <3>1. held \in Seq(Int)
      BY <1>2 DEF TypeOK
    <3>2. DOMAIN held' = DOMAIN held /\ held'[i] = value /\ \A n \in DOMAIN held : n # i => held'[n] = held[n]
      BY <2>1, <3>1
    <3>3. QED
      BY <2>2, <3>2 DEF HistoryInv, HeldStand, Altered, Absent, Unreadable
  <2>7. QED
    BY <1>1, <2>1, <2>5, <2>6 DEF HistoryInv
<1>5. ASSUME NEW n \in 0..(Len(log) - 1), RemoveTail(n) PROVE HistoryInv'
  <2>1. /\ log' = SubSeq(log, 1, n) /\ UNCHANGED <<digests, held>>
        /\ changes' = changes \cup {[what |-> "tail", at |-> n]}
    BY <1>5 DEF RemoveTail, Change
  <2>2. Len(log') = n /\ DOMAIN log' = 1..n /\ \A j \in 1..n : j \in DOMAIN log /\ log'[j] = log[j]
    BY <1>2, <2>1
  <2>3. "tail" \notin Fields /\ "tail" # "files"
    BY DEF Fields, HashedFields
  <2>4. \A g, j : g # "tail" => (Changed(g, j)' <=> Changed(g, j))
    BY <2>1 DEF Changed
  <2>5. \A j \in DOMAIN log' : FieldsStand(o, j)'
    BY <1>1, <2>2, <2>3, <2>4 DEF LeftOf, FieldsStand, Damaged
  <2>6. LeftOf(o)'
    <3>1. Len(log') <= Len(o)
      BY <1>1, <1>2, <2>2 DEF LeftOf
    <3>2. ~ \A c \in changes' : c.what # "tail"
      <4> DEFINE c == [what |-> "tail", at |-> n]
      <4>1. c \in changes' /\ c.what = "tail"
        BY <2>1
      <4>2. QED
        BY <4>1
    <3>3. \A c \in changes' : c.what \in Fields => c.at \in DOMAIN o
      BY <1>1, <2>1, <2>3 DEF LeftOf
    <3>4. QED
      BY <2>5, <3>1, <3>2, <3>3 DEF LeftOf, Fields, HashedFields
  <2>7. HeldStand'
    BY <2>1, <2>3, <2>4 DEF HistoryInv, HeldStand
  <2>8. QED
    BY <1>1, <2>1, <2>6, <2>7 DEF HistoryInv
<1>6. QED
  BY <1>3, <1>4, <1>5

LEMMA HistoryAlways == Spec => []HistoryInv
<1>1. Init => HistoryInv
  <2> SUFFICES ASSUME Init PROVE HistoryInv
    OBVIOUS
  <2>1. log = <<>> /\ held = <<>> /\ changes = {}
    BY DEF Init
  <2>2. log \in Seq(Entry) /\ Written(log, digests) /\ LeftOf(log) /\ HeldStand
    BY <2>1 DEF Written, LeftOf, HeldStand
  <2>3. QED
    BY <2>2 DEF HistoryInv
<1>2. IInv /\ HistoryInv /\ [Next]_vars => HistoryInv'
  BY PreserveHistory, TearHistory, FieldHistory, OtherHistory DEF Next
<1>3. QED
  BY <1>1, <1>2, SpecIInv, PTL DEF Spec
------------------------------------------------------------------------------
(* What the verifiers read of what was written.                            *)

\* The hash that a line is compared with is that of the line before it.
LEMMA ExpectedIs ==
  ASSUME TypeOK, NEW i \in DOMAIN log
  PROVE  /\ i = 1 => ExpectedPrev(i) = Genesis
         /\ i > 1 /\ Core(i - 1).hash # Absent => ExpectedPrev(i) = Core(i - 1).hash
<1> DEFINE before == {j \in 1..(i - 1) : Core(j).hash # Absent}
           Last(j) == j \in before /\ \A k \in before : k <= j
           last == CHOOSE j \in before : \A k \in before : k <= j
<1>1. i \in Nat /\ i >= 1
  BY LogFacts
<1>2. CASE i = 1
  <2>1. before = {}
    BY <1>2
  <2>2. QED
    BY <1>2, <2>1 DEF ExpectedPrev
<1>3. CASE i > 1 /\ Core(i - 1).hash # Absent
  <2>1. Last(i - 1) /\ \A j : Last(j) => j = i - 1
    BY <1>1, <1>3
  <2>2. last = i - 1
    BY <2>1
  <2>3. before # {}
    BY <2>1
  <2>4. ExpectedPrev(i) = IF before = {} THEN Genesis ELSE Core(last).hash
    BY DEF ExpectedPrev
  <2> HIDE DEF before, last
  <2>5. QED
    BY <1>3, <2>2, <2>3, <2>4
<1>4. QED
  BY <1>1, <1>2, <1>3

\* A line as it was written, behind one whose hash is as it was written.
LEMMA WrittenLine ==
  ASSUME TypeOK, NEW o \in Seq(Entry), Written(o, digests), NEW i \in DOMAIN log,
         i \in DOMAIN o, log[i] = o[i], o[i] # Damaged,
         i > 1 => o[i - 1] # Damaged /\ Core(i - 1).hash = o[i - 1].core.hash /\ i - 1 \in DOMAIN o
  PROVE  /\ LinkCodes(i) = {} /\ ChainCodes(i) = {}
         /\ Core(i).hash \in Nat /\ Core(i).hash \in DOMAIN held
         /\ Core(i) = CoreOf(Core(i).hash, Core(i).prev)
         /\ log[i].signature \in {Core(i), Nothing}
         /\ \A f \in Fields : Core(i)[f] \in Nat
<1> DEFINE n == Core(i).hash
<1>1. /\ n \in Nat /\ n \in DOMAIN digests /\ Core(i) = CoreOf(n, WrittenPrev(o, i))
      /\ \A f \in Fields : Core(i)[f] \in Nat
      /\ i > 1 => WrittenPrev(o, i) = o[i - 1].core.hash /\ o[i - 1].core.hash \in Nat
  BY WrittenFacts DEF Core
<1>2. digests[n] = ContentOf(Core(i)) /\ log[i].signature \in {Core(i), Nothing}
  BY DEF Written, WrittenEntry, Core
<1>3. Core(i).prev = WrittenPrev(o, i)
  BY <1>1 DEF CoreOf
<1>4. i \in Nat /\ i >= 1
  BY LogFacts
<1>5. Core(i).prev = ExpectedPrev(i)
  <2>1. CASE i = 1
    BY <1>3, <2>1, ExpectedIs DEF WrittenPrev
  <2>2. CASE i > 1
    <3>1. Core(i - 1).hash # Absent
      BY <1>1, <2>2 DEF Absent
    <3>2. QED
      BY <1>1, <1>3, <2>2, <3>1, ExpectedIs
  <2>3. QED
    BY <1>4, <2>1, <2>2
<1>6. HashMatches(Core(i))
  BY <1>1, <1>2 DEF HashMatches
<1>7. \A f \in HashedFields : Core(i)[f] # Absent
  BY <1>1 DEF Fields, Absent
<1>8. LinkCodes(i) = {} /\ ChainCodes(i) = {}
  BY <1>5, <1>6, <1>7 DEF LinkCodes, ChainCodes
<1>9. DOMAIN held = DOMAIN digests
  BY DEF TypeOK
<1>10. QED
  BY <1>1, <1>2, <1>3, <1>8, <1>9

\* The codes of a bundle follow from what its directory hashes to.
LEMMA BundleCodesAre ==
  ASSUME NEW core, NEW n \in Nat, core.dir = n, core.bundle = n, n \in DOMAIN held
  PROVE  /\ held[n] = n => BundleCodes(core) = {}
         /\ held[n] = Altered => "BUNDLE_HASH_MISMATCH" \in BundleCodes(core)
         /\ held[n] \in {Absent, Unreadable} =>
              BundleCodes(core) # {} /\ "BUNDLE_HASH_MISMATCH" \notin BundleCodes(core)
<1>1. core.dir # Absent /\ Found(core) = held[n]
  BY DEF Absent, Found
<1>2. n # Altered /\ n # Absent /\ n # Unreadable /\ Altered # Absent /\ Altered # Unreadable
      /\ Absent # Unreadable
  BY DEF Altered, Absent, Unreadable
<1>3. CASE held[n] = n
  BY <1>1, <1>2, <1>3 DEF BundleCodes
<1>4. CASE held[n] = Altered
  BY <1>1, <1>2, <1>4 DEF BundleCodes
<1>5. CASE held[n] = Absent
  BY <1>1, <1>2, <1>5 DEF BundleCodes
<1>6. CASE held[n] = Unreadable
  BY <1>1, <1>2, <1>6 DEF BundleCodes
<1>7. QED
  BY <1>3, <1>4, <1>5, <1>6

\* A log whose lines are all as they were written, and none of them torn.
AsWritten(o) ==
  /\ o \in Seq(Entry) /\ Written(o, digests) /\ Len(log) <= Len(o)
  /\ \A i \in DOMAIN log : log[i] = o[i] /\ o[i] # Damaged

LEMMA AsWrittenLine ==
  ASSUME TypeOK, NEW o, AsWritten(o), NEW i \in DOMAIN log
  PROVE  /\ LinkCodes(i) = {} /\ ChainCodes(i) = {}
         /\ Core(i).hash \in Nat /\ Core(i).hash \in DOMAIN held
         /\ Core(i) = CoreOf(Core(i).hash, Core(i).prev)
         /\ log[i].signature \in {Core(i), Nothing}
         /\ \A f \in Fields : Core(i)[f] \in Nat
         /\ i > 1 => Core(i).prev = Core(i - 1).hash
<1>1. DOMAIN log = 1..Len(log) /\ Len(log) \in Nat /\ i \in DOMAIN o
  BY LogFacts DEF AsWritten
<1>2. i > 1 => i - 1 \in DOMAIN log /\ i - 1 \in DOMAIN o
  BY <1>1
<1>3. i > 1 => o[i - 1] # Damaged /\ Core(i - 1).hash = o[i - 1].core.hash
  BY <1>2 DEF AsWritten, Core
<1>4. i > 1 => Core(i).prev = Core(i - 1).hash
  <2>1. WrittenPrev(o, i) = Core(i).prev
    <3>1. Core(i) = CoreOf(Core(i).hash, WrittenPrev(o, i))
      BY <1>1, WrittenFacts DEF AsWritten, Core
    <3>2. QED
      BY <3>1 DEF CoreOf
  <2>2. i > 1 => WrittenPrev(o, i) = o[i - 1].core.hash
    BY <1>3, <1>1 DEF WrittenPrev
  <2>3. QED
    BY <1>3, <2>1, <2>2
<1>5. QED
  BY <1>1, <1>2, <1>3, <1>4, WrittenLine DEF AsWritten

\* The entry of an incident is found, and its verdict is that of its bundle.
LEMMA AsWrittenVerdict ==
  ASSUME TypeOK, NEW o, AsWritten(o), Parsed(log), NEW i \in DOMAIN log
  PROVE  LET n == Core(i).incident IN
           /\ n = Core(i).hash /\ n \in Nat /\ n \in DOMAIN held
           /\ IndexOf(n) = i /\ CodesAt(i) = BundleCodes(Core(i))
           /\ Verdict(n) = IF BundleCodes(Core(i)) = {} THEN "VALID" ELSE "INVALID"
           /\ Core(i).dir = n /\ Core(i).bundle = n
<1> DEFINE n == Core(i).incident
<1>1. DOMAIN log = 1..Len(log) /\ Len(log) \in Nat
  BY LogFacts
<1>2. \A j \in DOMAIN log : /\ LinkCodes(j) = {} /\ Core(j).incident = Core(j).hash
                            /\ Core(j).dir = Core(j).hash /\ Core(j).bundle = Core(j).hash
                            /\ Core(j).hash \in Nat /\ Core(j).hash \in DOMAIN held
  BY AsWrittenLine DEF CoreOf
<1>3. \A j, k \in DOMAIN log : j < k => Core(j).hash < Core(k).hash
  BY <1>1 DEF AsWritten, Written, Core
<1>4. \A j \in DOMAIN log : Core(j).incident = n => j = i
  BY <1>1, <1>2, <1>3
<1>5. IndexOf(n) = i
  BY <1>4, IndexOfFacts
<1>6. CodesAt(i) = BundleCodes(Core(i))
  BY <1>2 DEF CodesAt
<1>7. UNION {LinkCodes(j) : j \in 1..(i - 1)} = {}
  BY <1>1, <1>2
<1>8. Verdict(n) = IF BundleCodes(Core(i)) = {} THEN "VALID" ELSE "INVALID"
  <2>1. ~ \A j \in DOMAIN log : Core(j).incident # n
    OBVIOUS
  <2> HIDE DEF n
  <2>2. Verdict(n) = IF CodesAt(i) \cup UNION {LinkCodes(j) : j \in 1..(i - 1)} = {} THEN "VALID" ELSE "INVALID"
    BY <1>5, <2>1 DEF Verdict
  <2>3. QED
    BY <1>6, <1>7, <2>2
<1>9. QED
  BY <1>2, <1>5, <1>6, <1>8

\* Where no field was changed, what is left is as it was written.
LEMMA NoFieldChanged ==
  ASSUME TypeOK, HistoryInv, Parsed(log), \A c \in changes : c.what \notin Fields
  PROVE  \E o : AsWritten(o)
<1>1. PICK o \in Seq(Entry) : Written(o, digests) /\ LeftOf(o)
  BY DEF HistoryInv
<1>2. \A f \in Fields, i \in DOMAIN log : ~ Changed(f, i)
  BY DEF Changed
<1>3. \A i \in DOMAIN log : log[i] = o[i] /\ o[i] # Damaged
  BY <1>1, <1>2, Unchanged DEF Parsed
<1>4. AsWritten(o)
  BY <1>1, <1>3 DEF AsWritten, LeftOf
<1>5. QED
  BY <1>4

\* The lines with a code are the lines with a problem.
LEMMA ProblemsAt ==
  ASSUME Parsed(log), NEW x
  PROVE  x \in {p.at : p \in Problems} <=> x \in DOMAIN log /\ CodesAt(x) # {}
<1>1. Problems = UNION {{Problem(i, code) : code \in CodesAt(i)} : i \in DOMAIN log}
  BY DEF Problems
<1>2. ASSUME NEW p \in Problems PROVE p.at \in DOMAIN log /\ CodesAt(p.at) # {}
  <2>1. PICK i \in DOMAIN log : p \in {Problem(i, code) : code \in CodesAt(i)}
    BY <1>1
  <2>2. PICK code \in CodesAt(i) : p = Problem(i, code)
    BY <2>1
  <2>3. QED
    BY <2>2 DEF Problem
<1>3. ASSUME x \in DOMAIN log, NEW code \in CodesAt(x) PROVE Problem(x, code) \in Problems
  BY <1>1, <1>3
<1>4. \A code : Problem(x, code).at = x
  BY DEF Problem
<1>5. QED
  BY <1>2, <1>3, <1>4

\* One change: what is wrong with its own line, and with no other but the next.
LEMMA ChangedLine ==
  ASSUME TypeOK, NEW o \in Seq(Entry), Written(o, digests), NEW i \in DOMAIN o, i \in DOMAIN log,
         o[i] # Damaged, NEW f \in Fields, log[i].core[f] \in {Altered, Absent},
         \A g \in Fields \ {f} : log[i].core[g] = o[i].core[g],
         log[i].signature = o[i].signature
  PROVE  /\ f \notin {"other", "key"} => CodesAt(i) # {}
         /\ log[i].signature # Nothing => SignatureCodes(log[i]) # {}
<1> DEFINE n == o[i].core.hash
<1>1. /\ n \in Nat /\ n \in DOMAIN digests /\ o[i].core[f] \in Nat /\ digests[n] = ContentOf(o[i].core)
      /\ o[i].signature \in {o[i].core, Nothing}
      /\ \A g \in Fields : o[i].core[g] \in Nat
  BY WrittenFacts DEF Written, WrittenEntry
<1>2. Core(i)[f] \in {Altered, Absent} /\ Core(i)[f] # o[i].core[f] /\ Core(i)[f] \notin Nat
  BY <1>1 DEF Core, Altered, Absent
<1>3. DOMAIN digests \subseteq Nat /\ DOMAIN held \subseteq Nat
  BY DEF TypeOK
<1>4. CASE f \in HashedFields
  <2>1. Core(i).hash = n
    BY <1>4 DEF Core, Fields, HashedFields
  <2>2. ContentOf(Core(i)) # ContentOf(o[i].core)
    BY <1>2, <1>4 DEF ContentOf, HashedFields
  <2>3. ~ HashMatches(Core(i))
    BY <1>1, <2>1, <2>2 DEF HashMatches
  <2>4. LinkCodes(i) # {}
    BY <2>3 DEF LinkCodes
  <2>5. QED
    BY <2>4, <1>2, <1>1 DEF CodesAt, SignatureCodes, Core
<1>5. CASE f = "hash"
  <2>1. ~ HashMatches(Core(i))
    BY <1>2, <1>3, <1>5 DEF HashMatches
  <2>2. LinkCodes(i) # {}
    BY <2>1 DEF LinkCodes
  <2>3. QED
    BY <2>2, <1>2, <1>1 DEF CodesAt, SignatureCodes, Core
<1>6. CASE f = "dir"
  <2>1. CASE Core(i).dir = Absent
    BY <1>1, <1>2, <1>6, <2>1 DEF CodesAt, BundleCodes, SignatureCodes, Core
  <2>2. CASE Core(i).dir # Absent
    <3>1. Core(i).dir \notin DOMAIN held
      BY <1>2, <1>3, <1>6
    <3>2. Found(Core(i)) = Absent
      BY <3>1 DEF Found
    <3>3. BundleCodes(Core(i)) # {}
      BY <2>2, <3>2 DEF BundleCodes
    <3>4. QED
      BY <1>1, <1>2, <3>3 DEF CodesAt, SignatureCodes, Core
  <2>3. QED
    BY <2>1, <2>2
<1>7. CASE f \in {"other", "key"}
  BY <1>1, <1>2, <1>7 DEF SignatureCodes, Core
<1>8. QED
  BY <1>4, <1>5, <1>6, <1>7 DEF Fields

LEMMA FieldIsLocated ==
  ASSUME IInv, HistoryInv, Parsed(log), NEW c \in changes, changes = {c}, c.what \in Fields
  PROVE  /\ {p.at : p \in Problems} \subseteq {c.at, c.at + 1}
         /\ c.what \notin {"other", "key"} => c.at \in {p.at : p \in Problems}
         /\ (~ Raises /\ log[c.at].signature # Nothing) => c.at \in {p.at : p \in PinnedProblems}
<1> DEFINE f == c.what
           at == c.at
<1>1. PICK o \in Seq(Entry) : Written(o, digests) /\ LeftOf(o)
  BY DEF HistoryInv
<1>2. TypeOK /\ DOMAIN log = 1..Len(log) /\ Len(log) \in Nat
  BY LogFacts DEF IInv
<1>3. f # "tail" /\ f # "files" /\ c = [what |-> f, at |-> at]
  BY <1>2 DEF Fields, HashedFields, TypeOK
<1>4. DOMAIN o = DOMAIN log /\ at \in DOMAIN log /\ f \in Fields
  BY <1>1, <1>2, <1>3 DEF LeftOf
<1>5. \A g, i : Changed(g, i) <=> g = f /\ i = at
  BY <1>3 DEF Changed
<1> HIDE DEF f, at
<1>6. \A i \in DOMAIN log : i # at => log[i] = o[i]
  BY <1>1, <1>2, <1>5, Unchanged
<1>7. \A i \in DOMAIN log : o[i] # Damaged
  BY <1>1 DEF LeftOf, FieldsStand, Parsed
<1>8. /\ log[at].core[f] \in {Altered, Absent} /\ log[at].signature = o[at].signature
      /\ \A g \in Fields \ {f} : log[at].core[g] = o[at].core[g]
  BY <1>1, <1>4, <1>5 DEF LeftOf, FieldsStand
<1>9. /\ f \notin {"other", "key"} => CodesAt(at) # {}
      /\ log[at].signature # Nothing => SignatureCodes(log[at]) # {}
  BY <1>1, <1>2, <1>4, <1>7, <1>8, ChangedLine
<1>10. ASSUME NEW i \in DOMAIN log, i # at, i # at + 1 PROVE CodesAt(i) = {}
  <2>1. i > 1 => i - 1 \in DOMAIN log /\ i - 1 # at
    BY <1>2, <1>4, <1>10
  <2>2. i > 1 => o[i - 1] # Damaged /\ Core(i - 1).hash = o[i - 1].core.hash /\ i - 1 \in DOMAIN o
    BY <1>4, <1>6, <1>7, <2>1 DEF Core
  <2>3. /\ LinkCodes(i) = {} /\ Core(i) = CoreOf(Core(i).hash, Core(i).prev)
        /\ Core(i).hash \in Nat /\ Core(i).hash \in DOMAIN held
    BY <1>1, <1>2, <1>4, <1>6, <1>7, <1>10, <2>2, WrittenLine
  <2>4. held[Core(i).hash] = Core(i).hash
    BY <1>3, <1>5, <2>3 DEF HistoryInv, HeldStand
  <2>5. Core(i).dir = Core(i).hash /\ Core(i).bundle = Core(i).hash
    BY <2>3 DEF CoreOf
  <2>6. BundleCodes(Core(i)) = {}
    BY <2>3, <2>4, <2>5, BundleCodesAre
  <2>7. QED
    BY <2>3, <2>6 DEF CodesAt
<1>11. \A x \in {p.at : p \in Problems} : x = at \/ x = at + 1
  BY <1>10, ProblemsAt
<1>12. f \notin {"other", "key"} => at \in {p.at : p \in Problems}
  BY <1>4, <1>9, ProblemsAt
<1>13. log[at].signature # Nothing => at \in {p.at : p \in PinnedProblems}
  <2>1. ASSUME NEW code \in SignatureCodes(log[at])
        PROVE  Problem(at, code) \in PinnedProblems /\ Problem(at, code).at = at
    BY <1>4, <2>1 DEF PinnedProblems, Problem
  <2>2. QED
    BY <1>9, <2>1
<1>14. QED
  BY <1>11, <1>12, <1>13 DEF f, at

\* A single change to the log is reported at its own line, and at most at the
\* next besides, and test B finds a changed bundle, in logs of any length.
THEOREM OneChangeLocated == Spec => []OneChangeIsLocated
<1>1. ASSUME IInv, HistoryInv, Parsed(log), NEW c \in changes, changes = {c}, c.what = "files",
             NEW i \in DOMAIN log
      PROVE  TestBPasses(Core(i).incident) <=> c.at = Core(i).incident /\ held[c.at] = Altered
  <2> DEFINE n == Core(i).incident
  <2>1. TypeOK /\ c.what \notin Fields
    BY <1>1 DEF IInv, Fields, HashedFields
  <2>2. PICK o : AsWritten(o)
    BY <1>1, <2>1, NoFieldChanged
  <2>3. /\ n \in Nat /\ n \in DOMAIN held /\ IndexOf(n) = i /\ CodesAt(i) = BundleCodes(Core(i))
        /\ Verdict(n) = IF BundleCodes(Core(i)) = {} THEN "VALID" ELSE "INVALID"
        /\ Core(i).dir = n /\ Core(i).bundle = n
    BY <1>1, <2>1, <2>2, AsWrittenVerdict
  <2>4. Changed("files", n) <=> c.at = n
    <3>1. c = [what |-> "files", at |-> c.at]
      BY <1>1, <2>1 DEF TypeOK
    <3>2. QED
      BY <1>1, <3>1 DEF Changed
  <2> HIDE DEF n
  <2>5. IF c.at = n THEN held[n] \in {Altered, Absent, Unreadable} ELSE held[n] = n
    BY <1>1, <2>3, <2>4 DEF HistoryInv, HeldStand
  <2>6. TestBPasses(n) <=> "BUNDLE_HASH_MISMATCH" \in BundleCodes(Core(i))
    BY <2>3 DEF TestBPasses
  <2>7. QED
    <3>1. CASE c.at = n
      BY <2>3, <2>5, <2>6, <3>1, BundleCodesAre DEF Altered, Absent, Unreadable, n
    <3>2. CASE c.at # n
      BY <2>3, <2>5, <2>6, <3>2, BundleCodesAre DEF n
    <3>3. QED
      BY <3>1, <3>2
<1>2. IInv /\ HistoryInv => OneChangeIsLocated
  BY <1>1, FieldIsLocated DEF OneChangeIsLocated
<1>3. QED
  BY <1>2, SpecIInv, HistoryAlways, PTL
------------------------------------------------------------------------------
(* A log that nobody has changed.                                          *)

\* A set of natural numbers with a bound has a greatest element.
LEMMA GreatestExists ==
  ASSUME NEW n \in Nat, NEW T \in SUBSET (1..n), T # {}
  PROVE  \E m \in T : \A k \in T : k <= m
<1> DEFINE U == {n - t : t \in T}
<1>1. U \in SUBSET Nat /\ U # {}
  <2>1. PICK t \in T : TRUE
    OBVIOUS
  <2>2. n - t \in U
    OBVIOUS
  <2>3. \A x \in T : n - x \in Nat
    OBVIOUS
  <2>4. QED
    BY <2>2, <2>3
<1>2. PICK u \in U : \A k \in U : u <= k
  <2> HIDE DEF U
  <2> QED BY <1>1, LeastExists
<1>3. PICK m \in T : u = n - m
  BY <1>2
<1>4. \A k \in T : n - m <= n - k
  BY <1>2, <1>3
<1>5. QED
  BY <1>4

\* All three verifiers and test A accept it, if no line is torn.
LEMMA UntouchedIsAccepted ==
  ASSUME IInv, HistoryInv, changes = {}, Parsed(log)
  PROVE  /\ Problems = {} /\ TestAPasses
         /\ Accepts <=> \A i \in DOMAIN log : log[i].signature # Nothing
<1>1. TypeOK /\ DOMAIN log = 1..Len(log) /\ Len(log) \in Nat
  BY LogFacts DEF IInv
<1>2. PICK o : AsWritten(o)
  BY <1>1, NoFieldChanged
<1>3. ASSUME NEW i \in DOMAIN log
      PROVE  /\ CodesAt(i) = {} /\ ChainCodes(i) = {}
             /\ SignatureCodes(log[i]) = {} <=> log[i].signature # Nothing
             /\ \A f \in Fields : Core(i)[f] \in Nat
             /\ i > 1 => Core(i).prev = Core(i - 1).hash
  <2>1. /\ LinkCodes(i) = {} /\ ChainCodes(i) = {} /\ Core(i).hash \in Nat /\ Core(i).hash \in DOMAIN held
        /\ Core(i) = CoreOf(Core(i).hash, Core(i).prev) /\ log[i].signature \in {Core(i), Nothing}
        /\ \A f \in Fields : Core(i)[f] \in Nat
        /\ i > 1 => Core(i).prev = Core(i - 1).hash
    BY <1>1, <1>2, AsWrittenLine
  <2>2. Core(i).dir = Core(i).hash /\ Core(i).bundle = Core(i).hash /\ Core(i).key = 1
    BY <2>1 DEF CoreOf
  <2>3. held[Core(i).hash] = Core(i).hash
    BY <2>1 DEF HistoryInv, HeldStand, Changed
  <2>4. BundleCodes(Core(i)) = {}
    BY <2>1, <2>2, <2>3, BundleCodesAre
  <2>5. SignatureCodes(log[i]) = {} <=> log[i].signature # Nothing
    BY <2>1, <2>2 DEF SignatureCodes, Core
  <2>6. QED
    BY <2>1, <2>4, <2>5 DEF CodesAt
<1>4. Problems = {}
  BY <1>3 DEF Problems
<1>5. TestAPasses
  <2>1. ASSUME NEW i \in 2..Len(log) PROVE Linked(log[i - 1], log[i])
    <3>1. i \in DOMAIN log /\ i > 1
      BY <1>1
    <3>2. QED
      BY <1>3, <3>1 DEF Linked, Core
  <2>2. QED
    BY <2>1 DEF TestAPasses, Intact
<1>6. ~ Raises
  BY <1>3 DEF Raises, Fields, HashedFields, Absent
<1>7. AnchorProblems = {}
  <2>1. ASSUME NEW k \in DOMAIN anchors PROVE AnchorCodes(anchors[k]) = {}
    <3>1. AnchorStands(anchors[k])
      BY DEF IInv, AnchorsStand
    <3>2. QED
      BY <1>1, <3>1 DEF AnchorStands, AnchorCodes, Core
  <2>2. QED
    BY <2>1 DEF AnchorProblems
<1>8. PinnedProblems = {} <=> \A i \in DOMAIN log : SignatureCodes(log[i]) = {}
  <2>1. PinnedProblems = UNION {{Problem(i, code) : code \in SignatureCodes(log[i])} : i \in DOMAIN log}
    BY <1>3 DEF PinnedProblems
  <2>2. ASSUME NEW i \in DOMAIN log, NEW code \in SignatureCodes(log[i])
        PROVE  Problem(i, code) \in PinnedProblems
    BY <2>1
  <2>3. QED
    BY <2>1, <2>2
<1>9. QED
  BY <1>3, <1>4, <1>5, <1>6, <1>7, <1>8 DEF Accepts

\* The dashboard shows it as intact exactly if no torn line has entries on both sides.
LEMMA ShownWhenNotTorn ==
  ASSUME IInv, HistoryInv, changes = {}
  PROVE  ShownIntact <=> ~ \E i, j, k \in DOMAIN log :
           i < j /\ j < k /\ log[i] # Damaged /\ log[j] = Damaged /\ log[k] # Damaged
<1>1. TypeOK /\ DOMAIN log = 1..Len(log) /\ Len(log) \in Nat /\ log \in Seq(Entry)
  BY LogFacts DEF IInv
<1>2. PICK o \in Seq(Entry) : Written(o, digests) /\ LeftOf(o)
  BY DEF HistoryInv
<1>3. Len(o) = Len(log) /\ \A i \in DOMAIN log : log[i] = o[i]
  BY <1>1, <1>2, Unchanged DEF LeftOf, Changed
<1>4. o = log
  BY <1>1, <1>3
<1>5. ASSUME NEW i \in DOMAIN log, log[i] # Damaged
      PROVE  /\ log[i].core.hash \in Nat /\ log[i].core.hash >= 1
             /\ log[i].core.prev = WrittenPrev(log, i)
  <2>1. /\ log[i].core.hash \in Nat /\ log[i].core.hash >= 1
        /\ log[i].core = CoreOf(log[i].core.hash, WrittenPrev(log, i))
    BY <1>1, <1>2, <1>4, <1>5, WrittenFacts
  <2>2. QED
    BY <2>1 DEF CoreOf
<1>6. ASSUME NEW i \in DOMAIN log, NEW j \in DOMAIN log, NEW k \in DOMAIN log, i < j, j < k,
             log[i] # Damaged, log[j] = Damaged, log[k] # Damaged
      PROVE  ~ ShownIntact
  <2> DEFINE T == {m \in DOMAIN log : m > j /\ log[m] # Damaged}
  <2>1. PICK m \in T : \A x \in T : m <= x
    <3>1. T \in SUBSET Nat /\ T # {}
      BY <1>1, <1>6
    <3>2. QED
      BY <3>1, LeastExists
  <2>2. m \in DOMAIN log /\ m > j /\ log[m] # Damaged /\ m - 1 \in DOMAIN log /\ m - 1 >= j /\ m # 1
    BY <1>1, <2>1
  <2>3. log[m - 1] = Damaged
    <3>1. CASE m - 1 = j
      BY <1>6, <3>1
    <3>2. CASE m - 1 # j
      <4>1. m - 1 \notin T
        BY <1>1, <2>1, <2>2
      <4>2. QED
        BY <1>1, <2>2, <3>2, <4>1
    <3>3. QED
      BY <3>1, <3>2
  <2>4. log[m].core.prev = Genesis
    BY <1>5, <2>2, <2>3 DEF WrittenPrev
  <2>5. i \in ShownBefore(m)
    BY <1>1, <1>6, <2>2 DEF ShownBefore
  <2>6. PICK p \in ShownBefore(m) : \A x \in ShownBefore(m) : x <= p
    <3>1. m - 1 \in Nat /\ ShownBefore(m) \in SUBSET (1..(m - 1)) /\ ShownBefore(m) # {}
      BY <1>1, <2>2, <2>5 DEF ShownBefore
    <3>2. QED
      BY <3>1, GreatestExists
  <2>7. p \in DOMAIN log /\ log[p] # Damaged
    BY <1>1, <2>2, <2>6 DEF ShownBefore
  <2>8. ~ Linked(log[p], log[m])
    BY <1>5, <2>4, <2>7 DEF Linked, Genesis, Absent
  <2>9. QED
    BY <2>2, <2>6, <2>8 DEF ShownIntact
<1>7. ASSUME ~ \E i, j, k \in DOMAIN log :
                 i < j /\ j < k /\ log[i] # Damaged /\ log[j] = Damaged /\ log[k] # Damaged,
             NEW i \in DOMAIN log, log[i] # Damaged, NEW j \in ShownBefore(i),
             \A k \in ShownBefore(i) : k <= j
      PROVE  Linked(log[j], log[i])
  <2>1. j \in 1..(i - 1) /\ j \in DOMAIN log /\ log[j] # Damaged
    BY <1>1, <1>7 DEF ShownBefore
  <2>2. j = i - 1
    <3>1. SUFFICES ASSUME j < i - 1 PROVE FALSE
      BY <1>1, <2>1
    <3>2. i - 1 \in DOMAIN log /\ i - 1 < i
      BY <1>1, <2>1
    <3>3. log[i - 1] = Damaged
      BY <1>1, <1>7, <3>1, <3>2 DEF ShownBefore
    <3>4. QED
      BY <1>7, <2>1, <3>1, <3>2, <3>3
  <2>3. log[i].core.prev = log[j].core.hash
    BY <1>1, <1>5, <1>7, <2>1, <2>2 DEF WrittenPrev
  <2>4. QED
    BY <2>3 DEF Linked
<1>8. QED
  BY <1>6, <1>7 DEF ShownIntact

\* Changed files invalidate their own incident and no other.
LEMMA FilesAreTheirIncidents ==
  ASSUME IInv, HistoryInv, Parsed(log), \A c \in changes : c.what = "files", NEW i \in DOMAIN log
  PROVE  Verdict(Core(i).incident) = "VALID" <=> ~ \E c \in changes : c.at = Core(i).incident
<1> DEFINE n == Core(i).incident
<1>1. TypeOK /\ \A c \in changes : c.what \notin Fields
  BY DEF IInv, Fields, HashedFields
<1>2. PICK o : AsWritten(o)
  BY <1>1, NoFieldChanged
<1>3. /\ n \in Nat /\ n \in DOMAIN held
      /\ Verdict(n) = IF BundleCodes(Core(i)) = {} THEN "VALID" ELSE "INVALID"
      /\ Core(i).dir = n /\ Core(i).bundle = n
  BY <1>1, <1>2, AsWrittenVerdict
<1>4. Changed("files", n) <=> \E c \in changes : c.at = n
  <2>1. \A c \in changes : c = [what |-> "files", at |-> c.at]
    BY <1>1 DEF TypeOK
  <2>2. QED
    BY <2>1 DEF Changed
<1> HIDE DEF n
<1>5. IF Changed("files", n) THEN held[n] \in {Altered, Absent, Unreadable} ELSE held[n] = n
  BY <1>3 DEF HistoryInv, HeldStand
<1>6. BundleCodes(Core(i)) = {} <=> ~ Changed("files", n)
  <2>1. CASE Changed("files", n)
    BY <1>3, <1>5, <2>1, BundleCodesAre
  <2>2. CASE ~ Changed("files", n)
    BY <1>3, <1>5, <2>2, BundleCodesAre
  <2>3. QED
    BY <2>1, <2>2
<1>7. Verdict(n) = "VALID" <=> ~ \E c \in changes : c.at = n
  BY <1>3, <1>4, <1>6
<1>8. QED
  BY <1>7 DEF n

\* A log of any length that nobody has changed is accepted by every verifier as
\* far as its writes were completed and signed, and changed files are the
\* business of their own incident.
THEOREM UntouchedIsVerified == Spec => []UntouchedVerifies
<1>1. IInv /\ HistoryInv => UntouchedVerifies
  BY UntouchedIsAccepted, ShownWhenNotTorn, FilesAreTheirIncidents DEF UntouchedVerifies
<1>2. QED
  BY <1>1, SpecIInv, HistoryAlways, PTL
==============================================================================
