---------------------------- MODULE CustodyVerify ----------------------------
(***************************************************************************)
(* The verifiers of the custody log: verify_chain_detailed and             *)
(* verify_incident (forensic_validation.py), verify (custody_verify.py),   *)
(* and the link checks of tamper_tests.py and the dashboard.  They are     *)
(* operators on a log that preserve_bundle and anchor_chain have written   *)
(* (CustodyChain has the details) and that may have been changed since.    *)
(*                                                                         *)
(* A hash is a number that is not used twice; digests holds what each was  *)
(* computed from, so that a stored hash is the recomputed one exactly if   *)
(* digests says so.  The time stamp goes with the incident id.             *)
(***************************************************************************)
EXTENDS Integers, Sequences, FiniteSets

CONSTANTS MaxEntries, MaxTears, MaxUnsigned, MaxAnchors, MaxChanges     \* bounds

Genesis == 0
Altered == -1       \* a value that was never written
Absent == -2        \* no such field; no such directory
Unreadable == -3    \* a directory with a file that cannot be read

HashedFields == {"prev", "bundle", "incident"}
Fields == HashedFields \cup {"hash", "dir", "other", "key"}

VARIABLES
  log,        \* chain_of_custody.log
  digests,    \* what the n-th hash was computed from
  held,       \* what the bundle directories hash to now
  anchors,    \* chain_anchors.jsonl
  tears,      \* entries that were cut short
  changes     \* what was changed since: [what, at], and how often

vars == <<log, digests, held, anchors, tears, changes>>

\* What entry_hash is computed from.
ContentOf(core) == [prev |-> core.prev, bundle |-> core.bundle, incident |-> core.incident]

\* signed_core of the n-th entry, and the signature of an entry without one.
CoreOf(n, prev) ==
  [prev |-> prev, bundle |-> n, incident |-> n, hash |-> n, dir |-> n, other |-> n, key |-> 1]
Nothing ==
  [prev |-> Absent, bundle |-> Absent, incident |-> Absent, hash |-> Absent, dir |-> Absent,
   other |-> Absent, key |-> Absent]

\* An entry has its fields and the fields that its signature was made of.  A
\* line that json.loads rejects has nothing.
Damaged == [core |-> Nothing, signature |-> Nothing]
Core(i) == log[i].core

\* Mutant: the head of the chain is kept in memory and lost.
PreviousHashLost == Genesis

\* get_previous_hash.
PreviousHash == IF log = <<>> \/ log[Len(log)] = Damaged THEN Genesis ELSE Core(Len(log)).hash

Init ==
  /\ log = <<>> /\ digests = <<>> /\ held = <<>> /\ anchors = <<>>
  /\ tears = 0 /\ changes = {}

New == Len(digests) + 1

\* preserve_bundle; signing may fail.
Preserve(signed) ==
  /\ changes = {} /\ Len(digests) < MaxEntries
  /\ ~ signed => Cardinality({i \in DOMAIN log : log[i].signature = Nothing}) < tears + MaxUnsigned
  /\ LET core == CoreOf(New, PreviousHash) IN
       /\ digests' = Append(digests, ContentOf(core))
       /\ log' = Append(log, [core |-> core, signature |-> IF signed THEN core ELSE Nothing])
  /\ held' = Append(held, New)
  /\ UNCHANGED <<anchors, tears, changes>>

\* The line is cut short, and takes the next one with it.
Tear ==
  /\ changes = {} /\ tears < MaxTears
  /\ log' = Append(log, Damaged)
  /\ tears' = tears + 1
  /\ UNCHANGED <<digests, held, anchors, changes>>

Parsed(lines) == \A i \in DOMAIN lines : lines[i] # Damaged

\* anchor_chain.
Anchor ==
  /\ changes = {} /\ log # <<>> /\ Parsed(log) /\ Len(anchors) < MaxAnchors
  /\ anchors' = Append(anchors, [count |-> Len(log), head |-> Core(Len(log)).hash])
  /\ UNCHANGED <<log, digests, held, tears, changes>>
------------------------------------------------------------------------------
(* What happens to the files afterwards, as the tamper tests and the       *)
(* comments of the verifiers list it.                                      *)

Change(what, at) == Cardinality(changes) < MaxChanges /\ changes' = changes \cup {[what |-> what, at |-> at]}

ChangeField(i, f, value) ==
  /\ log[i] # Damaged
  /\ Change(f, i)
  /\ log' = [log EXCEPT ![i].core[f] = value]
  /\ UNCHANGED <<digests, held, anchors, tears>>

\* A file of the bundle is changed, or cannot be read, or the directory is gone.
ChangeBundle(i, value) ==
  /\ Change("files", i)
  /\ held' = [held EXCEPT ![i] = value]
  /\ UNCHANGED <<log, digests, anchors, tears>>

RemoveTail(n) ==
  /\ Change("tail", n)
  /\ log' = SubSeq(log, 1, n)
  /\ UNCHANGED <<digests, held, anchors, tears>>

Next ==
  \/ \E signed \in BOOLEAN : Preserve(signed)
  \/ Tear \/ Anchor
  \/ \E i \in DOMAIN log, f \in Fields, value \in {Altered, Absent} : ChangeField(i, f, value)
  \/ \E i \in DOMAIN held, value \in {Altered, Absent, Unreadable} : ChangeBundle(i, value)
  \/ \E n \in 0..(Len(log) - 1) : RemoveTail(n)

Spec == Init /\ [][Next]_vars
------------------------------------------------------------------------------
(* forensic_validation.py.                                                 *)

Problem(i, code) == [at |-> i, code |-> code]

\* expected_prev: the hash of the last entry before i that has one.
ExpectedPrev(i) ==
  LET before == {j \in 1..(i - 1) : Core(j).hash # Absent}
  IN IF before = {} THEN Genesis ELSE Core(CHOOSE j \in before : \A k \in before : k <= j).hash

HashMatches(core) == core.hash \in DOMAIN digests /\ digests[core.hash] = ContentOf(core)

\* Mutant: the hash of the entry is not recomputed.
LinkCodesOnly(i) == IF Core(i).prev # ExpectedPrev(i) THEN {"PREVIOUS_HASH_BROKEN"} ELSE {}

LinkCodes(i) ==
  (IF Core(i).prev # ExpectedPrev(i) THEN {"PREVIOUS_HASH_BROKEN"} ELSE {}) \cup
  (IF \E f \in HashedFields : Core(i)[f] = Absent THEN {"ENTRY_FIELD_MISSING"}
   ELSE IF ~ HashMatches(Core(i)) THEN {"ENTRY_HASH_MISMATCH"} ELSE {})

\* resolve_bundle_dir, and the files it finds there.
Found(core) == IF core.dir \in DOMAIN held THEN held[core.dir] ELSE Absent

\* Mutant: the bundle needs only be there.
BundleCodesThere(core) == IF core.dir = Absent \/ Found(core) = Absent THEN {"BUNDLE_MISSING"} ELSE {}

BundleCodes(core) ==
  IF core.dir = Absent THEN {"BUNDLE_DIR_FIELD_MISSING"}
  ELSE IF Found(core) = Absent THEN {"BUNDLE_MISSING"}
  ELSE IF Found(core) = Unreadable THEN {"BUNDLE_UNREADABLE"}
  ELSE IF Found(core) = core.bundle THEN {} ELSE {"BUNDLE_HASH_MISMATCH"}

CodesAt(i) == LinkCodes(i) \cup BundleCodes(Core(i))

\* verify_chain_detailed: one bad line, and no entry is looked at.
Problems ==
  IF ~ Parsed(log) THEN {Problem(0, "LOG_UNREADABLE")}
  ELSE UNION {{Problem(i, code) : code \in CodesAt(i)} : i \in DOMAIN log}

\* verify_incident: the first entry of that incident, and the links before it.
IndexOf(incident) == CHOOSE i \in DOMAIN log :
  Core(i).incident = incident /\ \A j \in 1..(i - 1) : Core(j).incident # incident

Verdict(incident) ==
  IF ~ Parsed(log) THEN "INVALID"
  ELSE IF \A i \in DOMAIN log : Core(i).incident # incident THEN "NOT_FOUND"
  ELSE LET own == CodesAt(IndexOf(incident))
           earlier == UNION {LinkCodes(i) : i \in 1..(IndexOf(incident) - 1)}
       IN IF own \cup earlier = {} THEN "VALID" ELSE "INVALID"
------------------------------------------------------------------------------
(* custody_verify.py, with the key of the edge node pinned.                *)

\* It subscripts these fields and has no handler.
Raises == ~ Parsed(log) \/ \E i \in DOMAIN log : \E f \in HashedFields \cup {"hash"} : Core(i)[f] = Absent

SignatureCodes(e) ==
  IF e.signature = Nothing THEN {"UNSIGNED"}
  ELSE IF e.core.key # 1 THEN {"UNKNOWN_KEY_ID"}
  ELSE IF e.signature # e.core THEN {"BAD_SIGNATURE"} ELSE {}

ChainCodes(i) ==
  (IF Core(i).prev # ExpectedPrev(i) THEN {"BROKEN_LINK"} ELSE {}) \cup
  (IF ~ HashMatches(Core(i)) THEN {"ENTRY_HASH_MISMATCH"} ELSE {})

\* Mutant: a log as long as the anchor says counts as truncated.
AnchorCodesStrict(a) ==
  IF Len(log) <= a.count THEN {"TAIL_TRUNCATED"}
  ELSE IF Core(a.count).hash # a.head THEN {"ANCHORED_ENTRY_REWRITTEN"} ELSE {}

AnchorCodes(a) ==
  IF Len(log) < a.count THEN {"TAIL_TRUNCATED"}
  ELSE IF Core(a.count).hash # a.head THEN {"ANCHORED_ENTRY_REWRITTEN"} ELSE {}

PinnedProblems ==
  UNION {{Problem(i, code) : code \in ChainCodes(i) \cup SignatureCodes(log[i])} : i \in DOMAIN log}
AnchorProblems == UNION {AnchorCodes(anchors[k]) : k \in DOMAIN anchors}

Accepts == ~ Raises /\ PinnedProblems = {} /\ AnchorProblems = {}
------------------------------------------------------------------------------
(* tamper_tests.py and /api/custody: the links only.                       *)

Linked(line, next) == line.core.hash = Absent \/ next.core.prev = line.core.hash
Intact(lines) == \A i \in 2..Len(lines) : Linked(lines[i - 1], lines[i])

TestAPasses == Parsed(log) /\ Intact(log)

\* The dashboard passes over the lines it cannot read: it compares a line with
\* the last one before it that it can.
ShownBefore(i) == {j \in 1..(i - 1) : log[j] # Damaged}
ShownIntact ==
  \A i \in DOMAIN log : log[i] # Damaged =>
    \A j \in ShownBefore(i) : (\A k \in ShownBefore(i) : k <= j) => Linked(log[j], log[i])

\* tamper_test_b, on an incident one of whose files was changed.
TestBPasses(incident) ==
  /\ Verdict(incident) = "INVALID"
  /\ "BUNDLE_HASH_MISMATCH" \in CodesAt(IndexOf(incident))

\* test_d_modify_chain_entry: the first field of the middle entry (its hash).
Middle == (Len(log) \div 2) + 1
TestDIsInvalid == ~ Intact([log EXCEPT ![Middle].core.hash = Altered])
------------------------------------------------------------------------------
(* Properties.                                                             *)

ContentType == [prev : Int, bundle : Int, incident : Int]
CoreType ==
  [prev : Int, bundle : Int, incident : Int, hash : Int, dir : Int, other : Int, key : Int]

\* Every variable stays in its type.
TypeOK ==
  /\ log \in Seq([core : CoreType, signature : CoreType])
  /\ digests \in Seq(ContentType) /\ held \in Seq(Int) /\ Len(held) = Len(digests)
  /\ anchors \in Seq([count : Nat, head : Int])
  /\ tears \in Nat
  /\ changes \subseteq [what : Fields \cup {"files", "tail"}, at : Nat]

\* What nobody has touched verifies.  All three verifiers and test A accept a log
\* nobody has changed, if no write was cut short and every entry was signed; the
\* dashboard shows it as broken exactly if a line that was cut short has entries
\* on both sides.  Changed files invalidate their own incident and no other: "A
\* changed bundle in an earlier incident does not change this incident's own
\* evidence".
UntouchedVerifies ==
  /\ (changes = {} /\ Parsed(log)) =>
       /\ Problems = {} /\ TestAPasses
       /\ Accepts <=> \A i \in DOMAIN log : log[i].signature # Nothing
  /\ changes = {} =>
       (ShownIntact <=> ~ \E i, j, k \in DOMAIN log :
          i < j /\ j < k /\ log[i] # Damaged /\ log[j] = Damaged /\ log[k] # Damaged)
  /\ (Parsed(log) /\ \A c \in changes : c.what = "files") =>
       \A i \in DOMAIN log :
         Verdict(Core(i).incident) = "VALID" <=> ~ \E c \in changes : c.at = Core(i).incident

\* Whatever was changed, an incident that verify_incident finds VALID has the
\* entry that was written for it, and the files that were hashed then.
ValidMeansUnaltered ==
  \A n \in DOMAIN digests : Verdict(n) = "VALID" =>
    /\ ContentOf(Core(IndexOf(n))) = digests[n] /\ Core(IndexOf(n)).hash = n
    /\ Found(Core(IndexOf(n))) = n

\* One changed entry is reported at its own place, and at most at the next one
\* besides; a field that is signed but not hashed is left to the signature.  Test
\* B passes for the incident whose file was changed, and for no other.
OneChangeIsLocated ==
  \A c \in changes : (changes = {c} /\ Parsed(log)) =>
    /\ c.what \in Fields =>
         /\ {p.at : p \in Problems} \subseteq {c.at, c.at + 1}
         /\ c.what \notin {"other", "key"} => c.at \in {p.at : p \in Problems}
         /\ (~ Raises /\ log[c.at].signature # Nothing) => c.at \in {p.at : p \in PinnedProblems}
    /\ c.what = "files" =>
         \A i \in DOMAIN log :
           TestBPasses(Core(i).incident) <=> c.at = Core(i).incident /\ held[c.at] = Altered

\* A log that has lost anchored entries is not accepted, and one that has only
\* lost entries behind the last anchor is.
AnchorsExposeTruncation ==
  (changes # {} /\ Parsed(log) /\ \A c \in changes : c.what = "tail") =>
    (AnchorProblems = {} <=> \A k \in DOMAIN anchors : anchors[k].count <= Len(log))

\* test_d_modify_chain_entry: "need at least 2 custody entries to test a broken
\* link"; with two, the test must find the changed chain INVALID, as it expects.
TestDFindsTheChange == (changes = {} /\ Parsed(log) /\ Len(log) >= 2) => TestDIsInvalid
==============================================================================
