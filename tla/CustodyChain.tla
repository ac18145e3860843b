----------------------------- MODULE CustodyChain ----------------------------
(***************************************************************************)
(* chain_of_custody.py: processes that add entries to the custody log      *)
(* (preserve_bundle), anchor it (anchor_chain) and publish the signing key *)
(* (export_public_key), on a file system they share.  The edge node is the *)
(* writer; the command line of anchor_now.sh and start.sh runs beside it.  *)
(* A process can be killed at any point, the disk can be full, and the     *)
(* host can lose its power.                                                *)
(***************************************************************************)
EXTENDS CustodyEntries, FiniteSets

CONSTANTS
  Writers,      \* processes that call preserve_bundle
  Tools,        \* processes that run the module's command line
  NoProc,       \* nobody holds the lock
  CustodyFsync, \* CUSTODY_FSYNC
  AnchorEvery,  \* ANCHOR_EVERY
  KeyAtStart,   \* the key file is there when everything starts (start.sh made it)
  MaxEntries,   \* bound on the entries written
  MaxAnchors,   \* bound on the anchors asked for on the command line
  MaxKills,     \* bound on the kills
  MaxTears,     \* bound on the writes that fail half way
  MaxLosses     \* bound on the power losses

Procs == Writers \cup Tools

Absent == -1    \* no key file
Empty == 0      \* a key file that does not hold a key

ASSUME ProcAssumption == NoProc \notin Procs
ASSUME AnchorAssumption == AnchorEvery \in Nat /\ CustodyFsync \in BOOLEAN
ASSUME KeyAssumption == KeyAtStart \in BOOLEAN

VARIABLES
  pc, mem,      \* per process: program point, and locals of the call it is in
  cache,        \* per process: _key_cache
  lock,         \* holder of the flock on chain_of_custody.log.lock
  log, torn,    \* the custody log: complete lines, and whether an unfinished one follows
  synced,       \* the lines a power loss cannot take away
  anchors,      \* ANCHOR_LOG
  keyFile,      \* custody_signing_key.pem: Absent, Empty or the id of its key
  keyDurable,   \* the key file is on disk
  published,    \* custody_public.pem
  minted,       \* number of keys generated so far
  written,      \* number of entries composed so far: the hash of the latest one
  asked,        \* number of calls of the command line so far
  kills, tears, losses,
  missed,       \* an anchor_chain was cut short, or a count could not be taken
  overtaken     \* an entry came between an anchor's fsync of the log and its reading

file == <<log, torn, synced, anchors>>
keys == <<cache, keyFile, keyDurable, published, minted>>
bounds == <<written, asked, kills, tears, losses, missed, overtaken>>
vars == <<pc, mem, lock, file, keys, bounds>>

NoCall == [call |-> "none", prev |-> Genesis, sig |-> NoKey, count |-> 0, head |-> Genesis]

Init ==
  /\ pc = [p \in Procs |-> "idle"]
  /\ mem = [p \in Procs |-> NoCall]
  /\ cache = [p \in Procs |-> NoKey]
  /\ lock = NoProc
  /\ log = <<>> /\ torn = FALSE /\ synced = 0
  /\ anchors = <<>>
  /\ keyFile = (IF KeyAtStart THEN 1 ELSE Absent) /\ keyDurable = TRUE /\ published = NoKey
  /\ minted = IF KeyAtStart THEN 1 ELSE 0
  /\ written = 0 /\ asked = 0
  /\ kills = 0 /\ tears = 0 /\ losses = 0
  /\ missed = FALSE /\ overtaken = FALSE

Goto(p, point) == pc' = [pc EXCEPT ![p] = point]

\* The call returns, or an exception leaves it.
Leave(p) == Goto(p, "idle") /\ mem' = [mem EXCEPT ![p] = NoCall]

Begin(p, call, point) ==
  /\ pc[p] = "idle"
  /\ Goto(p, point)
  /\ mem' = [mem EXCEPT ![p] = [NoCall EXCEPT !.call = call]]
------------------------------------------------------------------------------
(* preserve_bundle.                                                        *)

\* hash_directory, then the wait for the lock.
StartPreserve(p) ==
  /\ p \in Writers
  /\ written < MaxEntries
  /\ Begin(p, "preserve", "lock")
  /\ UNCHANGED <<lock, file, keys, bounds>>

\* Mutant: the lock file is opened but not locked.
OpenLockFile(p) ==
  /\ pc[p] = "lock"
  /\ Goto(p, "previous")
  /\ UNCHANGED <<mem, lock, file, keys, bounds>>

Lock(p) ==
  /\ pc[p] = "lock"
  /\ lock = NoProc
  /\ lock' = p
  /\ Goto(p, "previous")
  /\ UNCHANGED <<mem, file, keys, bounds>>

GetPreviousHash(p) ==
  /\ pc[p] = "previous"
  /\ mem' = [mem EXCEPT ![p].prev = HeadOf(log, torn)]
  /\ Goto(p, "key")
  /\ UNCHANGED <<lock, file, keys, bounds>>

\* Mutant: the line is written without its newline.
AppendUnfinished(p) ==
  /\ pc[p] = "append"
  /\ written' = written + 1
  /\ torn' = TRUE
  /\ Goto(p, IF CustodyFsync THEN "sync" ELSE "count")
  /\ UNCHANGED <<mem, lock, log, synced, anchors, keys, asked, kills, tears, losses,
                 missed, overtaken>>

\* write and flush of the line; behind an unfinished line it is not a line of its own.
AppendEntry(p) ==
  /\ pc[p] = "append"
  /\ written' = written + 1
  /\ log' = Append(log, IF torn THEN Damaged
                        ELSE [id |-> written + 1, prev |-> mem[p].prev, sig |-> mem[p].sig])
  /\ torn' = FALSE
  /\ overtaken' = (overtaken \/ \E q \in Procs : pc[q] = "entries")
  /\ Goto(p, IF CustodyFsync THEN "sync" ELSE "count")
  /\ UNCHANGED <<mem, lock, synced, anchors, keys, asked, kills, tears, losses, missed>>

\* Mutant: the failing write leaves the lock behind.
AppendFailsLocked(p) ==
  /\ pc[p] = "append"
  /\ tears < MaxTears
  /\ tears' = tears + 1
  /\ torn' \in {torn, TRUE}
  /\ Leave(p)
  /\ UNCHANGED <<lock, log, synced, anchors, keys, written, asked, kills, losses, missed,
                 overtaken>>

\* No space left: the exception leaves preserve_bundle, and with it the lock;
\* some of the line may have been written.
AppendFails(p) ==
  /\ pc[p] = "append"
  /\ tears < MaxTears
  /\ tears' = tears + 1
  /\ torn' \in {torn, TRUE}
  /\ lock' = NoProc
  /\ Leave(p)
  /\ UNCHANGED <<log, synced, anchors, keys, written, asked, kills, losses, missed, overtaken>>

FsyncEntry(p) ==
  /\ pc[p] = "sync"
  /\ synced' = Len(log)
  /\ Goto(p, "count")
  /\ UNCHANGED <<mem, lock, log, torn, anchors, keys, bounds>>

\* Mutant: the count is taken after the lock is released.
UnlockFirst(p) ==
  \/ /\ pc[p] = "count" /\ lock = p
     /\ lock' = NoProc
     /\ UNCHANGED <<pc, mem, file, keys, bounds>>
  \/ /\ pc[p] = "count" /\ lock # p
     /\ IF AnchorEvery # 0 /\ Readable(log, torn) /\ Len(log) % AnchorEvery = 0
        THEN Goto(p, "fsync") /\ mem' = [mem EXCEPT ![p] = [NoCall EXCEPT !.call = "anchor"]]
        ELSE Leave(p)
     /\ missed' = (missed \/ ~ Readable(log, torn))
     /\ UNCHANGED <<lock, file, keys, written, asked, kills, tears, losses, overtaken>>

\* The entries are counted, and the lock is released; the count decides on an
\* anchor.  A damaged line makes the count an exception.
CountAndUnlock(p) ==
  /\ pc[p] = "count"
  /\ lock' = NoProc
  /\ IF AnchorEvery # 0 /\ Readable(log, torn) /\ Len(log) % AnchorEvery = 0
     THEN Goto(p, "fsync") /\ mem' = [mem EXCEPT ![p] = [NoCall EXCEPT !.call = "anchor"]]
     ELSE Leave(p)
  /\ missed' = (missed \/ (AnchorEvery # 0 /\ ~ Readable(log, torn)))
  /\ UNCHANGED <<file, keys, written, asked, kills, tears, losses, overtaken>>
------------------------------------------------------------------------------
(* anchor_chain.                                                           *)

StartAnchor(p) ==
  /\ p \in Tools
  /\ asked < MaxAnchors
  /\ asked' = asked + 1
  /\ Begin(p, "anchor", "fsync")
  /\ UNCHANGED <<lock, file, keys, written, kills, tears, losses, missed, overtaken>>

\* Mutant: the log is not synced before it is anchored.
NoFsyncLog(p) ==
  /\ pc[p] = "fsync"
  /\ Goto(p, "entries")
  /\ UNCHANGED <<mem, lock, file, keys, bounds>>

FsyncLog(p) ==
  /\ pc[p] = "fsync"
  /\ synced' = Len(log)
  /\ Goto(p, "entries")
  /\ UNCHANGED <<mem, lock, log, torn, anchors, keys, bounds>>

\* _read_entries, without the lock: nothing to anchor, an exception, or a head.
ReadEntries(p) ==
  /\ pc[p] = "entries"
  /\ IF log # <<>> /\ Readable(log, torn)
     THEN /\ mem' = [mem EXCEPT ![p].count = Len(log), ![p].head = log[Len(log)].id]
          /\ Goto(p, "key")
     ELSE Leave(p)
  /\ missed' = (missed \/ ~ Readable(log, torn))
  /\ UNCHANGED <<lock, file, keys, written, asked, kills, tears, losses, overtaken>>

\* Mutant: the record takes the length of the log when it is written.
AppendLateAnchor(p) ==
  /\ pc[p] = "record"
  /\ anchors' = Append(anchors, [count |-> Len(log), head |-> mem[p].head, sig |-> mem[p].sig])
  /\ Leave(p)
  /\ UNCHANGED <<lock, log, torn, synced, keys, bounds>>

\* The signed record, written and synced.
AppendAnchor(p) ==
  /\ pc[p] = "record"
  /\ anchors' = Append(anchors, [count |-> mem[p].count, head |-> mem[p].head, sig |-> mem[p].sig])
  /\ Leave(p)
  /\ UNCHANGED <<lock, log, torn, synced, keys, bounds>>
------------------------------------------------------------------------------
(* export_public_key and _load_or_create_key.                              *)

StartExport(p) ==
  /\ p \in Tools
  /\ asked < MaxAnchors
  /\ asked' = asked + 1
  /\ Begin(p, "export", "key")
  /\ UNCHANGED <<lock, file, keys, written, kills, tears, losses, missed, overtaken>>

\* The caller has the key k.
UseKey(p, k) ==
  IF mem[p].call = "export"
  THEN published' = k /\ Leave(p)
  ELSE /\ mem' = [mem EXCEPT ![p].sig = k]
       /\ Goto(p, IF mem[p].call = "preserve" THEN "append" ELSE "record")
       /\ UNCHANGED published

\* The exception is caught by preserve_bundle only: the entry stays unsigned.
KeyFails(p) ==
  IF mem[p].call = "preserve"
  THEN Goto(p, "append") /\ UNCHANGED <<mem, missed>>
  ELSE Leave(p) /\ missed' = (missed \/ mem[p].call = "anchor")

\* The key of the cache, or of the file; or the file is not there.
LoadKey(p) ==
  /\ pc[p] = "key"
  /\ \/ /\ cache[p] # NoKey
        /\ UseKey(p, cache[p])
        /\ UNCHANGED <<cache, missed>>
     \/ /\ cache[p] = NoKey /\ keyFile \notin {Absent, Empty}
        /\ cache' = [cache EXCEPT ![p] = keyFile]
        /\ UseKey(p, keyFile)
        /\ UNCHANGED missed
     \/ /\ cache[p] = NoKey /\ keyFile = Empty
        /\ KeyFails(p)
        /\ UNCHANGED <<cache, published>>
     \/ /\ cache[p] = NoKey /\ keyFile = Absent
        /\ Goto(p, "create")
        /\ UNCHANGED <<mem, cache, published, missed>>
  /\ UNCHANGED <<lock, file, keyFile, keyDurable, minted, written, asked, kills, tears,
                 losses, overtaken>>

\* Mutant: without O_EXCL, an existing file is overwritten.
OverwriteKeyFile(p) ==
  /\ pc[p] = "create"
  /\ keyFile' = Empty /\ keyDurable' = FALSE
  /\ Goto(p, "generated")
  /\ UNCHANGED <<mem, missed>>
  /\ UNCHANGED <<lock, file, cache, published, minted, written, asked, kills, tears,
                 losses, overtaken>>

\* os.open with O_CREAT and O_EXCL.
CreateKeyFile(p) ==
  /\ pc[p] = "create"
  /\ \/ /\ keyFile = Absent
        /\ keyFile' = Empty /\ keyDurable' = FALSE
        /\ Goto(p, "generated")
        /\ UNCHANGED <<mem, missed>>
     \/ /\ keyFile # Absent
        /\ KeyFails(p)
        /\ UNCHANGED <<keyFile, keyDurable>>
  /\ UNCHANGED <<lock, file, cache, published, minted, written, asked, kills, tears,
                 losses, overtaken>>

WriteKey(p) ==
  /\ pc[p] = "generated"
  /\ minted' = minted + 1
  /\ keyFile' = minted + 1
  /\ cache' = [cache EXCEPT ![p] = minted + 1]
  /\ UseKey(p, minted + 1)
  /\ UNCHANGED <<lock, file, keyDurable, bounds>>
------------------------------------------------------------------------------
(* Failures.                                                               *)

\* A process dies: the kernel drops its lock and its memory is gone; a later
\* call stands for its restart.
Kill(p) ==
  /\ kills < MaxKills
  /\ pc[p] # "idle"
  /\ kills' = kills + 1
  /\ Leave(p)
  /\ cache' = [cache EXCEPT ![p] = NoKey]
  /\ lock' = IF lock = p THEN NoProc ELSE lock
  /\ missed' = TRUE
  /\ UNCHANGED <<file, keyFile, keyDurable, published, minted, written, asked, tears,
                 losses, overtaken>>

\* The kernel writes its dirty pages back.
Writeback ==
  /\ losses < MaxLosses
  /\ synced' = Len(log) /\ keyDurable' = TRUE
  /\ <<synced, keyDurable>>' # <<synced, keyDurable>>
  /\ UNCHANGED <<pc, mem, lock, log, torn, anchors, cache, keyFile, published, minted, bounds>>

\* The host goes down: every process dies, and what is not synced survives in
\* part, possibly with a piece of a line.
PowerLoss ==
  /\ losses < MaxLosses
  /\ losses' = losses + 1
  /\ \E n \in synced..Len(log) :
       /\ log' = SubSeq(log, 1, n)
       /\ torn' \in IF n < Len(log) \/ torn THEN BOOLEAN ELSE {FALSE}
       /\ synced' = n
  /\ keyFile' \in IF keyDurable THEN {keyFile} ELSE {keyFile, Empty, Absent}
  /\ keyDurable' = TRUE
  /\ pc' = [p \in Procs |-> "idle"]
  /\ mem' = [p \in Procs |-> NoCall]
  /\ cache' = [p \in Procs |-> NoKey]
  /\ lock' = NoProc
  /\ missed' = TRUE
  /\ UNCHANGED <<anchors, published, minted, written, asked, kills, tears, overtaken>>

Step(p) ==
  \/ Lock(p) \/ GetPreviousHash(p) \/ AppendEntry(p) \/ FsyncEntry(p) \/ CountAndUnlock(p)
  \/ FsyncLog(p) \/ ReadEntries(p) \/ AppendAnchor(p)
  \/ LoadKey(p) \/ CreateKeyFile(p) \/ WriteKey(p)

Call(p) == StartPreserve(p) \/ StartAnchor(p) \/ StartExport(p)

Next ==
  \/ \E p \in Procs : Call(p) \/ Step(p) \/ AppendFails(p) \/ Kill(p)
  \/ Writeback
  \/ PowerLoss

Spec == Init /\ [][Next]_vars

\* A process that is in a call goes on with it; calls and failures need not come.
FairSpec == Spec /\ \A p \in Procs : WF_vars(Step(p))
------------------------------------------------------------------------------
(* Properties.                                                             *)

Points == {"idle", "lock", "previous", "key", "create", "generated", "append", "sync", "count",
           "fsync", "entries", "record"}

\* Every variable stays in its type.
TypeOK ==
  /\ pc \in [Procs -> Points]
  /\ mem \in [Procs -> [call : {"none", "preserve", "anchor", "export"}, prev : Nat, sig : Nat,
                        count : Nat, head : Nat]]
  /\ cache \in [Procs -> Nat]
  /\ lock \in Procs \cup {NoProc}
  /\ log \in Seq(Line) /\ torn \in BOOLEAN
  /\ synced \in 0..Len(log)
  /\ anchors \in Seq(AnchorRecord)
  /\ keyFile \in Nat \cup {Absent} /\ keyDurable \in BOOLEAN
  /\ published \in Nat /\ minted \in Nat
  /\ written \in Nat /\ asked \in Nat /\ kills \in Nat /\ tears \in Nat /\ losses \in Nat
  /\ missed \in BOOLEAN /\ overtaken \in BOOLEAN

\* The chain does not fork: whatever the writers, kills, failed writes and
\* power losses, every entry is linked to the line right before it (to Genesis
\* if there is none, or if it is damaged), and no two entries have the same
\* hash (preserve_bundle: "concurrent incidents cannot fork the chain").
Chained ==
  /\ \A i \in DOMAIN log : log[i] # Damaged =>
       log[i].prev = IF i = 1 THEN Genesis ELSE log[i - 1].id
  /\ \A i, j \in DOMAIN log : (log[i] # Damaged /\ i # j) => log[i].id # log[j].id

\* The log holds what its anchors say: that many entries, and that head.  The
\* verifier reports TAIL_TRUNCATED or ANCHORED_ENTRY_REWRITTEN otherwise.  This
\* survives power losses, as the log is synced before it is anchored, unless an
\* entry came in between (AnchoredHeadDurable below); and while the host keeps
\* its power, whoever writes beside anchor_chain, which takes no lock.
AnchorsMatch ==
  (losses = 0 \/ ~ overtaken) =>
    \A k \in DOMAIN anchors :
      /\ anchors[k].count \in DOMAIN log
      /\ log[anchors[k].count].id = anchors[k].head

Signatures ==
  {log[i].sig : i \in DOMAIN log} \cup {anchors[k].sig : k \in DOMAIN anchors}

\* As long as the host keeps its power, every signature and the published key are
\* of the one key in the file, even when several processes find no key file at
\* the same time or die while they create it; and no anchor is unsigned.
OneKey ==
  /\ losses = 0 => (Signatures \cup {published}) \ {NoKey} \subseteq {keyFile}
  /\ \A k \in DOMAIN anchors : anchors[k].sig # NoKey

DamagedLines == {i \in DOMAIN log : log[i] = Damaged}

\* A write that fails half way costs at most one line besides its own: there
\* are no more damaged lines and fragments than failed writes and power losses.
DamageIsBounded == Cardinality(DamagedLines) + (IF torn THEN 1 ELSE 0) <= tears + losses

\* With ANCHOR_EVERY = n, at least as many entries are anchored as the latest
\* multiple of n, or somebody is on the way to do it, unless an anchor was cut
\* short by a failure: no two writers leave the anchor to each other.
AnchorCadence ==
  (AnchorEvery # 0 /\ ~ missed) =>
    \A n \in DOMAIN log : n % AnchorEvery = 0 =>
      \/ \E k \in DOMAIN anchors : anchors[k].count >= n
      \/ \E p \in Procs : pc[p] \in {"sync", "count"} \/ mem[p].call = "anchor"

\* The files behave like the abstract custody log: reading the previous hash
\* and appending the entry are one step, as are reading the head and anchoring it.
Abstract == INSTANCE CustodyLog WITH log <- log, torn <- torn, anchors <- anchors
ImplementsLog == Abstract!Spec

\* Who waits for the lock gets through preserve_bundle, or is killed.
PreserveReturns == \A p \in Writers : pc[p] = "lock" ~> pc[p] = "idle"
------------------------------------------------------------------------------
(* What comments and documents of the repository say of this part.         *)

\* anchor_chain: the fsync is there to "make the anchored head durable on disk".
AnchoredHeadDurable == \A k \in DOMAIN anchors : anchors[k].count <= synced

\* _load_or_create_key: "Return (private_key, public_key_raw_bytes, key_id).
\* Creates a key on first use.": a file without a key is there only while the
\* process that creates it goes on.
CreatedOnFirstUse == keyFile = Empty => \E p \in Procs : pc[p] = "generated"
==============================================================================
