---------------------------- MODULE CustodyEntries ---------------------------
(***************************************************************************)
(* The lines of chain_of_custody.log and what chain_of_custody.py makes of *)
(* them.  An entry's hash is a number that is never used twice: SHA-256    *)
(* over the previous hash, the bundle hash, the time and the incident id.  *)
(* A line that json.loads rejects is Damaged.                              *)
(***************************************************************************)
EXTENDS Integers, Sequences

Genesis == 0    \* "0" * 64
NoKey == 0      \* "signature": None

\* get_previous_hash falls back to Genesis on a damaged line, hence its id.
Damaged == [id |-> Genesis, prev |-> Genesis, sig |-> NoKey]

Line == [id : Nat, prev : Nat, sig : Nat]

\* get_previous_hash of a file of these lines, with an unfinished line or not.
HeadOf(lines, unfinished) ==
  IF unfinished \/ lines = <<>> THEN Genesis ELSE lines[Len(lines)].id

\* _read_entries succeeds: it parses every line.
Readable(lines, unfinished) ==
  ~ unfinished /\ \A i \in DOMAIN lines : lines[i] # Damaged

\* A record of ANCHOR_LOG.
AnchorRecord == [count : Nat, head : Nat, sig : Nat]
==============================================================================
