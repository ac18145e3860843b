------------------------------ MODULE CustodyLog -----------------------------
(***************************************************************************)
(* What the custody log promises, without processes and locks: an entry is *)
(* linked to the line before it in one step, lines are only ever added     *)
(* (but for a power loss), a write that fails half way costs the line it   *)
(* was to write and the next one, and an anchor names an entry of the log. *)
(***************************************************************************)
EXTENDS CustodyEntries

VARIABLES log, torn, anchors

logVars == <<log, torn, anchors>>

Init == log = <<>> /\ torn = FALSE /\ anchors = <<>>

\* preserve_bundle, whatever the hash and the signature of the new entry.
AddEntry ==
  /\ ~ torn
  /\ Len(log') = Len(log) + 1
  /\ LET new == log'[Len(log')] IN
       /\ log' = Append(log, new)
       /\ new \in Line
       /\ new.prev = HeadOf(log, FALSE)
       /\ new.id \notin {log[i].id : i \in DOMAIN log} \cup {Genesis}
  /\ UNCHANGED <<torn, anchors>>

\* preserve_bundle behind an unfinished line: both become one damaged line.
AddBehindFragment ==
  /\ torn
  /\ log' = Append(log, Damaged)
  /\ torn' = FALSE
  /\ UNCHANGED anchors

Tear == torn' = TRUE /\ UNCHANGED <<log, anchors>>

\* anchor_chain: the first n lines are entries, and the anchor names the last of them.
AddAnchor(n) ==
  /\ \A i \in 1..n : log[i] # Damaged
  /\ Len(anchors') = Len(anchors) + 1
  /\ LET new == anchors'[Len(anchors')] IN
       /\ anchors' = Append(anchors, new)
       /\ new.count = n
       /\ new.head = log[n].id
  /\ UNCHANGED <<log, torn>>

Lose(n) ==
  /\ log' = SubSeq(log, 1, n)
  /\ torn' \in BOOLEAN
  /\ UNCHANGED anchors

Next ==
  \/ AddEntry \/ AddBehindFragment \/ Tear
  \/ \E n \in 1..Len(log) : AddAnchor(n)
  \/ \E n \in 0..Len(log) : Lose(n)

Spec == Init /\ [][Next]_logVars
==============================================================================
