---------------------------- MODULE EvidenceStore ----------------------------
(***************************************************************************)
(* What evidence acquisition promises: bundles are made one after the      *)
(* other, only the latest one is still written to, and once a bundle is    *)
(* sealed by a custody entry it stays as it was sealed.                    *)
(***************************************************************************)
EXTENDS Naturals, Sequences

CONSTANTS
  Blank,            \* what a bundle holds when its directory is made
  Unread            \* a file of it that the seal leaves out

VARIABLES
  bundles,          \* what each bundle holds
  sealed            \* the bundles in the custody log, with what they held then

Latest == Len(bundles)
IsSealed(i) == \E s \in sealed : s.incident = i

Init == bundles = <<>> /\ sealed = {}

Open == bundles' = Append(bundles, Blank) /\ UNCHANGED sealed

Save ==
  /\ bundles # <<>> /\ ~ IsSealed(Latest)
  /\ bundles' = [bundles EXCEPT ![Latest] = bundles'[Latest]]
  /\ UNCHANGED sealed

\* What a bundle holds, without the files that are left out.
Without(bundle, missed) == [f \in DOMAIN bundle |-> IF f \in missed THEN Unread ELSE bundle[f]]

Seal ==
  /\ bundles # <<>> /\ ~ IsSealed(Latest)
  /\ \E missed \in SUBSET DOMAIN bundles[Latest] :
       sealed' = sealed \cup {[incident |-> Latest, files |-> Without(bundles[Latest], missed)]}
  /\ UNCHANGED bundles

Next == Open \/ Save \/ Seal

Spec == Init /\ [][Next]_<<bundles, sealed>>
==============================================================================
