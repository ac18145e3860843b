-------------------------- MODULE MCDatasetPipelines --------------------------
(* Bounds: watai frames of three families and of two, with a repeat (12), two *)
(* twins of another label (7 and 13) and a broken row (5); merged frames of   *)
(* one family, large enough to be capped.                                     *)
EXTENDS DatasetPipelines

MCClass == <<"Benign", "Benign", "Benign", "Benign", "Benign",
             "DDoS-A", "DDoS-B", "DDoS-B", "DDoS-A",
             "DoS", "DoS", "DoS", "DoS", "DoS",
             "DDoS-A", "DDoS-A", "DDoS-A", "DDoS-A", "DDoS-A" >>
MCFamily == [c \in {"Benign", "DDoS-A", "DDoS-B", "DoS"} |->
               CASE c = "Benign" -> "Benign" [] c = "DoS" -> "DoS" [] OTHER -> "DDoS"]
MCKey == <<1, 2, 3, 4, 5, 6, 6, 8, 9, 10, 11, 11, 8, 14, 15, 16, 17, 18, 19>>
MCFile == <<1, 1, 1, 1, 1, 1, 1, 2, 2, 2, 2, 1, 1, 1, 3, 3, 3, 3, 3>>
MCFiles == [d \in DataSets |-> IF d = "watai" THEN 1..14 ELSE 15..19]
Load(w, m) == [d \in DataSets |-> IF d = "watai" THEN w ELSE m]
MCSamples ==
  {Load((1..13) \ {9}, {}), Load(6..14, {}), Load({6, 7, 8, 10, 11, 13}, 15..17),
   Load({}, 15..19), Load({}, {})}
=============================================================================
