--------------------------- MODULE MCModelArtifacts ---------------------------
(* Two stages are enough to set one stage's files against another's.          *)
EXTENDS ModelArtifacts

MCStages == <<"stage1", "stage2">>
=============================================================================
