--------------------------- MODULE MCAnalysisQueue ---------------------------
(***************************************************************************)
(* Instances of AnalysisQueue for TLC.                                     *)
(***************************************************************************)
EXTENDS AnalysisQueue

CONSTANT m1

\* All keys belong to one track: supersession and deletion meet all of them.
OneTrack == [k \in Keys |-> m1]
=============================================================================
