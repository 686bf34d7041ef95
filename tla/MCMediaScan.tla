---------------------------- MODULE MCMediaScan ----------------------------
(***************************************************************************)
(* Instances of MediaScan for TLC: every constant is a set of model values *)
(* or a bound, given in the configurations.                                *)
(***************************************************************************)
EXTENDS MediaScan
=============================================================================
