------------------------------ MODULE MCSessions ------------------------------
(* Sessions on small instances.  Requests are interchangeable, and so are   *)
(* browsers: no property names one.                                         *)
EXTENDS Sessions, TLC

Symmetric == Permutations(Requests) \cup Permutations(Browsers)
=============================================================================
