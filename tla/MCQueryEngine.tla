---------------------------- MODULE MCQueryEngine ----------------------------
(***************************************************************************)
(* QueryEngine with the code's three attempts and the layer lists that     *)
(* differ: none given, one, two, and only unknown names.                   *)
(***************************************************************************)
EXTENDS QueryEngine

MCLayerSets == {{}, {"code"}, {"document", "commit"}, {"unknown"}}
=============================================================================
