----------------------------- MODULE MCPubGrub -----------------------------
(* Instances of PubGrub for TLC: the problems of Problems. *)
EXTENDS PubGrub, Problems
=============================================================================
