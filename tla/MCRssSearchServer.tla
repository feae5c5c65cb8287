-------------------------- MODULE MCRssSearchServer --------------------------
(* Instances of RssSearchServer for TLC. *)
EXTENDS RssSearchServer, TLC

ServerSymmetry == Permutations(Workers) \cup Permutations(Clients)
==============================================================================
