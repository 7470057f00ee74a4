----------------------- MODULE MCPeerMiniBlockSyncer -----------------------
(***************************************************************************)
(* Three epoch start headers, two of a fork with a miniblock in common and *)
(* one of the next epoch, and a miniblock each of their own.               *)
(***************************************************************************)
EXTENDS PeerMiniBlockSyncer

CONSTANTS a, b, c, d, s1, f1, s2

MCPeerItems ==
  [h \in Headers |-> CASE h = s1 -> {a, b} [] h = f1 -> {b, c} [] h = s2 -> {c, d}]
============================================================================
