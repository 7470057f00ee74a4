------------------------- MODULE MCStorageBootstrap -------------------------
(* Small instances of StorageBootstrap for TLC. *)
EXTENDS StorageBootstrap, TLC

CONSTANTS g, a1, a2, a3, b2, b3

(* Two chains from a1 on.  a2 and b2 start the epoch with proofs; the      *)
(* metachain notarizes a1 and then b2.                                     *)
MCNonceOf == (g :> 0) @@ (a1 :> 1) @@ (a2 :> 2) @@ (a3 :> 3) @@ (b2 :> 2) @@ (b3 :> 3)
MCRoundOf == (g :> 0) @@ (a1 :> 1) @@ (b2 :> 2) @@ (a2 :> 3) @@ (a3 :> 4) @@ (b3 :> 4)
MCPrev == (g :> g) @@ (a1 :> g) @@ (a2 :> a1) @@ (a3 :> a2) @@ (b2 :> a1) @@ (b3 :> b2)
MCNotarizes == (g :> {}) @@ (a1 :> {}) @@ (a2 :> {a1}) @@ (a3 :> {b2}) @@ (b2 :> {a1}) @@ (b3 :> {b2})
MCMetasIn == (g :> {}) @@ (a1 :> {}) @@ (a2 :> {1}) @@ (a3 :> {2}) @@ (b2 :> {1, 2}) @@ (b3 :> {3})
=============================================================================
