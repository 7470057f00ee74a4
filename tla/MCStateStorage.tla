--------------------------- MODULE MCStateStorage ---------------------------
(* Small instances of StateStorage for TLC. *)
EXTENDS StateStorage, TLC

CONSTANTS r0, r1, r2, s2, nk, na, nb, nc, nd

(* Node na is removed by r1 and written again by r2.  s2 is another block  *)
(* on r1: it keeps nb, which r2 removes, and removes nk, which r2 keeps.   *)
(* After r1 and after either of them come empty blocks.                    *)
MCNodesOf ==
  (r0 :> {nk, na}) @@ (r1 :> {nk, nb}) @@ (r2 :> {nk, na, nc}) @@ (s2 :> {nb, nd})

MCChildren ==
  {<<r0, r1>>, <<r1, r1>>, <<r1, r2>>, <<r2, r2>>, <<r1, s2>>, <<s2, s2>>}
=============================================================================
