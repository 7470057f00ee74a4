-------------------------- MODULE MCScQueryService --------------------------
(***************************************************************************)
(* A chain over four epochs with a fork at nonce 3: b4 and f4 both start   *)
(* epoch 3.  Headers carry additional data from epoch 2 on; b3 and f3 have *)
(* scheduled miniblocks.  The state of b2 was lost.                        *)
(***************************************************************************)
EXTENDS ScQueryService

CONSTANTS g, b1, b2, b3, f3, b4, f4, b5, r0, r2, r3, p3, s3, r5

Hdr(nonce, epoch, start, root, committed, prev) ==
  [nonce |-> nonce, epoch |-> epoch, start |-> start, root |-> root,
   committed |-> committed, scheduled |-> epoch >= 2, prev |-> prev]

MCHeader ==
  [b \in Blocks |->
     CASE b = g  -> Hdr(0, 0, FALSE, r0, r0, None)
       [] b = b1 -> Hdr(1, 1, TRUE,  r0, r0, g)
       [] b = b2 -> Hdr(2, 2, TRUE,  r2, r2, b1)
       [] b = b3 -> Hdr(3, 2, FALSE, p3, r3, b2)
       [] b = f3 -> Hdr(3, 2, FALSE, p3, s3, b2)
       [] b = b4 -> Hdr(4, 3, TRUE,  r3, r3, b3)
       [] b = f4 -> Hdr(4, 3, TRUE,  s3, s3, f3)
       [] b = b5 -> Hdr(5, 3, FALSE, r5, r5, b4)]

\* The root node is written when the root hash is new, the leaf is older or
\* copied by a snapshot.
MCRootNodeIn ==
  [r \in Roots |-> CASE r = r0 -> {0, 1} [] r \in {r3, p3, s3} -> {2}
                     [] r = r5 -> {3} [] OTHER -> {}]

MCLeafIn ==
  [r \in Roots |-> CASE r = r0 -> {0, 1} [] r \in {r3, p3, s3} -> {2}
                     [] r = r5 -> {2} [] OTHER -> {}]
=============================================================================
