--------------------------- MODULE MCEpochChange ---------------------------
(***************************************************************************)
(* A stretch of the metachain: m, then the start s1 of epoch 1 with c1 and *)
(* d1 on top of it, then the start s2 of epoch 2.  f1 is a fork of s1, e1  *)
(* a fork of c1.                                                           *)
(***************************************************************************)
EXTENDS EpochChange

CONSTANTS m, s1, f1, c1, e1, d1, s2

Hdr(nonce, prev, epoch, round, start) ==
  [nonce |-> nonce, prev |-> prev, epoch |-> epoch, round |-> round, start |-> start]

MCKinds == <<"miniBlocks", "validatorsInfo">>

MCStarts == [e \in Epochs |-> CASE e = 1 -> {4, 5} [] e = 2 -> {6, 7} [] OTHER -> {}]
MCOneStart == [e \in Epochs |-> IF e = 1 THEN {5} ELSE {}]

\* What the pools hold from the start: all, or all but the validators info of s2.
MCAllBodies == StartHashes \X KindSet
MCBodies == MCAllBodies \ {<<s2, "validatorsInfo">>}

\* Two epochs, the second one with the Andromeda flag.
MCTwoEpochs ==
  [h \in MetaHashes |->
     CASE h = m  -> Hdr(1, NoHash, 0, 0, FALSE)
       [] h = s1 -> Hdr(2, m, 1, 1, TRUE)
       [] h = f1 -> Hdr(2, m, 1, 2, TRUE)
       [] h = c1 -> Hdr(3, s1, 1, 2, FALSE)
       [] h = s2 -> Hdr(4, c1, 2, 3, TRUE)]

\* One epoch, without it.
MCLegacy ==
  [h \in MetaHashes |->
     CASE h = m  -> Hdr(1, NoHash, 0, 0, FALSE)
       [] h = s1 -> Hdr(2, m, 1, 1, TRUE)
       [] h = f1 -> Hdr(2, m, 1, 2, TRUE)
       [] h = c1 -> Hdr(3, s1, 1, 3, FALSE)
       [] h = e1 -> Hdr(3, s1, 1, 2, FALSE)
       [] h = d1 -> Hdr(4, c1, 1, 4, FALSE)]
============================================================================
