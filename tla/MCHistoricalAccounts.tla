------------------------ MODULE MCHistoricalAccounts ------------------------
(* A small history for TLC: a root of an old epoch, a root whose nodes lie on *)
(* both sides of an epoch change, and the empty trie.                         *)
EXTENDS HistoricalAccounts, TLC

CONSTANTS old, split, empty

MCRoots == {old, split, empty}
MCPresent == {split}
MCRootNodeIn == old :> {0} @@ split :> {2} @@ empty :> {}
MCLeafIn == old :> {0} @@ split :> {1} @@ empty :> {}
MCHeaderEpochs == old :> {0, 1} @@ split :> {2} @@ empty :> {0}

QuerySymmetry == Permutations(Procs)
============================================================================
