---------------------------- MODULE TrieStorage ----------------------------
(***************************************************************************)
(* How AccountsDB.RecreateTrie finds the trie of a root hash, and how the  *)
(* recreated trie finds its other nodes (state/accountsDB.go,              *)
(* trie/patriciaMerkleTrie.go, trie/trieStorageManagerInEpoch.go).         *)
(*                                                                         *)
(* A trie is its root hash and the storage manager it reads from: the base *)
(* one, which searches the active DBs, or the one of an epoch.  What the   *)
(* state holds is determined by the root hash.  Two nodes stand for all    *)
(* the others: the root node, needed to recreate the trie, and a leaf,     *)
(* needed to read from it.  The caches of the storer and the nodes a trie  *)
(* already resolved are left out: reads are of an account not read before. *)
(***************************************************************************)
EXTENDS Integers, FiniteSetsExt

CONSTANTS
    Roots,       \* root hashes, EmptyRoot among them
    EmptyRoot,   \* common.EmptyTrieHash
    Present,     \* the roots at which the account, or the code, exists
    RootNodeIn,  \* RootNodeIn[r]: epochs whose DB holds the root node of r
    LeafIn       \* LeafIn[r]: epochs whose DB holds the leaf

ASSUME TrieAssumption ==
    /\ EmptyRoot \in Roots
    /\ Present \subseteq Roots \ {EmptyRoot}
    /\ RootNodeIn \in [Roots -> SUBSET Nat]
    /\ LeafIn \in [Roots -> SUBSET Nat]

BaseStorage == -1
NoHint == -1

numEpochsToVerify == 2

\* The epochs GetFromEpoch(e) of the full history storer searches: e and the one
\* after it, each as a DB of its own or together with all the active ones.
GetFromEpoch(e, active) ==
    UNION {IF Min(active) <= f /\ f <= Max(active) THEN active ELSE {f} :
              f \in {e, e + 1}}

\* Mutant: only the epoch of the block is searched.
GetInEpochOnly(e, active) == GetFromEpoch(e, active)

\* trieStorageManagerInEpoch.Get: the epoch, then the one before it if there is.
GetInEpoch(e, active) ==
    UNION {GetFromEpoch(e - i, active) :
              i \in {j \in 0 .. numEpochsToVerify - 1 : j <= e}}

Searched(storage, active) ==
    IF storage = BaseStorage THEN active ELSE GetInEpoch(storage, active)

\* patriciaMerkleTrie.Recreate: without a hint the new trie gets the storage of
\* the old one.  On an error AccountsDB keeps the old trie.
Recreate(t, r, hint, active) ==
    LET storage == IF hint = NoHint THEN t.storage ELSE hint
    IN  IF r = EmptyRoot
        THEN [err |-> FALSE, trie |-> [root |-> r, storage |-> t.storage]]
        ELSE IF RootNodeIn[r] \cap Searched(storage, active) = {}
        THEN [err |-> TRUE, trie |-> t]
        ELSE [err |-> FALSE, trie |-> [root |-> r, storage |-> storage]]

\* Reading from a trie: every node on the path must be found.
Lookup(t, active) ==
    IF t.root # EmptyRoot /\ LeafIn[t.root] \cap Searched(t.storage, active) = {}
    THEN "error"
    ELSE IF t.root \in Present THEN "found" ELSE "absent"

\* AccountsDB.GetCode has no error to return: what it cannot read is empty code.
LookupCode(t, active) ==
    IF Lookup(t, active) = "found" THEN "found" ELSE "empty"
============================================================================
