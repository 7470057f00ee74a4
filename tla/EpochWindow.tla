---------------------------- MODULE EpochWindow ----------------------------
(***************************************************************************)
(* What PruningStorer.changeEpoch computes, as operators over the part of  *)
(* the storer's state it rewrites (storage/pruning/pruningStorer.go).      *)
(* Every operator runs with ps.lock held, so each is one atomic            *)
(* computation.                                                            *)
(*                                                                         *)
(* A persisterData is identified with its epoch.  A window is a record     *)
(*   active  the epochs of activePersisters.  The slice is kept newest     *)
(*           first, so its order is the order of the epochs, its element 0 *)
(*           is Max(active) and its last element Min(active);              *)
(*   known   the keys of persistersMapByEpoch;                             *)
(*   open    the epochs whose persisterData is not closed.                 *)
(***************************************************************************)
EXTENDS Integers, FiniteSets, FiniteSetsExt

CONSTANTS
    NumOfActivePersisters,  \* StoragePruning.NumActivePersisters
    NumOfEpochsToKeep,      \* StoragePruning.NumEpochsToKeep
    MaxStuck,               \* maxNumEpochsToKeepIfAShardIsStuck (5 in the code)
    Word,                   \* the modulus of uint32 arithmetic (2^32 in the code)
    ShouldClean,            \* what oldDataCleanerProvider.ShouldClean returns
    RemoverEnabled,         \* is the customDatabaseRemover the real one
    DivisibleEpochs,        \* its divisibleEpochs pattern
    IsTrie,                 \* is lastEpochNeededHandler the one of triePruningStorer
    DiskMayFail             \* may Create, on a closed path, and DestroyClosed fail

\* checkArgs of pruningStorer.go; the word is wide enough for the constants.
ASSUME WindowAssumption ==
    /\ NumOfActivePersisters \in Nat \ {0}
    /\ NumOfEpochsToKeep \in Nat
    /\ NumOfEpochsToKeep >= NumOfActivePersisters
    /\ MaxStuck \in Nat
    /\ Word \in Nat \ {0}
    /\ ShouldClean \in BOOLEAN
    /\ RemoverEnabled \in BOOLEAN
    /\ DivisibleEpochs \subseteq Nat \ {0}
    /\ IsTrie \in BOOLEAN
    /\ DiskMayFail \in BOOLEAN

\* No MetaBlock was received by saveHeaderForEpochStartPrepare yet: the header
\* still has the epoch epochForDefaultEpochPrepareHdr.
NoPrepareHdr == -1

\* A uint32 holds a difference modulo 2^32.
Wrap(n) == n % Word

\* The number of marked DBs lastEpochNeeded of triePruningStorer looks for.
minNumOfActiveDBsNecessary == 2

----------------------------------------------------------------------------
(* Opening DBs *)

\* persisterFactory.Create on every closed persister of es, newest first: a
\* failure leaves the ones before it open.
Reopen(w, es) ==
    {[err |-> FALSE, open |-> w.open \cup es]} \cup
    {[err |-> TRUE, open |-> w.open \cup {y \in es : y > x}] :
        x \in IF DiskMayFail THEN es \ w.open ELSE {}}

\* The persister of an epoch the map does not have yet.
CreateForEpoch(w, e) ==
    {[err |-> FALSE, w |-> [active |-> w.active \cup {e},
                            known  |-> w.known \cup {e},
                            open   |-> w.open \cup {e}]]} \cup
    (IF DiskMayFail THEN {[err |-> TRUE, w |-> w]} ELSE {})

\* The oldest epoch changeEpochWithExisting wants active: the default window, or
\* the end of the current one when that was extended.
OldestEpochActive(w, e) ==
    Min({Max({0, e - NumOfActivePersisters + 1}), Min(w.active)})

\* Mutant: a DB a reader created ahead of time counts as already changed to.
ChangeEpochIgnored(w, e) == {[err |-> FALSE, w |-> w]}

\* A missing epoch leaves everything as it is, and is no error.
ChangeEpochWithExisting(w, e) ==
    LET window == OldestEpochActive(w, e) .. e
    IN  IF window \subseteq w.known
        THEN {[err |-> r.err,
               w |-> [w EXCEPT !.open = r.open,
                               !.active = IF r.err THEN @ ELSE window]] :
                 r \in Reopen(w, window)}
        ELSE {[err |-> FALSE, w |-> w]}

----------------------------------------------------------------------------
(* Keeping DBs a stuck shard still needs *)

\* Only persisters that were closed are appended to activePersisters.
ExtendActivePersisters(w, from, to) ==
    IF (from .. to) \subseteq w.known
    THEN {[err |-> r.err,
           w |-> [w EXCEPT !.open = r.open,
                           !.active = IF r.err THEN @
                                      ELSE @ \cup ((from .. to) \ w.open)]] :
             r \in Reopen(w, from .. to)}
    ELSE {[err |-> FALSE, w |-> w]}

\* keep is computeOldestEpoch of the epoch-start MetaBlock.
ExtendSavedEpochsIfNeeded(w, e, keep) ==
    IF /\ keep # NoPrepareHdr
       /\ keep <= Min(w.active)
       /\ Wrap(e - keep) < MaxStuck
    THEN {[extended |-> ~ r.err, w |-> r.w] :
             r \in ExtendActivePersisters(w, keep, Min(w.active))}
    ELSE {[extended |-> FALSE, w |-> w]}

----------------------------------------------------------------------------
(* Closing and destroying what fell out of the window *)

\* Mutant: the trie storer uses the handler of the plain one.
LastEpochNeededPlain(w, marked) == Max(w.active)

\* PruningStorer: the newest active epoch.  triePruningStorer: walking from the
\* newest, the epoch of the second DB marked as active, else the oldest active.
\* A closed DB does not show its marker.
LastEpochNeeded(w, marked) ==
    LET seen   == w.active \cap w.open \cap marked
        needed == {e \in seen : Cardinality({f \in seen : f >= e})
                                    = minNumOfActiveDBsNecessary}
    IN  IF ~ IsTrie THEN Max(w.active)
        ELSE IF needed = {} THEN Min(w.active) ELSE Max(needed)

\* The active persisters that stay: the newest ones, as many as are needed and
\* at least NumOfActivePersisters.
PersistersToKeep(w, last) ==
    LET needed  == Cardinality({e \in w.active : e >= last})
        allowed == Max({needed, NumOfActivePersisters})
    IN  {e \in w.active : Cardinality({f \in w.active : f >= e}) <= allowed}

\* Mutant: off by one, the oldest epoch to keep is removed as well.
EpochsToRemoveOneMore(known, e, last) ==
    LET start == Wrap(e - NumOfEpochsToKeep + 1)
    IN  IF Cardinality(known) > NumOfEpochsToKeep
        THEN {x \in known : x <= start /\ (x .. start) \subseteq known}
        ELSE {}

\* Consecutive epochs of the map, downwards from a start that two unsigned
\* subtractions compute.
EpochsToRemove(known, e, last) ==
    LET idx   == Wrap(e - NumOfEpochsToKeep)
        start == IF idx >= last THEN Wrap(last - 1) ELSE idx
    IN  IF Cardinality(known) > NumOfEpochsToKeep
        THEN {x \in known : x <= start /\ (x .. start) \subseteq known}
        ELSE {}

\* customDatabaseRemover, or the disabled one that always says no.
ShouldRemove(e) ==
    RemoverEnabled /\ \A d \in DivisibleEpochs : e % d # 0

\* What the removal loop got through, newest first: a failing DestroyClosed ends
\* it and leaves its own epoch and the older ones in the map.
Processed(removed) ==
    {removed} \cup {{y \in removed : y > x} :
                       x \in IF DiskMayFail THEN {z \in removed : ShouldRemove(z)}
                             ELSE {}}

\* processPersistersToClose puts back in the map what it closes, before the map
\* is counted.  Destroyed epochs leave the map whatever ShouldClean says.
CloseAndDestroyPersisters(w, e, marked) ==
    LET last    == LastEpochNeeded(w, marked)
        kept    == PersistersToKeep(w, last)
        toClose == w.active \ kept
        known   == w.known \cup toClose
        Destroyed(done) == {x \in done : ShouldRemove(x)}
    IN  {[w |-> [active |-> kept,
                 known  |-> known \ (IF ShouldClean THEN done ELSE Destroyed(done)),
                 open   |-> w.open \ toClose],
          closed |-> toClose,
          destroyed |-> Destroyed(done)] :
            done \in Processed(EpochsToRemove(known, e, last))}

RemoveOldPersistersIfNeeded(w, e, keep, marked) ==
    UNION {IF r.extended THEN {[w |-> r.w, closed |-> {}, destroyed |-> {}]}
                         ELSE CloseAndDestroyPersisters(r.w, e, marked) :
              r \in ExtendSavedEpochsIfNeeded(w, e, keep)}

\* The outcomes of changeEpoch(header): the new window, the epochs whose DB was
\* closed and the epochs whose directory was destroyed.
ChangeEpochOutcomes(w, e, keep, marked) ==
    UNION {IF r.err THEN {[w |-> r.w, closed |-> {}, destroyed |-> {}]}
                    ELSE RemoveOldPersistersIfNeeded(r.w, e, keep, marked) :
              r \in IF e \in w.known THEN ChangeEpochWithExisting(w, e)
                                     ELSE CreateForEpoch(w, e)}

----------------------------------------------------------------------------
(* Start-up: initPersistersInEpoch with its persisters tracker *)

OldestEpochToKeepAtStart(start) == Max({0, start - NumOfEpochsToKeep + 1})
OldestEpochActiveAtStart(start) == Max({0, start - NumOfActivePersisters + 1})

\* The DBs newer than e, already visited, that carry a marker.
NewerMarked(e, start, marks) == Cardinality({f \in marks : e < f /\ f <= start})

HasInitializedEnoughPersisters(e, start, marked, synced) ==
    /\ e < OldestEpochToKeepAtStart(start)
    /\ \/ ~ IsTrie
       \/ /\ NewerMarked(e, start, marked) >= 1
          /\ NewerMarked(e, start, synced) >= 1
       \/ NewerMarked(e, start, marked) >= minNumOfActiveDBsNecessary

ShouldClosePersister(e, start, marked) ==
    /\ e < OldestEpochActiveAtStart(start)
    /\ \/ ~ IsTrie
       \/ NewerMarked(e, start, marked) >= minNumOfActiveDBsNecessary

InitPersistersInEpoch(start, marked, synced) ==
    LET known  == {e \in 0 .. start :
                      ~ HasInitializedEnoughPersisters(e, start, marked, synced)}
        active == {e \in known : ~ ShouldClosePersister(e, start, marked)}
    IN  [active |-> active, known |-> known, open |-> active]
============================================================================
