---------------------- MODULE FullHistoryStorerProofs ----------------------
(***************************************************************************)
(* Invariants of FullHistoryStorer, proved for every number of processes,  *)
(* keys and epochs and every configuration of the storer, after the facts  *)
(* about the operators of EpochWindow they rest on.                        *)
(***************************************************************************)
EXTENDS FullHistoryStorer, FiniteSetsExt, WellFoundedInduction, FiniteSetTheorems, TLAPS

(* What Min and Max of FiniteSetsExt return. *)

\* A nonempty set of natural numbers has a least element, which Min returns.
LEMMA MinIsLeast ==
    ASSUME NEW S, S \subseteq Nat, S # {}
    PROVE  Min(S) \in S /\ \A y \in S : Min(S) <= y
<1> DEFINE R == {ss \in Nat \X Nat : ss[1] < ss[2]}
<1>1. IsWellFoundedOn(R, Nat)
  BY NatLessThanWellFounded, Zenon DEF OpToRel
<1>2. \A x, y \in Nat : y < x => <<y, x>> \in R
  OBVIOUS
<1> HIDE DEF R
<1>3. PICK x \in S : \A y \in S : ~ (<<y, x>> \in R)
  BY <1>1, WFMin
<1>4. \A y \in S : x =< y
  <2> SUFFICES ASSUME NEW y \in S PROVE x =< y
    OBVIOUS
  <2>1. ~ (y < x)
    BY <1>2, <1>3, Zenon
  <2> QED
    BY <2>1
<1> QED
  BY <1>4 DEF Min

\* A nonempty set of natural numbers with an upper bound has a greatest element,
\* which Max returns.
LEMMA MaxIsGreatest ==
    ASSUME NEW b \in Nat, NEW S, S \subseteq 0 .. b, S # {}
    PROVE  Max(S) \in S /\ \A y \in S : y <= Max(S)
<1> DEFINE T == {b - x : x \in S}
<1>1. T \subseteq Nat /\ T # {}
  <2>1. PICK x \in S : TRUE
    OBVIOUS
  <2>2. b - x \in T
    OBVIOUS
  <2>3. \A y \in S : b - y \in Nat
    OBVIOUS
  <2> QED
    BY <2>2, <2>3
<1>2. Min(T) \in T /\ \A y \in T : Min(T) <= y
  BY <1>1, MinIsLeast
<1>3. PICK m \in S : Min(T) = b - m
  BY <1>2
<1>4. \A y \in S : m >= y
  <2> SUFFICES ASSUME NEW y \in S PROVE m >= y
    OBVIOUS
  <2>1. b - y \in T
    OBVIOUS
  <2>2. b - m <= b - y
    BY <2>1, <1>2, <1>3
  <2>3. b \in Int /\ m \in Int /\ y \in Int
    OBVIOUS
  <2> HIDE DEF T
  <2> QED
    BY <2>2, <2>3
<1>5. \E x \in S : \A y \in S : x >= y
  BY <1>4
<1>6. Max(S) \in S /\ \A y \in S : Max(S) >= y
  BY <1>5 DEF Max
<1> QED
  BY <1>6

\* Max of two integers.
LEMMA MaxOfTwo ==
    ASSUME NEW a \in Int, NEW b \in Int
    PROVE  Max({a, b}) = IF a >= b THEN a ELSE b
<1>1. \E x \in {a, b} : \A y \in {a, b} : x >= y
  OBVIOUS
<1>2. Max({a, b}) \in {a, b} /\ \A y \in {a, b} : Max({a, b}) >= y
  BY <1>1 DEF Max
<1> QED
  BY <1>2

\* Min of two integers.
LEMMA MinOfTwo ==
    ASSUME NEW a \in Int, NEW b \in Int
    PROVE  Min({a, b}) = IF a <= b THEN a ELSE b
<1>1. \E x \in {a, b} : \A y \in {a, b} : x =< y
  OBVIOUS
<1>2. Min({a, b}) \in {a, b} /\ \A y \in {a, b} : Min({a, b}) =< y
  BY <1>1 DEF Min
<1> QED
  BY <1>2

-----------------------------------------------------------------------------
----------------------------------------------------------------------------
(* The window *)

\* The type of a window over the epochs 0 .. b: some epoch is active.
WindowType(w, b) ==
    /\ w \in [active : SUBSET (0 .. b), known : SUBSET (0 .. b),
              open : SUBSET (0 .. b)]
    /\ w.active # {}

\* The window changeEpochWithExisting asks for ends with the new epoch and
\* reaches back at least to the oldest active one.
LEMMA OldestEpochActiveFacts ==
    ASSUME NEW b \in Nat, NEW w, WindowType(w, b), NEW e \in 0 .. b
    PROVE  /\ OldestEpochActive(w, e) \in Nat
           /\ OldestEpochActive(w, e) <= e
           /\ \A a \in w.active : OldestEpochActive(w, e) <= a
           /\ \/ OldestEpochActive(w, e) \in w.active
              \/ OldestEpochActive(w, e) >= e - NumOfActivePersisters + 1
<1> USE DEF WindowType
<1> DEFINE d == e - NumOfActivePersisters + 1
<1>1. d \in Int /\ d <= e
  BY WindowAssumption DEF WindowAssumption
<1>2. Max({0, d}) = IF 0 >= d THEN 0 ELSE d
  BY <1>1, MaxOfTwo
<1>3. Min(w.active) \in w.active /\ \A a \in w.active : Min(w.active) <= a
  BY MinIsLeast
<1>4. Min({Max({0, d}), Min(w.active)}) =
         IF Max({0, d}) <= Min(w.active) THEN Max({0, d}) ELSE Min(w.active)
  <2>1. Max({0, d}) \in Int /\ Min(w.active) \in Int
    BY <1>1, <1>2, <1>3
  <2> QED
    BY <2>1, MinOfTwo, Zenon
<1>5. OldestEpochActive(w, e) = Min({Max({0, d}), Min(w.active)})
  BY DEF OldestEpochActive
<1> HIDE DEF d
<1>6. /\ OldestEpochActive(w, e) \in Nat
      /\ OldestEpochActive(w, e) <= e
      /\ \A a \in w.active : OldestEpochActive(w, e) <= a
  BY <1>1, <1>2, <1>3, <1>4, <1>5
<1>7. OldestEpochActive(w, e) \in w.active \/ OldestEpochActive(w, e) >= d
  BY <1>1, <1>2, <1>3, <1>4, <1>5
<1> QED
  BY <1>6, <1>7 DEF d

\* The newest active persister survives processPersistersToClose.
LEMMA NewestIsKept ==
    ASSUME NEW b \in Nat, NEW w, WindowType(w, b), NEW last
    PROVE  /\ Max(w.active) \in PersistersToKeep(w, last)
           /\ PersistersToKeep(w, last) \subseteq w.active
<1> USE DEF WindowType
<1> DEFINE needed  == Cardinality({e \in w.active : e >= last})
           allowed == Max({needed, NumOfActivePersisters})
           newer   == {f \in w.active : f >= Max(w.active)}
<1>1. Max(w.active) \in w.active /\ \A y \in w.active : y <= Max(w.active)
  BY MaxIsGreatest
<1>2. IsFiniteSet(0 .. b)
  BY FS_Interval
<1>3. IsFiniteSet({e \in w.active : e >= last})
  BY <1>2, FS_Subset
<1>4. needed \in Nat
  BY <1>3, FS_CardinalityType
<1>5. allowed >= 1
  <2> HIDE DEF needed
  <2>1. allowed = IF needed >= NumOfActivePersisters THEN needed
                                                    ELSE NumOfActivePersisters
    BY <1>4, MaxOfTwo, WindowAssumption DEF WindowAssumption
  <2> QED
    BY <1>4, <2>1, WindowAssumption DEF WindowAssumption
<1>6. newer = {Max(w.active)}
  BY <1>1
<1>7. Cardinality(newer) = 1
  BY <1>6, FS_Singleton
<1>8. PersistersToKeep(w, last) =
         {e \in w.active : Cardinality({f \in w.active : f >= e}) <= allowed}
  BY DEF PersistersToKeep
<1> HIDE DEF allowed
<1> QED
  BY <1>1, <1>5, <1>7, <1>8

----------------------------------------------------------------------------
(* The stages of changeEpoch *)

\* What a stage that turns the window w into v guarantees: an open DB stays or
\* becomes active, unless it was open without being active before; no active DB
\* is left closed; no epoch after the notified one becomes active.
Preserved(w, v, e, b) ==
    /\ WindowType(v, b)
    /\ w.active \subseteq w.open => v.active \subseteq v.open
    /\ w.active \subseteq 0 .. e => v.active \subseteq 0 .. e
    /\ ~ DiskMayFail /\ w.active \subseteq 0 .. e
          => v.open \subseteq v.active \cup (w.open \ w.active)

LEMMA PreservedReflexive ==
    ASSUME NEW b \in Nat, NEW w, WindowType(w, b), NEW e
    PROVE  Preserved(w, w, e, b)
BY DEF Preserved

LEMMA PreservedTransitive ==
    ASSUME NEW b \in Nat, NEW u, NEW v, NEW w, NEW e,
           Preserved(u, v, e, b), Preserved(v, w, e, b)
    PROVE  Preserved(u, w, e, b)
BY DEF Preserved

\* persisterFactory.Create on closed persisters only adds open DBs.
LEMMA ReopenFacts ==
    ASSUME NEW b \in Nat, NEW w, WindowType(w, b), NEW es \in SUBSET (0 .. b),
           NEW r \in Reopen(w, es)
    PROVE  /\ r.open \in SUBSET (0 .. b)
           /\ r.err \in BOOLEAN
           /\ w.open \subseteq r.open
           /\ r.open \subseteq w.open \cup es
           /\ ~ r.err => r.open = w.open \cup es
           /\ ~ DiskMayFail => ~ r.err
<1> USE DEF WindowType
<1>1. CASE r = [err |-> FALSE, open |-> w.open \cup es]
  BY <1>1
<1>2. CASE ~ (r = [err |-> FALSE, open |-> w.open \cup es])
  <2>1. DiskMayFail
    BY <1>2 DEF Reopen
  <2>2. PICK x \in es \ w.open :
            r = [err |-> TRUE, open |-> w.open \cup {y \in es : y > x}]
    BY <1>2, <2>1 DEF Reopen
  <2> QED
    BY <2>1, <2>2
<1> QED
  BY <1>1, <1>2

LEMMA CreateForEpochPreserves ==
    ASSUME NEW b \in Nat, NEW w, WindowType(w, b), NEW e \in 0 .. b,
           NEW r \in CreateForEpoch(w, e)
    PROVE  Preserved(w, r.w, e, b)
<1> DEFINE v == [active |-> w.active \cup {e}, known |-> w.known \cup {e},
                 open |-> w.open \cup {e}]
<1>1. r = [err |-> FALSE, w |-> v] \/ r = [err |-> TRUE, w |-> w]
  BY DEF CreateForEpoch
<1>2. r.w = v \/ r.w = w
  BY <1>1
<1>3. Preserved(w, v, e, b)
  BY DEF Preserved, WindowType
<1>4. Preserved(w, w, e, b)
  BY PreservedReflexive
<1> QED
  BY <1>2, <1>3, <1>4

LEMMA ChangeEpochWithExistingPreserves ==
    ASSUME NEW b \in Nat, NEW w, WindowType(w, b), NEW e \in 0 .. b,
           NEW r \in ChangeEpochWithExisting(w, e)
    PROVE  Preserved(w, r.w, e, b)
<1> DEFINE range == OldestEpochActive(w, e) .. e
<1>1. CASE ~ (range \subseteq w.known)
  <2>1. r = [err |-> FALSE, w |-> w]
    BY <1>1 DEF ChangeEpochWithExisting
  <2> QED
    BY <2>1, PreservedReflexive
<1>2. CASE range \subseteq w.known
  <2>1. PICK q \in Reopen(w, range) :
           r = [err |-> q.err,
                w |-> [w EXCEPT !.open = q.open,
                                !.active = IF q.err THEN @ ELSE range]]
    BY <1>2 DEF ChangeEpochWithExisting
  <2>2. range \in SUBSET (0 .. b)
    BY <1>2 DEF WindowType
  <2>3. e \in range /\ (w.active \subseteq 0 .. e => w.active \subseteq range)
    BY OldestEpochActiveFacts DEF WindowType
  <2>4. /\ r.w.active = IF q.err THEN w.active ELSE range
        /\ r.w.open = q.open
        /\ r.w.known = w.known
        /\ r.w = [active |-> r.w.active, known |-> r.w.known, open |-> r.w.open]
    BY <2>1 DEF WindowType
  <2>5. range \subseteq 0 .. e
    BY <2>2
  <2> HIDE DEF range
  <2>6. /\ q.open \in SUBSET (0 .. b)
        /\ q.err \in BOOLEAN
        /\ w.open \subseteq q.open
        /\ ~ q.err => q.open = w.open \cup range
        /\ ~ DiskMayFail => ~ q.err
    BY <2>1, <2>2, ReopenFacts
  <2>7. WindowType(r.w, b)
    BY <2>2, <2>3, <2>4, <2>6 DEF WindowType
  <2> QED
    BY <2>2, <2>3, <2>4, <2>5, <2>6, <2>7 DEF Preserved
<1> QED
  BY <1>1, <1>2

LEMMA ExtendPreserves ==
    ASSUME NEW b \in Nat, NEW w, WindowType(w, b), NEW e \in 0 .. b, NEW keep,
           NEW r \in ExtendSavedEpochsIfNeeded(w, e, keep)
    PROVE  Preserved(w, r.w, e, b)
<1> DEFINE range == keep .. Min(w.active)
<1>1. CASE r = [extended |-> FALSE, w |-> w]
  BY <1>1, PreservedReflexive
<1>2. CASE r # [extended |-> FALSE, w |-> w]
  <2>1. PICK x \in ExtendActivePersisters(w, keep, Min(w.active)) :
           r = [extended |-> ~ x.err, w |-> x.w]
    BY <1>2 DEF ExtendSavedEpochsIfNeeded
  <2>2. r.w = x.w
    BY <2>1
  <2>3. CASE ~ (range \subseteq w.known)
    <3>1. x = [err |-> FALSE, w |-> w]
      BY <2>1, <2>3 DEF ExtendActivePersisters
    <3> QED
      BY <2>2, <3>1, PreservedReflexive
  <2>4. CASE range \subseteq w.known
    <3>1. PICK q \in Reopen(w, range) :
             x = [err |-> q.err,
                  w |-> [w EXCEPT !.open = q.open,
                                  !.active = IF q.err THEN @
                                             ELSE @ \cup (range \ w.open)]]
      BY <2>1, <2>4 DEF ExtendActivePersisters
    <3>2. range \in SUBSET (0 .. b)
      BY <2>4 DEF WindowType
    <3>3. /\ r.w.active = IF q.err THEN w.active
                          ELSE w.active \cup (range \ w.open)
          /\ r.w.open = q.open
          /\ r.w.known = w.known
          /\ r.w = [active |-> r.w.active, known |-> r.w.known,
                    open |-> r.w.open]
      BY <2>2, <3>1 DEF WindowType
    <3>4. w.active \subseteq 0 .. e => range \subseteq 0 .. e
      <4>1. Min(w.active) \in w.active
        BY MinIsLeast DEF WindowType
      <4> QED
        BY <3>2, <4>1 DEF WindowType
    <3> HIDE DEF range
    <3>5. /\ q.open \in SUBSET (0 .. b)
          /\ q.err \in BOOLEAN
          /\ w.open \subseteq q.open
          /\ ~ q.err => q.open = w.open \cup range
          /\ ~ DiskMayFail => ~ q.err
      BY <3>1, <3>2, ReopenFacts
    <3>6. WindowType(r.w, b)
      BY <3>2, <3>3, <3>5 DEF WindowType
    <3> QED
      BY <3>2, <3>3, <3>4, <3>5, <3>6 DEF Preserved
  <2> QED
    BY <2>3, <2>4
<1> QED
  BY <1>1, <1>2

LEMMA CloseAndDestroyPreserves ==
    ASSUME NEW b \in Nat, NEW w, WindowType(w, b), NEW e \in 0 .. b, NEW marks,
           NEW o \in CloseAndDestroyPersisters(w, e, marks)
    PROVE  Preserved(w, o.w, e, b)
<1> DEFINE kept    == PersistersToKeep(w, LastEpochNeeded(w, marks))
           toClose == w.active \ kept
           inMap   == w.known \cup toClose
           Gone(done) == IF ShouldClean THEN done
                         ELSE {x \in done : ShouldRemove(x)}
<1>1. PICK done : /\ o.w.active = kept
                  /\ o.w.known = inMap \ Gone(done)
                  /\ o.w.open = w.open \ toClose
                  /\ o.w = [active |-> o.w.active, known |-> o.w.known,
                            open |-> o.w.open]
  BY DEF CloseAndDestroyPersisters
<1>2. kept \subseteq w.active /\ kept # {}
  BY NewestIsKept
<1> HIDE DEF kept, Gone
<1>3. WindowType(o.w, b)
  BY <1>1, <1>2 DEF WindowType
<1> QED
  BY <1>1, <1>2, <1>3 DEF Preserved

\* Every outcome of changeEpoch preserves the window: opening the new epoch,
\* extending it for a stuck shard, closing and destroying old epochs, in any
\* configuration and whichever Create or DestroyClosed fails.
LEMMA ChangeEpochPreserves ==
    ASSUME NEW b \in Nat, NEW w, WindowType(w, b), NEW e \in 0 .. b,
           NEW keep, NEW marks,
           NEW o \in ChangeEpochOutcomes(w, e, keep, marks)
    PROVE  Preserved(w, o.w, e, b)
<1>1. PICK r \in IF e \in w.known THEN ChangeEpochWithExisting(w, e)
                                 ELSE CreateForEpoch(w, e) :
         o \in IF r.err THEN {[w |-> r.w, closed |-> {}, destroyed |-> {}]}
               ELSE RemoveOldPersistersIfNeeded(r.w, e, keep, marks)
  BY DEF ChangeEpochOutcomes
<1>2. Preserved(w, r.w, e, b)
  BY <1>1, CreateForEpochPreserves, ChangeEpochWithExistingPreserves
<1>3. CASE r.err
  <2>1. o.w = r.w
    BY <1>1, <1>3
  <2> QED
    BY <1>2, <2>1
<1>4. CASE ~ r.err
  <2>1. PICK x \in ExtendSavedEpochsIfNeeded(r.w, e, keep) :
           o \in IF x.extended
                 THEN {[w |-> x.w, closed |-> {}, destroyed |-> {}]}
                 ELSE CloseAndDestroyPersisters(x.w, e, marks)
    BY <1>1, <1>4 DEF RemoveOldPersistersIfNeeded
  <2>2. WindowType(r.w, b)
    BY <1>2 DEF Preserved
  <2>3. Preserved(r.w, x.w, e, b)
    BY <2>1, <2>2, ExtendPreserves
  <2>4. WindowType(x.w, b)
    BY <2>3 DEF Preserved
  <2>5. o.w = x.w \/ Preserved(x.w, o.w, e, b)
    <3>1. CASE x.extended
      BY <2>1, <3>1
    <3>2. CASE ~ x.extended
      BY <2>1, <2>4, <3>2, CloseAndDestroyPreserves
    <3> QED
      BY <3>1, <3>2
  <2>6. Preserved(w, x.w, e, b)
    BY <1>2, <2>3, PreservedTransitive
  <2> QED
    BY <2>5, <2>6, PreservedTransitive
<1> QED
  BY <1>3, <1>4

----------------------------------------------------------------------------
(* The window of a storer that keeps its whole history *)

\* The configuration of a full archive node: nothing is cleaned or removed.
KeepsEverything == ~ DiskMayFail /\ ~ ShouldClean /\ ~ RemoverEnabled

\* The window ends with epoch c, and the map has no hole where the next epoch
\* change looks: the default window, and from the oldest active epoch on.
EndsWith(w, c) ==
    /\ c \in w.active
    /\ w.active \subseteq 0 .. c
    /\ \A x \in 0 .. c :
          \/ x > c - NumOfActivePersisters
          \/ \E a \in w.active : a <= x
          => x \in w.known

LEMMA CreateForEpochEndsWith ==
    ASSUME KeepsEverything, NEW b \in Nat, NEW w, WindowType(w, b),
           NEW c \in 0 .. b, EndsWith(w, c), NEW e \in {c, c + 1}, e <= b,
           e \notin w.known,
           NEW r \in CreateForEpoch(w, e)
    PROVE  ~ r.err /\ EndsWith(r.w, e)
<1>1. r = [err |-> FALSE, w |-> [active |-> w.active \cup {e},
                                 known |-> w.known \cup {e},
                                 open |-> w.open \cup {e}]]
  BY DEF CreateForEpoch, KeepsEverything
<1>2. /\ ~ r.err
      /\ r.w.active = w.active \cup {e}
      /\ r.w.known = w.known \cup {e}
  BY <1>1
<1>3. c \in w.known
  BY DEF EndsWith
<1>4. e = c + 1
  BY <1>3
<1>5. NumOfActivePersisters \in Nat \ {0}
  BY WindowAssumption DEF WindowAssumption
<1>6. ASSUME NEW x \in 0 .. e,
             x > e - NumOfActivePersisters \/ \E a \in r.w.active : a <= x
      PROVE  x \in r.w.known
  <2>1. CASE x = e
    BY <1>2, <2>1
  <2>2. CASE x # e
    <3>1. x \in 0 .. c
      BY <1>4, <2>2
    <3>2. x > c - NumOfActivePersisters \/ \E a \in w.active : a <= x
      BY <1>2, <1>4, <1>5, <1>6, <3>1
    <3> QED
      BY <1>2, <3>1, <3>2 DEF EndsWith
  <2> QED
    BY <2>1, <2>2
<1>7. e \in r.w.active /\ r.w.active \subseteq 0 .. e
  BY <1>2, <1>4 DEF EndsWith
<1> QED
  BY <1>2, <1>6, <1>7 DEF EndsWith

LEMMA ChangeEpochWithExistingEndsWith ==
    ASSUME KeepsEverything, NEW b \in Nat, NEW w, WindowType(w, b),
           NEW c \in 0 .. b, EndsWith(w, c), NEW e \in {c, c + 1}, e <= b,
           e \in w.known,
           NEW r \in ChangeEpochWithExisting(w, e)
    PROVE  ~ r.err /\ EndsWith(r.w, e)
<1> DEFINE o == OldestEpochActive(w, e)
<1>1. e \in 0 .. b
  OBVIOUS
<1>2. /\ o \in Nat /\ o <= e
      /\ o \in w.active \/ o >= e - NumOfActivePersisters + 1
  BY <1>1, OldestEpochActiveFacts
<1>3. NumOfActivePersisters \in Nat \ {0}
  BY WindowAssumption DEF WindowAssumption
<1> HIDE DEF o
<1>4. ASSUME NEW x \in o .. e
      PROVE  x \in w.known
  <2>1. CASE x = e
    BY <2>1
  <2>2. CASE x # e
    <3>1. x \in 0 .. c
      BY <1>2, <2>2
    <3>2. x > c - NumOfActivePersisters \/ \E a \in w.active : a <= x
      BY <1>2, <1>3
    <3> QED
      BY <3>1, <3>2 DEF EndsWith
  <2> QED
    BY <2>1, <2>2
<1>5. o .. e \subseteq w.known
  BY <1>4
<1>6. PICK q \in Reopen(w, o .. e) :
         r = [err |-> q.err,
              w |-> [w EXCEPT !.open = q.open,
                              !.active = IF q.err THEN @ ELSE o .. e]]
  BY <1>5 DEF ChangeEpochWithExisting, o
<1>7. o .. e \in SUBSET (0 .. b)
  BY <1>1, <1>2
<1>8. ~ q.err
  BY <1>6, <1>7, ReopenFacts DEF KeepsEverything
<1>9. ~ r.err /\ r.w.active = o .. e /\ r.w.known = w.known
  BY <1>6, <1>8 DEF WindowType
<1>10. ASSUME NEW x \in 0 .. e,
              x > e - NumOfActivePersisters \/ \E a \in r.w.active : a <= x
       PROVE  x \in r.w.known
  <2>1. CASE \E a \in r.w.active : a <= x
    BY <1>2, <1>4, <1>9, <2>1
  <2>2. CASE x = e
    BY <1>9, <2>2
  <2>3. CASE x # e /\ x > e - NumOfActivePersisters
    <3>1. x \in 0 .. c /\ x > c - NumOfActivePersisters
      BY <1>3, <2>3
    <3> QED
      BY <1>9, <3>1 DEF EndsWith
  <2> QED
    BY <1>10, <2>1, <2>2, <2>3
<1>11. e \in r.w.active /\ r.w.active \subseteq 0 .. e
  BY <1>2, <1>9
<1> QED
  BY <1>9, <1>10, <1>11 DEF EndsWith

LEMMA ExtendEndsWith ==
    ASSUME KeepsEverything, NEW b \in Nat, NEW w, WindowType(w, b),
           NEW e \in 0 .. b, EndsWith(w, e), NEW keep \in Int,
           NEW r \in ExtendSavedEpochsIfNeeded(w, e, keep)
    PROVE  EndsWith(r.w, e)
<1> DEFINE m == Min(w.active)
<1>1. CASE r.w = w
  BY <1>1
<1>2. CASE r.w # w
  <2>1. PICK x \in ExtendActivePersisters(w, keep, m) :
           r = [extended |-> ~ x.err, w |-> x.w]
    BY <1>2 DEF ExtendSavedEpochsIfNeeded
  <2> HIDE DEF m
  <2>2. keep .. m \subseteq w.known
    <3> SUFFICES ASSUME ~ (keep .. m \subseteq w.known) PROVE FALSE
      OBVIOUS
    <3>1. x = [err |-> FALSE, w |-> w]
      BY <2>1 DEF ExtendActivePersisters
    <3> QED
      BY <1>2, <2>1, <3>1
  <2>3. PICK q \in Reopen(w, keep .. m) :
           x = [err |-> q.err,
                w |-> [w EXCEPT !.open = q.open,
                                !.active = IF q.err THEN @
                                           ELSE @ \cup ((keep .. m) \ w.open)]]
    BY <2>1, <2>2 DEF ExtendActivePersisters
  <2>4. keep .. m \in SUBSET (0 .. b)
    BY <2>2 DEF WindowType
  <2>5. ~ q.err
    BY <2>3, <2>4, ReopenFacts DEF KeepsEverything
  <2>6. /\ r.w.active = w.active \cup ((keep .. m) \ w.open)
        /\ r.w.known = w.known
    BY <2>1, <2>3, <2>5 DEF WindowType
  <2>7. m \in w.active /\ m \in 0 .. e
    BY MinIsLeast DEF WindowType, EndsWith, m
  <2>8. e \in r.w.active /\ r.w.active \subseteq 0 .. e
    BY <2>4, <2>6, <2>7 DEF EndsWith
  <2>9. ASSUME NEW y \in 0 .. e,
               y > e - NumOfActivePersisters \/ \E a \in r.w.active : a <= y
        PROVE  y \in r.w.known
    <3>1. CASE y > e - NumOfActivePersisters \/ \E a \in w.active : a <= y
      BY <2>6, <3>1 DEF EndsWith
    <3>2. ASSUME NEW a \in keep .. m, a <= y
          PROVE  y \in w.known
      <4>1. CASE m <= y
        BY <2>7, <4>1 DEF EndsWith
      <4>2. CASE ~ (m <= y)
        BY <2>2, <2>7, <3>2, <4>2
      <4> QED
        BY <4>1, <4>2
    <3> QED
      BY <2>6, <2>9, <3>1, <3>2
  <2> QED
    BY <2>8, <2>9 DEF EndsWith
<1> QED
  BY <1>1, <1>2

LEMMA CloseAndDestroyEndsWith ==
    ASSUME KeepsEverything, NEW b \in Nat, NEW w, WindowType(w, b),
           NEW e \in 0 .. b, EndsWith(w, e), NEW marks,
           NEW o \in CloseAndDestroyPersisters(w, e, marks)
    PROVE  EndsWith(o.w, e)
<1> DEFINE kept == PersistersToKeep(w, LastEpochNeeded(w, marks))
<1>1. o.w.active = kept /\ w.known \subseteq o.w.known
  BY DEF CloseAndDestroyPersisters, KeepsEverything, ShouldRemove
<1>2. kept \subseteq w.active /\ Max(w.active) \in kept
  BY NewestIsKept
<1>3. Max(w.active) = e
  <2>1. Max(w.active) \in w.active /\ \A y \in w.active : y <= Max(w.active)
    BY MaxIsGreatest DEF WindowType
  <2> QED
    BY <2>1 DEF EndsWith
<1> HIDE DEF kept
<1> QED
  BY <1>1, <1>2, <1>3 DEF EndsWith

\* A storer that keeps its history ends every epoch change with the notified
\* epoch as the newest active one.
LEMMA ChangeEpochEndsWith ==
    ASSUME KeepsEverything, NEW b \in Nat, NEW w, WindowType(w, b),
           NEW c \in 0 .. b, EndsWith(w, c), NEW e \in {c, c + 1}, e <= b,
           NEW keep \in Int, NEW marks,
           NEW o \in ChangeEpochOutcomes(w, e, keep, marks)
    PROVE  EndsWith(o.w, e)
<1> e \in 0 .. b
  OBVIOUS
<1>1. PICK r \in IF e \in w.known THEN ChangeEpochWithExisting(w, e)
                                 ELSE CreateForEpoch(w, e) :
         o \in IF r.err THEN {[w |-> r.w, closed |-> {}, destroyed |-> {}]}
               ELSE RemoveOldPersistersIfNeeded(r.w, e, keep, marks)
  BY DEF ChangeEpochOutcomes
<1>2. ~ r.err /\ EndsWith(r.w, e)
  BY <1>1, CreateForEpochEndsWith, ChangeEpochWithExistingEndsWith
<1>3. WindowType(r.w, b)
  BY <1>1, CreateForEpochPreserves, ChangeEpochWithExistingPreserves DEF Preserved
<1>4. PICK x \in ExtendSavedEpochsIfNeeded(r.w, e, keep) :
         o \in IF x.extended
               THEN {[w |-> x.w, closed |-> {}, destroyed |-> {}]}
               ELSE CloseAndDestroyPersisters(x.w, e, marks)
  BY <1>1, <1>2 DEF RemoveOldPersistersIfNeeded
<1>5. EndsWith(x.w, e)
  BY <1>2, <1>3, <1>4, ExtendEndsWith
<1>6. WindowType(x.w, b)
  BY <1>3, <1>4, ExtendPreserves DEF Preserved
<1>7. CASE x.extended
  BY <1>4, <1>5, <1>7
<1>8. CASE ~ x.extended
  BY <1>4, <1>5, <1>6, <1>8, CloseAndDestroyEndsWith
<1> QED
  BY <1>7, <1>8

----------------------------------------------------------------------------
(* The storer *)

\* The constants, as the proofs use them.
LEMMA EpochFacts ==
    /\ MaxEpoch \in Nat /\ MaxEpoch + 1 \in Nat
    /\ StartingEpoch \in 0 .. MaxEpoch
    /\ Epochs = 0 .. MaxEpoch + 1
    /\ 0 .. MaxEpoch \subseteq Epochs
BY StorerAssumption DEF StorerAssumption, Epochs

\* The state of the storer is a window in the sense of WindowType.
LEMMA WindowHasType ==
    ASSUME TypeOK
    PROVE  WindowType(Window, MaxEpoch + 1)
BY EpochFacts DEF TypeOK, WindowType, Window

\* The newest active epoch is one, and bounds the others.
LEMMA NewestActive ==
    ASSUME TypeOK
    PROVE  Max(active) \in active /\ \A e \in active : e <= Max(active)
BY EpochFacts, MaxIsGreatest DEF TypeOK

----------------------------------------------------------------------------
(* Type correctness *)

\* Closing a DB, ending a call and going on with a search keep calls well formed.
LEMMA KilledHasType ==
    ASSUME TypeOK, NEW es
    PROVE  Killed(es) \in [Procs -> Calls]
<1>1. ASSUME NEW c \in Calls
      PROVE  [c EXCEPT !.live = FALSE] \in Calls
  BY <1>1 DEF Calls
<1> QED
  BY <1>1 DEF TypeOK, Killed

LEMMA IdleIsCall == Idle \in Calls
BY EpochFacts DEF Idle, Calls

LEMMA FinishHasType ==
    ASSUME TypeOK, NEW p \in Procs, Finish(p)
    PROVE  proc' \in [Procs -> Calls]
BY IdleIsCall DEF TypeOK, Finish

LEMMA NotFoundHasType ==
    ASSUME TypeOK, NEW p \in Procs, NotFound(p)
    PROVE  proc' \in [Procs -> Calls]
<1>1. proc[p] \in Calls
  BY DEF TypeOK
<1>2. [proc[p] EXCEPT !.pc = "missed", !.live = FALSE] \in Calls
  BY <1>1 DEF Calls
<1>3. proc[p].at = proc[p].epoch
         => [proc[p] EXCEPT !.pc = "check", !.at = @ + 1, !.live = FALSE] \in Calls
  <2>1. ASSUME proc[p].at = proc[p].epoch
        PROVE  proc[p].at + 1 \in Epochs
    BY <1>1, <2>1, EpochFacts DEF Calls
  <2>2. ASSUME NEW e \in Epochs
        PROVE  [proc[p] EXCEPT !.pc = "check", !.at = e, !.live = FALSE] \in Calls
    BY <1>1 DEF Calls
  <2> QED
    BY <2>1, <2>2
<1> QED
  BY <1>2, <1>3 DEF TypeOK, NotFound

LEMMA StartHasType ==
    ASSUME TypeOK, NEW p \in Procs, NEW op, NEW k \in Keys,
           NEW e \in 0 .. MaxEpoch,
           NEW pc \in {"check", "fast", "choose", "fill", "erase"},
           op # "PutInEpochWithoutCache", Start(p, op, k, e, pc)
    PROVE  proc' \in [Procs -> Calls]
<1> op \in Ops
  BY DEF Start
<1> DEFINE c == [Call(op, k, e) EXCEPT
                    !.pc = pc, !.stored = op = "GetFromEpoch" /\ k \in disk[e]]
<1>1. c \in Calls
  BY EpochFacts DEF Call, Idle, Calls
<1>2. proc' = [proc EXCEPT ![p] = c]
  BY DEF Start
<1> QED
  BY <1>1, <1>2 DEF TypeOK

LEMMA StartMarkerHasType ==
    ASSUME TypeOK, NEW p \in Procs, NEW e \in 0 .. MaxEpoch,
           PutInEpochWithoutCache(p, e)
    PROVE  proc' \in [Procs -> Calls]
<1> DEFINE c == [Call("PutInEpochWithoutCache", "none", e) EXCEPT
                    !.pc = "borrow", !.stored = FALSE]
<1>1. c \in Calls
  <2>1. IsTrie /\ "PutInEpochWithoutCache" \in Ops
    BY DEF PutInEpochWithoutCache, Start
  <2> QED
    BY <2>1, EpochFacts DEF Call, Idle, Calls
<1>2. proc' = [proc EXCEPT ![p] = c]
  BY DEF PutInEpochWithoutCache, Start
<1> QED
  BY <1>1, <1>2 DEF TypeOK

LEMMA TypeOKInit == Init => TypeOK
<1> SUFFICES ASSUME Init PROVE TypeOK
  OBVIOUS
<1> DEFINE w == InitPersistersInEpoch(StartingEpoch, marked, Synced)
<1>1. /\ w.known \subseteq 0 .. StartingEpoch
      /\ w.active \subseteq w.known
      /\ w.open = w.active
  BY DEF InitPersistersInEpoch
<1>2. StartingEpoch \in w.active
  <2>1. \A d \in Nat \ {0} : ~ (StartingEpoch < Max({0, StartingEpoch - d + 1}))
    BY EpochFacts, MaxOfTwo
  <2>2. ~ HasInitializedEnoughPersisters(StartingEpoch, StartingEpoch, marked, Synced)
    BY <2>1, WindowAssumption
       DEF WindowAssumption, HasInitializedEnoughPersisters, OldestEpochToKeepAtStart
  <2>3. ~ ShouldClosePersister(StartingEpoch, StartingEpoch, marked)
    BY <2>1, WindowAssumption
       DEF WindowAssumption, ShouldClosePersister, OldestEpochActiveAtStart
  <2> QED
    BY <2>2, <2>3, EpochFacts DEF InitPersistersInEpoch
<1>3. active = w.active /\ known = w.known /\ open = w.open
  BY DEF Init
<1>4. marked \subseteq Epochs
  BY EpochFacts DEF Init
<1> HIDE DEF w
<1>5. /\ active \subseteq Epochs /\ known \subseteq Epochs
      /\ open \subseteq Epochs /\ active # {}
  BY <1>1, <1>2, <1>3, EpochFacts
<1> QED
  BY <1>4, <1>5, IdleIsCall, EpochFacts DEF Init, TypeOK

\* ChangeEpoch keeps the types: every outcome of changeEpoch is a window.
LEMMA ChangeEpochHasType ==
    ASSUME TypeOK, NEW e \in 0 .. MaxEpoch, ChangeEpoch(e)
    PROVE  TypeOK'
<1>1. PICK o \in ChangeEpochOutcomes(Window, e, prepare, marked) :
         /\ active' = o.w.active
         /\ known' = o.w.known
         /\ open' = o.w.open
         /\ disk' = [f \in Epochs |-> IF f \in o.destroyed THEN {} ELSE disk[f]]
         /\ proc' = Killed(o.closed)
  BY DEF ChangeEpoch
<1>2. Preserved(Window, o.w, e, MaxEpoch + 1)
  BY <1>1, ChangeEpochPreserves, WindowHasType, EpochFacts
<1>3. WindowType(o.w, MaxEpoch + 1)
  BY <1>2 DEF Preserved
<1>4. /\ active' \subseteq Epochs /\ known' \subseteq Epochs
      /\ open' \subseteq Epochs /\ active' # {}
  BY <1>1, <1>3, EpochFacts DEF WindowType
<1>5. disk' \in [Epochs -> SUBSET Keys]
  BY <1>1 DEF TypeOK
<1>6. proc' \in [Procs -> Calls]
  BY <1>1, KilledHasType
<1>7. UNCHANGED <<lru, cache, marked, prepare, putEpoch, phase>> /\ cur' = e
  BY DEF ChangeEpoch
<1> QED
  BY <1>4, <1>5, <1>6, <1>7 DEF TypeOK

\* getOrOpenPersister under Lock keeps the types.
LEMMA GetOrOpenPersisterHasType ==
    ASSUME TypeOK, NEW p \in Procs, GetOrOpenPersister(p)
    PROVE  TypeOK'
<1>1. proc[p] \in Calls /\ proc[p].at \in Epochs
  BY DEF TypeOK, Calls
<1>2. [proc[p] EXCEPT !.pc = "io", !.live = TRUE] \in Calls
  BY <1>1 DEF Calls
<1>3. known' \subseteq Epochs
  BY <1>1 DEF GetOrOpenPersister, TypeOK
<1>4. UNCHANGED <<active, disk, cache, control>>
  BY DEF GetOrOpenPersister
<1>5. /\ lru' \subseteq Epochs
      /\ open' \subseteq Epochs
      /\ proc' \in [Procs -> Calls]
  <2>1. CASE proc[p].at \in lru /\ proc[p].at \in open
    <3>1. /\ proc' = [proc EXCEPT ![p].pc = "io", ![p].live = TRUE]
          /\ UNCHANGED <<lru, open>>
      BY <2>1 DEF GetOrOpenPersister
    <3>2. proc' = [proc EXCEPT ![p] = [proc[p] EXCEPT !.pc = "io", !.live = TRUE]]
      BY <3>1 DEF TypeOK
    <3> QED
      BY <1>2, <3>1, <3>2 DEF TypeOK
  <2>2. CASE ~ (proc[p].at \in lru /\ proc[p].at \in open)
    <3>1. PICK evicted : PutInLRU(p, proc[p].at, evicted)
      BY <2>2 DEF GetOrOpenPersister
    <3>2. lru' \subseteq Epochs /\ open' \subseteq Epochs
      BY <1>1, <3>1 DEF PutInLRU, TypeOK
    <3>3. Killed(OnEvicted(evicted)) \in [Procs -> Calls]
      BY KilledHasType
    <3>4. proc' \in [Procs -> Calls]
      BY <1>2, <3>1, <3>3 DEF PutInLRU
    <3> QED
      BY <3>2, <3>4
  <2> QED
    BY <2>1, <2>2
<1> QED
  BY <1>3, <1>4, <1>5 DEF TypeOK, control

\* A step of a call in flight keeps the types.
LEMMA StepHasType ==
    ASSUME TypeOK, NEW p \in Procs, Step(p)
    PROVE  TypeOK'
<1>1. proc[p] \in Calls /\ proc[p].at \in Epochs
  BY DEF TypeOK, Calls
<1>2. ASSUME NEW c \in Calls, proc' = [proc EXCEPT ![p] = c]
      PROVE  proc' \in [Procs -> Calls]
  BY <1>2 DEF TypeOK
<1>3. CASE SearchInEpoch(p)
  <2> DEFINE pc == IF IsEpochActive(proc[p].at) THEN "search" ELSE "fast"
  <2>1. proc' = [proc EXCEPT ![p] = [proc[p] EXCEPT !.pc = pc]]
    BY <1>3 DEF SearchInEpoch, TypeOK
  <2>2. [proc[p] EXCEPT !.pc = pc] \in Calls
    BY <1>1 DEF Calls
  <2>3. proc' \in [Procs -> Calls]
    BY <1>2, <2>1, <2>2
  <2> QED
    BY <1>3, <2>3 DEF SearchInEpoch, TypeOK, window, control
<1>4. CASE SearchFirst(p)
  <2>1. proc' \in [Procs -> Calls]
    BY <1>4, FinishHasType, NotFoundHasType DEF SearchFirst
  <2> QED
    BY <1>4, <2>1 DEF SearchFirst, TypeOK, window, control
<1>5. CASE GetPersisterData(p)
  <2> DEFINE c == IF proc[p].at \in (lru \cup known) \cap open
                  THEN [proc[p] EXCEPT !.pc = "io", !.live = TRUE]
                  ELSE [proc[p] EXCEPT !.pc = "slow"]
  <2>1. proc' = [proc EXCEPT ![p] = c]
    BY <1>5 DEF GetPersisterData
  <2>2. c \in Calls
    BY <1>1 DEF Calls
  <2>3. proc' \in [Procs -> Calls]
    BY <1>2, <2>1, <2>2
  <2> QED
    BY <1>5, <2>3 DEF GetPersisterData, TypeOK, window, control
<1>6. CASE GetOrOpenPersister(p)
  BY <1>6, GetOrOpenPersisterHasType
<1>7. CASE OpenFails(p)
  <2>1. proc' \in [Procs -> Calls]
    BY <1>7, FinishHasType, NotFoundHasType DEF OpenFails
  <2> QED
    BY <1>7, <2>1 DEF OpenFails, TypeOK, window, control
<1>8. CASE Read(p)
  <2>1. proc' \in [Procs -> Calls]
    BY <1>8, FinishHasType, NotFoundHasType DEF Read
  <2> QED
    BY <1>8, <2>1 DEF Read, TypeOK, window, control
<1>9. CASE GetPersisterToUse(p)
  <2> DEFINE c == [proc[p] EXCEPT !.pc = "io", !.at = PersisterToUse,
                                  !.live = PersisterToUse \in open]
  <2>1. proc' = [proc EXCEPT ![p] = c]
    BY <1>9 DEF GetPersisterToUse, TypeOK
  <2>2. PersisterToUse \in Epochs
    BY NewestActive DEF PersisterToUse, TypeOK
  <2>3. c \in Calls
    <3>1. ASSUME NEW e \in Epochs, NEW l \in BOOLEAN
          PROVE  [proc[p] EXCEPT !.pc = "io", !.at = e, !.live = l] \in Calls
      BY <1>1 DEF Calls
    <3>2. (PersisterToUse \in open) \in BOOLEAN
      OBVIOUS
    <3> QED
      BY <2>2, <3>1, <3>2, Zenon
  <2>4. proc' \in [Procs -> Calls]
    BY <1>2, <2>1, <2>3
  <2> QED
    BY <1>9, <2>4 DEF GetPersisterToUse, TypeOK, window, control
<1>10. CASE DoPutInPersister(p)
  <2>1. proc' \in [Procs -> Calls]
    BY <1>10, FinishHasType DEF DoPutInPersister
  <2>2. proc[p].key \in Keys
    BY <1>1, <1>10 DEF DoPutInPersister, Calls
  <2>3. disk' \in [Epochs -> SUBSET Keys] /\ cache' \subseteq Keys
    BY <1>1, <1>10, <2>2 DEF DoPutInPersister, TypeOK
  <2> QED
    BY <1>10, <2>1, <2>3 DEF DoPutInPersister, TypeOK, window, control
<1>11. CASE CreateAndInitPersisterIfClosed(p)
  <2> DEFINE c == [proc[p] EXCEPT !.pc = "io", !.live = TRUE,
                                  !.own = proc[p].at \notin open]
  <2>1. c \in Calls
    <3>1. ASSUME NEW o \in BOOLEAN
          PROVE  [proc[p] EXCEPT !.pc = "io", !.live = TRUE, !.own = o] \in Calls
      BY <1>1 DEF Calls
    <3>2. (proc[p].at \notin open) \in BOOLEAN
      OBVIOUS
    <3> QED
      BY <3>1, <3>2, Zenon
  <2>2. proc' = [proc EXCEPT ![p] = c] \/ Finish(p)
    BY <1>11 DEF CreateAndInitPersisterIfClosed, TypeOK
  <2>3. proc' \in [Procs -> Calls]
    BY <1>2, <2>1, <2>2, FinishHasType
  <2>4. open' \subseteq Epochs
    BY <1>1, <1>11 DEF CreateAndInitPersisterIfClosed, TypeOK
  <2> QED
    BY <1>11, <2>3, <2>4
       DEF CreateAndInitPersisterIfClosed, TypeOK, control
<1>12. CASE PutMarker(p)
  <2>1. [proc[p] EXCEPT !.pc = "release"] \in Calls
    BY <1>1, <1>12 DEF PutMarker, Calls
  <2>2. \/ proc' = [proc EXCEPT ![p] = [proc[p] EXCEPT !.pc = "release"]]
        \/ Finish(p)
    BY <1>12 DEF PutMarker, TypeOK
  <2>3. proc' \in [Procs -> Calls]
    BY <1>2, <2>1, <2>2, FinishHasType
  <2>4. marked' \subseteq Epochs
    BY <1>1, <1>12 DEF PutMarker, TypeOK
  <2> QED
    BY <1>12, <2>3, <2>4 DEF PutMarker, TypeOK, window
<1>13. CASE ClosePersister(p)
  <2>1. proc' \in [Procs -> Calls]
    BY <1>13, KilledHasType, IdleIsCall DEF ClosePersister
  <2> QED
    BY <1>13, <2>1 DEF ClosePersister, TypeOK, control
<1>14. CASE FillCache(p)
  <2>1. proc' \in [Procs -> Calls]
    BY <1>14, FinishHasType DEF FillCache
  <2>2. proc[p].key \in Keys
    BY <1>1, <1>14 DEF FillCache, Calls
  <2> QED
    BY <1>14, <2>1, <2>2 DEF FillCache, TypeOK, window, control
<1>15. CASE RemoveFromPersister(p)
  <2>1. proc' \in [Procs -> Calls]
    BY <1>15, FinishHasType DEF RemoveFromPersister
  <2>2. disk' \in [Epochs -> SUBSET Keys]
    BY <1>15 DEF RemoveFromPersister, TypeOK
  <2> QED
    BY <1>15, <2>1, <2>2 DEF RemoveFromPersister, TypeOK, window, control
<1>16. CASE Return(p)
  <2>1. proc' \in [Procs -> Calls]
    BY <1>16, FinishHasType DEF Return
  <2> QED
    BY <1>16, <2>1 DEF Return, TypeOK, window, control
<1> QED
  BY <1>3, <1>4, <1>5, <1>6, <1>7, <1>8, <1>9, <1>10, <1>11, <1>12, <1>13,
     <1>14, <1>15, <1>16 DEF Step

\* A new call keeps the types.
LEMMA RequestHasType ==
    ASSUME TypeOK, NEW p \in Procs, Request(p)
    PROVE  TypeOK'
<1>1. CASE \E e \in StartingEpoch .. cur : PutInEpochWithoutCache(p, e)
  <2>1. PICK e \in StartingEpoch .. cur : PutInEpochWithoutCache(p, e)
    BY <1>1
  <2>2. e \in 0 .. MaxEpoch
    BY EpochFacts DEF TypeOK
  <2>3. proc' \in [Procs -> Calls]
    BY <2>1, <2>2, StartMarkerHasType
  <2> QED
    BY <2>1, <2>3 DEF PutInEpochWithoutCache, TypeOK, window, control
<1>2. ASSUME NEW k \in Keys,
             \/ Put(p, k) \/ Get(p, k) \/ Remove(p, k)
             \/ \E e \in 0 .. MaxEpoch :
                   GetFromEpoch(p, k, e) \/ GetBulkFromEpoch(p, k, e)
                      \/ PutInEpoch(p, k, e)
      PROVE  TypeOK'
  <2>1. proc' \in [Procs -> Calls]
    <3> 0 \in 0 .. MaxEpoch
      BY EpochFacts
    <3>1. CASE Put(p, k)
      BY <3>1, StartHasType, EpochFacts DEF Put
    <3>2. CASE Get(p, k)
      BY <3>2, StartHasType, EpochFacts DEF Get
    <3>3. CASE Remove(p, k)
      BY <3>3, StartHasType, EpochFacts DEF Remove
    <3>4. ASSUME NEW e \in 0 .. MaxEpoch, GetFromEpoch(p, k, e)
          PROVE  proc' \in [Procs -> Calls]
      BY <3>4, StartHasType DEF GetFromEpoch
    <3>5. ASSUME NEW e \in 0 .. MaxEpoch, GetBulkFromEpoch(p, k, e)
          PROVE  proc' \in [Procs -> Calls]
      BY <3>5, StartHasType DEF GetBulkFromEpoch
    <3>6. ASSUME NEW e \in 0 .. MaxEpoch, PutInEpoch(p, k, e)
          PROVE  proc' \in [Procs -> Calls]
      BY <3>6, StartHasType DEF PutInEpoch
    <3> QED
      BY <1>2, <3>1, <3>2, <3>3, <3>4, <3>5, <3>6
  <2>2. cache' \subseteq Keys /\ UNCHANGED <<window, lru, disk, control>>
    BY <1>2 DEF Put, Get, Remove, GetFromEpoch, GetBulkFromEpoch, PutInEpoch, TypeOK
  <2> QED
    BY <2>1, <2>2 DEF TypeOK, window, control
<1> QED
  BY <1>1, <1>2 DEF Request

LEMMA TypeOKNext == TypeOK /\ [Next]_vars => TypeOK'
<1> SUFFICES ASSUME TypeOK, [Next]_vars PROVE TypeOK'
  OBVIOUS
<1>1. ASSUME NEW keep \in MinKeep .. cur + 1, keep <= MaxEpoch,
             SaveHeaderForEpochStartPrepare(keep)
      PROVE  TypeOK'
  <2>1. keep \in Epochs
    BY <1>1, EpochFacts, StorerAssumption DEF TypeOK, StorerAssumption
  <2> QED
    BY <1>1, <2>1 DEF SaveHeaderForEpochStartPrepare, TypeOK, window
<1>2. ASSUME NEW e \in {cur, cur + 1}, e <= MaxEpoch, ChangeEpoch(e)
      PROVE  TypeOK'
  <2>1. e \in 0 .. MaxEpoch
    BY <1>2, EpochFacts DEF TypeOK
  <2> QED
    BY <1>2, <2>1, ChangeEpochHasType
<1>3. ASSUME NEW e \in {cur, cur + 1}, e <= MaxEpoch, SetEpochForPutOperation(e)
      PROVE  TypeOK'
  <2>1. e \in Epochs
    BY <1>3, EpochFacts DEF TypeOK
  <2> QED
    BY <1>3, <2>1 DEF SetEpochForPutOperation, TypeOK, window
<1>4. ASSUME NEW p \in Procs, Request(p)
      PROVE  TypeOK'
  BY <1>4, RequestHasType
<1>5. ASSUME NEW p \in Procs, Step(p)
      PROVE  TypeOK'
  BY <1>5, StepHasType
<1>6. ASSUME NEW k \in Keys, CacheEvicts(k)
      PROVE  TypeOK'
  BY <1>6 DEF CacheEvicts, TypeOK, window, control
<1>7. CASE CloseOldEpochs
  BY <1>7, KilledHasType DEF CloseOldEpochs, TypeOK
<1>8. CASE Close
  BY <1>8, KilledHasType DEF Close, TypeOK
<1>9. CASE UNCHANGED vars
  BY <1>9 DEF vars, TypeOK
<1> QED
  BY <1>1, <1>2, <1>3, <1>4, <1>5, <1>6, <1>7, <1>8, <1>9
     DEF Next, Notification

\* The state keeps its type and activePersisters is never empty, for every
\* constant: no interleaving of calls, epoch changes, evictions and disk errors
\* makes an index of changeEpoch, Put or isEpochActive go out of range.
THEOREM TypeCorrect == Spec => []TypeOK
<1> QED
  BY TypeOKInit, TypeOKNext, PTL DEF Spec

----------------------------------------------------------------------------
(* Open handles *)

\* No snapshot writes its marker through PutInEpochWithoutCache: always so for
\* FullHistoryPruningStorer, and for the trie storer of a node that takes none.
NoMarkerWrites == ~ IsTrie \/ "PutInEpochWithoutCache" \notin Ops

\* The inductive strengthening: an open DB is accounted for only because a
\* changed window contains the old one, which needs that no active epoch lies
\* after the notified one.
Handles ==
    /\ ActiveIsOpen
    /\ active \subseteq 0 .. cur
    /\ ~ DiskMayFail => OpenIsAccounted

LEMMA HandlesInit == Init => Handles
<1> SUFFICES ASSUME Init PROVE Handles
  OBVIOUS
<1>1. active \subseteq 0 .. StartingEpoch /\ open = active
  BY DEF Init, InitPersistersInEpoch
<1> QED
  BY <1>1 DEF Init, Handles, ActiveIsOpen, OpenIsAccounted

LEMMA ChangeEpochKeepsHandles ==
    ASSUME TypeOK, Handles, NEW e \in {cur, cur + 1}, e <= MaxEpoch,
           ChangeEpoch(e)
    PROVE  Handles'
<1>1. PICK o \in ChangeEpochOutcomes(Window, e, prepare, marked) :
         active' = o.w.active /\ open' = o.w.open
  BY DEF ChangeEpoch
<1>2. e \in 0 .. MaxEpoch + 1 /\ 0 .. cur \subseteq 0 .. e
  BY EpochFacts DEF TypeOK
<1>3. Preserved(Window, o.w, e, MaxEpoch + 1)
  BY <1>1, <1>2, ChangeEpochPreserves, WindowHasType, EpochFacts
<1>4. Window.active = active /\ Window.open = open
  BY DEF Window
<1>5. lru' = lru /\ phase' = phase /\ cur' = e /\ Running
  BY DEF ChangeEpoch
<1>6. active \subseteq 0 .. e
  BY <1>2 DEF Handles
<1>7. active' \subseteq open' /\ active' \subseteq 0 .. cur'
  BY <1>1, <1>3, <1>4, <1>5, <1>6 DEF Preserved, Handles, ActiveIsOpen
<1>8. ~ DiskMayFail => open' \subseteq active' \cup lru'
  BY <1>1, <1>3, <1>4, <1>5, <1>6 DEF Preserved, Handles, OpenIsAccounted
<1> QED
  BY <1>7, <1>8 DEF Handles, ActiveIsOpen, OpenIsAccounted

LEMMA GetOrOpenPersisterKeepsHandles ==
    ASSUME TypeOK, Handles, NEW p \in Procs, GetOrOpenPersister(p)
    PROVE  Handles'
<1>1. active' = active /\ cur' = cur /\ phase' = phase
  BY DEF GetOrOpenPersister, control
<1>2. CASE UNCHANGED <<lru, open>>
  BY <1>1, <1>2 DEF Handles, ActiveIsOpen, OpenIsAccounted, Running
<1>3. CASE \E evicted : PutInLRU(p, proc[p].at, evicted)
  <2>1. PICK evicted : /\ lru' = (lru \ evicted) \cup {proc[p].at}
                       /\ open' = (open \ ((evicted \ active) \cap open))
                                     \cup {proc[p].at}
    BY <1>3 DEF PutInLRU, OnEvicted
  <2> QED
    BY <1>1, <2>1 DEF Handles, ActiveIsOpen, OpenIsAccounted, Running
<1> QED
  BY <1>2, <1>3 DEF GetOrOpenPersister

LEMMA HandlesNext ==
    ASSUME NoMarkerWrites
    PROVE  TypeOK /\ Handles /\ [Next]_vars => Handles'
<1> SUFFICES ASSUME TypeOK, Handles, [Next]_vars PROVE Handles'
  OBVIOUS
<1>1. ASSUME UNCHANGED <<active, open, lru, cur, phase>>
      PROVE  Handles'
  BY <1>1 DEF Handles, ActiveIsOpen, OpenIsAccounted, Running
<1>2. ASSUME NEW keep, SaveHeaderForEpochStartPrepare(keep)
      PROVE  Handles'
  BY <1>1, <1>2 DEF SaveHeaderForEpochStartPrepare, window
<1>3. ASSUME NEW e \in {cur, cur + 1}, e <= MaxEpoch, ChangeEpoch(e)
      PROVE  Handles'
  BY <1>3, ChangeEpochKeepsHandles
<1>4. ASSUME NEW e, SetEpochForPutOperation(e)
      PROVE  Handles'
  BY <1>1, <1>4 DEF SetEpochForPutOperation, window
<1>5. ASSUME NEW p \in Procs, Request(p)
      PROVE  Handles'
  BY <1>1, <1>5 DEF Request, PutInEpochWithoutCache, Put, Get, Remove,
                    GetFromEpoch, GetBulkFromEpoch, PutInEpoch, window, control
<1>6. ASSUME NEW p \in Procs, Step(p)
      PROVE  Handles'
  <2>1. proc[p] \in Calls
    BY DEF TypeOK
  <2>2. ~ CreateAndInitPersisterIfClosed(p) /\ ~ ClosePersister(p)
    BY <2>1, NoMarkerWrites
       DEF CreateAndInitPersisterIfClosed, ClosePersister, Calls, NoMarkerWrites
  <2>3. CASE GetOrOpenPersister(p)
    BY <2>3, GetOrOpenPersisterKeepsHandles
  <2>4. CASE \/ SearchInEpoch(p) \/ SearchFirst(p)
             \/ GetPersisterData(p) \/ OpenFails(p)
             \/ Read(p) \/ GetPersisterToUse(p) \/ DoPutInPersister(p)
             \/ FillCache(p) \/ RemoveFromPersister(p) \/ Return(p)
    BY <1>1, <2>4 DEF SearchInEpoch, SearchFirst, GetPersisterData, OpenFails,
                      Read, GetPersisterToUse, DoPutInPersister, FillCache,
                      RemoveFromPersister, Return, window, control
  <2>5. CASE PutMarker(p)
    BY <1>1, <2>5 DEF PutMarker, window
  <2> QED
    BY <1>6, <2>2, <2>3, <2>4, <2>5 DEF Step
<1>7. ASSUME NEW k, CacheEvicts(k)
      PROVE  Handles'
  BY <1>1, <1>7 DEF CacheEvicts, window, control
<1>8. CASE CloseOldEpochs
  BY <1>8 DEF CloseOldEpochs, OnEvicted, Handles, ActiveIsOpen, OpenIsAccounted,
              Running
<1>9. CASE Close
  BY <1>9 DEF Close, Handles, ActiveIsOpen, OpenIsAccounted, Running
<1>10. CASE UNCHANGED vars
  BY <1>1, <1>10 DEF vars
<1> QED
  BY <1>2, <1>3, <1>4, <1>5, <1>6, <1>7, <1>8, <1>9, <1>10
     DEF Next, Notification

\* While the storer runs, no active epoch has a closed DB, whatever requests,
\* evictions, epoch changes and disk errors interleave, as long as no snapshot
\* marker is written past the cache: onEvicted spares active epochs,
\* closeAndDestroyPersisters closes only what it took out of activePersisters.
THEOREM ActiveStaysOpen ==
    ASSUME NoMarkerWrites
    PROVE  Spec => []ActiveIsOpen
<1>1. TypeOK /\ Handles /\ [Next]_vars => Handles'
  BY HandlesNext
<1>2. Handles => ActiveIsOpen
  BY DEF Handles
<1> QED
  BY <1>1, <1>2, TypeCorrect, HandlesInit, PTL DEF Spec

\* Unless the disk fails, every open DB is active or in the LRU cache: the storer
\* never holds more handles than its two configured limits add up to.
THEOREM HandlesAreAccounted ==
    ASSUME NoMarkerWrites, ~ DiskMayFail
    PROVE  Spec => []OpenIsAccounted
<1>1. TypeOK /\ Handles /\ [Next]_vars => Handles'
  BY HandlesNext
<1>2. Handles => OpenIsAccounted
  BY DEF Handles
<1> QED
  BY <1>1, <1>2, TypeCorrect, HandlesInit, PTL DEF Spec

----------------------------------------------------------------------------
(* The current epoch *)

\* NumOfEpochsToKeep reaches at least as far back as NumOfActivePersisters, so
\* what initPersistersInEpoch puts in the map covers the window.
LEMMA InitEndsWith ==
    ASSUME ~ IsTrie, Init
    PROVE  EndsWith(Window, cur)
<1> DEFINE N == NumOfActivePersisters
           K == NumOfEpochsToKeep
           S == StartingEpoch
<1>1. N \in Nat \ {0} /\ K \in Nat /\ K >= N /\ S \in Nat
  BY WindowAssumption, EpochFacts DEF WindowAssumption
<1>2. Max({0, S - K + 1}) = IF 0 >= S - K + 1 THEN 0 ELSE S - K + 1
  BY <1>1, MaxOfTwo
<1>3. Max({0, S - N + 1}) = IF 0 >= S - N + 1 THEN 0 ELSE S - N + 1
  BY <1>1, MaxOfTwo
<1>4. known = {e \in 0 .. S : ~ (e < Max({0, S - K + 1}))}
  BY DEF Init, InitPersistersInEpoch, HasInitializedEnoughPersisters,
         OldestEpochToKeepAtStart
<1>5. active = {e \in known : ~ (e < Max({0, S - N + 1}))}
  BY DEF Init, InitPersistersInEpoch, ShouldClosePersister,
         HasInitializedEnoughPersisters,
         OldestEpochToKeepAtStart, OldestEpochActiveAtStart
<1>6. Window.active = active /\ Window.known = known
  BY DEF Window
<1>7. cur = S
  BY DEF Init
<1> HIDE DEF N, K, S
<1>8. S \in active /\ active \subseteq 0 .. S
  BY <1>1, <1>2, <1>3, <1>4, <1>5
<1>9. ASSUME NEW x \in 0 .. S, x > S - N \/ \E a \in active : a <= x
      PROVE  x \in known
  BY <1>1, <1>2, <1>3, <1>4, <1>5, <1>9
<1> QED
  BY <1>6, <1>7, <1>8, <1>9 DEF EndsWith, N

\* Only an epoch change rewrites the window; a reader only adds to the map.
LEMMA NextEndsWith ==
    ASSUME KeepsEverything, TypeOK, EndsWith(Window, cur), [Next]_vars
    PROVE  EndsWith(Window, cur)'
<1>1. ASSUME active' = active, known \subseteq known', cur' = cur
      PROVE  EndsWith(Window, cur)'
  BY <1>1 DEF EndsWith, Window
<1>2. ASSUME NEW keep, SaveHeaderForEpochStartPrepare(keep)
      PROVE  EndsWith(Window, cur)'
  BY <1>1, <1>2 DEF SaveHeaderForEpochStartPrepare, window
<1>3. ASSUME NEW e \in {cur, cur + 1}, e <= MaxEpoch, ChangeEpoch(e)
      PROVE  EndsWith(Window, cur)'
  <2>1. PICK o \in ChangeEpochOutcomes(Window, e, prepare, marked) :
           active' = o.w.active /\ known' = o.w.known /\ open' = o.w.open
    BY <1>3 DEF ChangeEpoch
  <2>2. cur \in 0 .. MaxEpoch + 1 /\ e <= MaxEpoch + 1 /\ prepare \in Int
    BY <1>3, EpochFacts DEF TypeOK, NoPrepareHdr
  <2>3. EndsWith(o.w, e)
    BY <2>1, <2>2, ChangeEpochEndsWith, WindowHasType, EpochFacts
  <2>4. cur' = e
    BY <1>3 DEF ChangeEpoch
  <2> QED
    BY <2>1, <2>3, <2>4 DEF EndsWith, Window
<1>4. ASSUME NEW e, SetEpochForPutOperation(e)
      PROVE  EndsWith(Window, cur)'
  BY <1>1, <1>4 DEF SetEpochForPutOperation, window
<1>5. ASSUME NEW p \in Procs, Request(p)
      PROVE  EndsWith(Window, cur)'
  BY <1>1, <1>5 DEF Request, PutInEpochWithoutCache, Put, Get, Remove,
                    GetFromEpoch, GetBulkFromEpoch, PutInEpoch, window, control
<1>6. ASSUME NEW p \in Procs, Step(p)
      PROVE  EndsWith(Window, cur)'
  <2>1. CASE \/ SearchInEpoch(p) \/ SearchFirst(p)
             \/ GetPersisterData(p) \/ OpenFails(p)
             \/ Read(p) \/ GetPersisterToUse(p) \/ DoPutInPersister(p)
             \/ FillCache(p) \/ RemoveFromPersister(p) \/ Return(p)
    BY <1>1, <2>1 DEF SearchInEpoch, SearchFirst, GetPersisterData, OpenFails,
                      Read, GetPersisterToUse, DoPutInPersister, FillCache,
                      RemoveFromPersister, Return, window, control
  <2>2. CASE GetOrOpenPersister(p)
    BY <1>1, <2>2 DEF GetOrOpenPersister, control
  <2>3. CASE CreateAndInitPersisterIfClosed(p) \/ PutMarker(p) \/ ClosePersister(p)
    BY <1>1, <2>3 DEF CreateAndInitPersisterIfClosed, PutMarker, ClosePersister,
                      window, control
  <2> QED
    BY <1>6, <2>1, <2>2, <2>3 DEF Step
<1>7. ASSUME NEW k, CacheEvicts(k)
      PROVE  EndsWith(Window, cur)'
  BY <1>1, <1>7 DEF CacheEvicts, window, control
<1>8. CASE CloseOldEpochs \/ Close
  BY <1>1, <1>8 DEF CloseOldEpochs, Close
<1>9. CASE UNCHANGED vars
  BY <1>1, <1>9 DEF vars
<1> QED
  BY <1>2, <1>3, <1>4, <1>5, <1>6, <1>7, <1>8, <1>9 DEF Next, Notification

\* In a FullHistoryPruningStorer that keeps its whole history, the newest active
\* DB is always the one of the last notified epoch, although readers create DBs
\* of epochs that have not begun: changeEpochWithExisting never meets the hole
\* in persistersMapByEpoch that would make it give up silently.
THEOREM NewestStaysCurrent ==
    ASSUME KeepsEverything, ~ IsTrie
    PROVE  Spec => []NewestIsCurrent
<1>1. Init => EndsWith(Window, cur)
  BY InitEndsWith
<1>2. TypeOK /\ EndsWith(Window, cur) /\ [Next]_vars => EndsWith(Window, cur)'
  BY NextEndsWith
<1>3. TypeOK /\ EndsWith(Window, cur) => NewestIsCurrent
  <2> SUFFICES ASSUME TypeOK, EndsWith(Window, cur) PROVE NewestIsCurrent
    OBVIOUS
  <2>1. cur \in active /\ active \subseteq 0 .. cur
    BY DEF EndsWith, Window
  <2>2. Max(active) \in active /\ \A e \in active : e <= Max(active)
    BY NewestActive
  <2>3. Max(active) = cur
    <3>1. cur \in Int
      BY EpochFacts DEF TypeOK
    <3>2. Max(active) \in 0 .. cur /\ cur <= Max(active)
      BY <2>1, <2>2, Zenon
    <3> QED
      BY <3>1, <3>2
  <2> QED
    BY <2>3 DEF NewestIsCurrent
<1> QED
  BY <1>1, <1>2, <1>3, TypeCorrect, PTL DEF Spec

----------------------------------------------------------------------------
(* The cache *)

\* No call deletes a key.
NoRemove == "Remove" \notin Ops

Writers == {"Put", "PutInEpoch"}

\* What is known of a call c when the map has the epochs kn and the DBs hold d:
\* a write is before or at its DB, a marker is written to an epoch of the map,
\* and a key that is to enter the cache was found.
Fits(c, kn, d) ==
    /\ c.op \in Writers => c.pc \in {"fast", "slow", "choose", "io"}
    /\ c.pc = "borrow" => c.at \in kn
    /\ c.pc = "fill" => \E e \in Epochs : c.key \in d[e]
    /\ c.pc # "erase"

\* The inductive strengthening of CacheIsBacked: no DB is open that the map does
\* not know, so that getOrOpenPersister finds every one and no write is given up
\* with its key left in the cache.
Backed ==
    /\ active \subseteq known /\ open \subseteq known /\ lru \subseteq known
    /\ \A p \in Procs : Fits(proc[p], known, disk)
    /\ CacheIsBacked

\* The map knows the active and the open DBs of the window w.
MapKnows(w) == w.active \subseteq w.known /\ w.open \subseteq w.known

\* A storer that keeps everything only adds to the map, destroys nothing, and
\* knows every DB it opens.
LEMMA ChangeEpochKnows ==
    ASSUME KeepsEverything, NEW b \in Nat, NEW w, WindowType(w, b), MapKnows(w),
           NEW e \in 0 .. b, NEW keep, NEW marks,
           NEW o \in ChangeEpochOutcomes(w, e, keep, marks)
    PROVE  MapKnows(o.w) /\ w.known \subseteq o.w.known /\ o.destroyed = {}
<1>1. PICK r \in IF e \in w.known THEN ChangeEpochWithExisting(w, e)
                                 ELSE CreateForEpoch(w, e) :
         o \in IF r.err THEN {[w |-> r.w, closed |-> {}, destroyed |-> {}]}
               ELSE RemoveOldPersistersIfNeeded(r.w, e, keep, marks)
  BY DEF ChangeEpochOutcomes
<1>2. ASSUME NEW v, WindowType(v, b), NEW es, es \subseteq v.known, NEW q \in Reopen(v, es)
      PROVE  q.open = v.open \cup es /\ ~ q.err
  BY <1>2 DEF Reopen, KeepsEverything
<1>3. MapKnows(r.w) /\ w.known \subseteq r.w.known /\ WindowType(r.w, b)
  <2>1. CASE e \in w.known
    <3> DEFINE range == OldestEpochActive(w, e) .. e
    <3>1. r \in ChangeEpochWithExisting(w, e)
      BY <1>1, <2>1
    <3>2. WindowType(r.w, b)
      BY <3>1, ChangeEpochWithExistingPreserves DEF Preserved
    <3>3. CASE ~ (range \subseteq w.known)
      BY <3>1, <3>2, <3>3 DEF ChangeEpochWithExisting
    <3>4. CASE range \subseteq w.known
      <4>1. PICK q \in Reopen(w, range) :
              r = [err |-> q.err, w |-> [w EXCEPT !.open = q.open,
                                                  !.active = IF q.err THEN @ ELSE range]]
        BY <3>1, <3>4 DEF ChangeEpochWithExisting
      <4>2. q.open = w.open \cup range /\ ~ q.err
        BY <4>1, <3>4, <1>2
      <4> HIDE DEF range
      <4>3. r.w.open = w.open \cup range /\ r.w.active = range /\ r.w.known = w.known
        BY <4>1, <4>2 DEF WindowType
      <4> QED
        BY <4>3, <3>2, <3>4 DEF MapKnows
    <3> QED
      BY <3>3, <3>4
  <2>2. CASE e \notin w.known
    <3>1. r \in CreateForEpoch(w, e)
      BY <1>1, <2>2
    <3>2. WindowType(r.w, b)
      BY <3>1, CreateForEpochPreserves DEF Preserved
    <3>3. r.w = [active |-> w.active \cup {e}, known |-> w.known \cup {e},
                 open |-> w.open \cup {e}]
      BY <3>1 DEF CreateForEpoch, KeepsEverything
    <3> QED
      BY <3>2, <3>3 DEF MapKnows
  <2> QED
    BY <2>1, <2>2
<1>4. CASE r.err
  BY <1>1, <1>3, <1>4
<1>5. CASE ~ r.err
  <2>1. PICK x \in ExtendSavedEpochsIfNeeded(r.w, e, keep) :
           o \in IF x.extended THEN {[w |-> x.w, closed |-> {}, destroyed |-> {}]}
                 ELSE CloseAndDestroyPersisters(x.w, e, marks)
    BY <1>1, <1>5 DEF RemoveOldPersistersIfNeeded
  <2>2. MapKnows(x.w) /\ x.w.known = r.w.known /\ WindowType(x.w, b)
    <3> DEFINE range == keep .. Min(r.w.active)
    <3>1. WindowType(x.w, b)
      BY <1>3, <2>1, ExtendPreserves DEF Preserved
    <3>2. CASE x = [extended |-> FALSE, w |-> r.w]
      BY <1>3, <3>2
    <3>3. CASE x # [extended |-> FALSE, w |-> r.w]
      <4>1. PICK y \in ExtendActivePersisters(r.w, keep, Min(r.w.active)) :
              x = [extended |-> ~ y.err, w |-> y.w]
        BY <2>1, <3>3 DEF ExtendSavedEpochsIfNeeded
      <4>2. CASE ~ (range \subseteq r.w.known)
        BY <4>1, <4>2, <1>3 DEF ExtendActivePersisters
      <4>3. CASE range \subseteq r.w.known
        <5>1. PICK q \in Reopen(r.w, range) :
                y = [err |-> q.err,
                     w |-> [r.w EXCEPT !.open = q.open,
                                       !.active = IF q.err THEN @
                                                  ELSE @ \cup (range \ r.w.open)]]
          BY <4>1, <4>3 DEF ExtendActivePersisters
        <5>2. q.open = r.w.open \cup range /\ ~ q.err
          BY <5>1, <4>3, <1>2, <1>3
        <5> HIDE DEF range
        <5>3. /\ y.w.open = r.w.open \cup range /\ y.w.known = r.w.known
              /\ y.w.active = r.w.active \cup (range \ r.w.open)
          BY <5>1, <5>2, <1>3 DEF WindowType
        <5> QED
          BY <5>3, <4>1, <4>3, <1>3, <3>1 DEF MapKnows
      <4> QED
        BY <4>2, <4>3, <3>1
    <3> QED
      BY <3>2, <3>3
  <2>3. CASE x.extended
    BY <1>3, <2>1, <2>2, <2>3
  <2>4. CASE ~ x.extended
    <3>1. o \in CloseAndDestroyPersisters(x.w, e, marks)
      BY <2>1, <2>4
    <3>2. \A z : ~ ShouldRemove(z)
      BY DEF ShouldRemove, KeepsEverything
    <3>3. /\ o.w.active \subseteq x.w.active
          /\ o.w.known = x.w.known \cup (x.w.active \ o.w.active)
          /\ o.w.open \subseteq x.w.open
          /\ o.destroyed = {}
      <4> DEFINE kept == PersistersToKeep(x.w, LastEpochNeeded(x.w, marks))
                 toClose == x.w.active \ kept
      <4>1. PICK done :
              /\ o.w.active = kept
              /\ o.w.known = (x.w.known \cup toClose)
                                \ (IF ShouldClean THEN done
                                    ELSE {z \in done : ShouldRemove(z)})
              /\ o.w.open = x.w.open \ toClose
              /\ o.destroyed = {z \in done : ShouldRemove(z)}
        BY <3>1 DEF CloseAndDestroyPersisters
      <4>2. {z \in done : ShouldRemove(z)} = {} /\ ~ ShouldClean
        BY <3>2, Zenon DEF KeepsEverything
      <4>3. kept \subseteq x.w.active
        BY DEF PersistersToKeep
      <4> HIDE DEF kept
      <4> QED
        BY <4>1, <4>2, <4>3
    <3> QED
      BY <3>3, <1>3, <2>2 DEF MapKnows
  <2> QED
    BY <2>3, <2>4
<1> QED
  BY <1>4, <1>5
\* What is known of a call stays known when the map and the DBs only grow, and
\* when its handle is closed.
LEMMA FitsMonotone ==
    ASSUME NEW c, NEW kn, NEW kn2, NEW d, NEW d2, kn \subseteq kn2,
           \A e \in Epochs : d[e] \subseteq d2[e], Fits(c, kn, d)
    PROVE  Fits(c, kn2, d2)
BY DEF Fits

LEMMA KilledFits ==
    ASSUME TypeOK, NEW es, NEW q \in Procs
    PROVE  /\ Killed(es)[q].pc = proc[q].pc /\ Killed(es)[q].op = proc[q].op
           /\ Killed(es)[q].key = proc[q].key /\ Killed(es)[q].at = proc[q].at
<1>1. proc[q] \in Calls
  BY DEF TypeOK
<1> QED
  BY <1>1 DEF Killed, Calls

\* The call c writes the key k.
Writes(c, k) == c.pc # "idle" /\ c.op \in Writers /\ c.key = k

\* A step in which the map and the DBs only grow, every write in flight stays in
\* flight and a key enters the cache only if it is stored or being written.
LEMMA GrowingKeepsBacked ==
    ASSUME Backed,
           known \subseteq known', \A e \in Epochs : disk[e] \subseteq disk'[e],
           active' \subseteq known', open' \subseteq known', lru' \subseteq known',
           \A q \in Procs : Fits(proc'[q], known', disk'),
           \A q \in Procs, k \in cache : Writes(proc[q], k) => Writes(proc'[q], k),
           \A k \in cache' : \/ k \in cache
                             \/ \E e \in Epochs : k \in disk'[e]
                             \/ \E q \in Procs : Writes(proc'[q], k)
    PROVE  Backed'
<1> SUFFICES ASSUME NEW k \in cache'
             PROVE  \/ \E e \in Epochs : k \in disk'[e]
                    \/ \E q \in Procs : Writes(proc'[q], k)
  BY DEF Backed, CacheIsBacked, Writes, Writers
<1>1. CASE k \in cache
  <2>1. \/ \E e \in Epochs : k \in disk[e]
        \/ \E q \in Procs : Writes(proc[q], k)
    BY <1>1 DEF Backed, CacheIsBacked, Writes, Writers
  <2> QED
    BY <1>1, <2>1
<1> QED
  BY <1>1

\* The same for a step of one call that leaves the map and the DBs alone.
LEMMA CallKeepsBacked ==
    ASSUME TypeOK, Backed, NEW p \in Procs, NEW c,
           proc' = [proc EXCEPT ![p] = c], Fits(c, known, disk),
           \A k \in cache : Writes(proc[p], k) => Writes(c, k),
           UNCHANGED <<active, known, open, lru, disk>>,
           \A k \in cache' : k \in cache \/ Writes(c, k)
    PROVE  Backed'
<1>1. proc'[p] = c /\ \A q \in Procs : q # p => proc'[q] = proc[q]
  BY DEF TypeOK
<1>2. \A q \in Procs : Fits(proc'[q], known', disk')
  BY <1>1 DEF Backed
<1>3. \A q \in Procs, k \in cache : Writes(proc[q], k) => Writes(proc'[q], k)
  BY <1>1
<1>4. active' \subseteq known' /\ open' \subseteq known' /\ lru' \subseteq known'
  BY DEF Backed
<1>5. known \subseteq known' /\ \A e \in Epochs : disk[e] \subseteq disk'[e]
  OBVIOUS
<1> QED
  BY <1>1, <1>2, <1>3, <1>4, <1>5, GrowingKeepsBacked

LEMMA BackedInit == NoRemove /\ Init => Backed
<1> SUFFICES ASSUME Init PROVE Backed
  OBVIOUS
<1>1. active \subseteq known /\ open = active /\ lru = {} /\ cache = {}
  BY DEF Init, InitPersistersInEpoch
<1>2. \A p \in Procs : Fits(proc[p], known, disk)
  BY DEF Init, Idle, Fits, Writers
<1> QED
  BY <1>1, <1>2 DEF Backed, CacheIsBacked

LEMMA ChangeEpochKeepsBacked ==
    ASSUME KeepsEverything, TypeOK, Backed, NEW e \in 0 .. MaxEpoch, ChangeEpoch(e)
    PROVE  Backed'
<1>1. PICK o \in ChangeEpochOutcomes(Window, e, prepare, marked) :
         /\ active' = o.w.active
         /\ known' = o.w.known
         /\ open' = o.w.open
         /\ disk' = [f \in Epochs |-> IF f \in o.destroyed THEN {} ELSE disk[f]]
         /\ proc' = Killed(o.closed)
  BY DEF ChangeEpoch
<1>2. MapKnows(Window)
  BY DEF Backed, MapKnows, Window
<1>3. MapKnows(o.w) /\ Window.known \subseteq o.w.known /\ o.destroyed = {}
  BY <1>2, ChangeEpochKnows, WindowHasType, EpochFacts
<1>4. /\ active' \subseteq known' /\ open' \subseteq known' /\ known \subseteq known'
      /\ \A f \in Epochs : disk[f] \subseteq disk'[f]
  BY <1>1, <1>3 DEF MapKnows, Window
<1>5. lru' = lru /\ cache' = cache
  BY DEF ChangeEpoch
<1>6. \A q \in Procs : Fits(proc'[q], known', disk')
  <2> SUFFICES ASSUME NEW q \in Procs PROVE Fits(proc'[q], known', disk')
    OBVIOUS
  <2>1. Fits(proc[q], known', disk')
    BY <1>4, FitsMonotone DEF Backed
  <2> QED
    BY <1>1, <2>1, KilledFits DEF Fits
<1>7. \A q \in Procs, k \in cache : Writes(proc[q], k) => Writes(proc'[q], k)
  BY <1>1, KilledFits DEF Writes
<1>8. lru' \subseteq known'
  BY <1>4, <1>5 DEF Backed
<1> QED
  BY <1>4, <1>5, <1>6, <1>7, <1>8, GrowingKeepsBacked

LEMMA GetOrOpenPersisterKeepsBacked ==
    ASSUME TypeOK, Backed, NEW p \in Procs, GetOrOpenPersister(p)
    PROVE  Backed'
<1> DEFINE c == [proc[p] EXCEPT !.pc = "io", !.live = TRUE]
<1>1. proc[p] \in Calls /\ proc[p].at \in Epochs /\ proc[p].pc = "slow"
  BY DEF TypeOK, Calls, GetOrOpenPersister
<1>2. active' = active /\ disk' = disk /\ cache' = cache
  BY DEF GetOrOpenPersister
<1>3. known \subseteq known' /\ proc[p].at \in known'
  BY DEF GetOrOpenPersister, Backed
<1>4. c.pc = "io" /\ c.op = proc[p].op /\ c.key = proc[p].key
  BY <1>1 DEF Calls
<1>5. Fits(c, known', disk')
  BY <1>4 DEF Fits
<1>6. /\ lru' \subseteq lru \cup {proc[p].at} /\ open' \subseteq open \cup {proc[p].at}
      /\ proc'[p] = c
      /\ \A q \in Procs : q # p => /\ proc'[q].pc = proc[q].pc /\ proc'[q].op = proc[q].op
                                   /\ proc'[q].key = proc[q].key /\ proc'[q].at = proc[q].at
  <2>1. CASE UNCHANGED <<lru, open>> /\ proc' = [proc EXCEPT ![p].pc = "io", ![p].live = TRUE]
    BY <2>1 DEF TypeOK
  <2>2. CASE \E evicted : PutInLRU(p, proc[p].at, evicted)
    <3>1. PICK evicted : PutInLRU(p, proc[p].at, evicted)
      BY <2>2
    <3>2. Killed(OnEvicted(evicted)) \in [Procs -> Calls]
      BY KilledHasType
    <3>3. proc' = [Killed(OnEvicted(evicted)) EXCEPT ![p] = c]
      BY <3>1 DEF PutInLRU
    <3>4. proc'[p] = c /\ \A q \in Procs : q # p => proc'[q] = Killed(OnEvicted(evicted))[q]
      BY <3>2, <3>3
    <3>5. lru' \subseteq lru \cup {proc[p].at} /\ open' \subseteq open \cup {proc[p].at}
      BY <3>1 DEF PutInLRU
    <3> QED
      BY <3>4, <3>5, KilledFits
  <2> QED
    BY <2>1, <2>2 DEF GetOrOpenPersister
<1> HIDE DEF c
<1>7. \A q \in Procs : Fits(proc'[q], known', disk')
  <2> SUFFICES ASSUME NEW q \in Procs PROVE Fits(proc'[q], known', disk')
    OBVIOUS
  <2>1. CASE q = p
    BY <2>1, <1>5, <1>6
  <2>2. CASE q # p
    <3>1. Fits(proc[q], known', disk')
      BY <1>2, <1>3, FitsMonotone DEF Backed
    <3> QED
      BY <2>2, <3>1, <1>6 DEF Fits
  <2> QED
    BY <2>1, <2>2
<1>8. \A q \in Procs, k \in cache : Writes(proc[q], k) => Writes(proc'[q], k)
  BY <1>4, <1>6 DEF Writes
<1>9. active' \subseteq known' /\ open' \subseteq known' /\ lru' \subseteq known'
  BY <1>2, <1>3, <1>6 DEF Backed
<1> QED
  BY <1>2, <1>3, <1>7, <1>8, <1>9, GrowingKeepsBacked
\* A call that is over, or that looked for a key in vain, fits any state.
LEMMA OverFits ==
    ASSUME TypeOK, Backed, NEW p \in Procs, proc[p].op \notin Writers
    PROVE  /\ Finish(p) /\ UNCHANGED <<active, known, open, lru, disk, cache>> => Backed'
           /\ NotFound(p) /\ UNCHANGED <<active, known, open, lru, disk, cache>> => Backed'
<1>1. proc[p] \in Calls
  BY DEF TypeOK
<1>2. ASSUME Finish(p), UNCHANGED <<active, known, open, lru, disk, cache>>
      PROVE  Backed'
  <2>1. proc' = [proc EXCEPT ![p] = Idle]
    BY <1>2 DEF Finish
  <2>2. Fits(Idle, known, disk)
    BY DEF Idle, Fits, Writers
  <2>3. \A k \in cache : Writes(proc[p], k) => Writes(Idle, k)
    BY DEF Writes
  <2> QED
    BY <1>2, <2>1, <2>2, <2>3, CallKeepsBacked
<1>3. ASSUME NotFound(p), UNCHANGED <<active, known, open, lru, disk, cache>>
      PROVE  Backed'
  <2> DEFINE c == IF proc[p].op = "GetFromEpoch" /\ proc[p].at = proc[p].epoch
                  THEN [proc[p] EXCEPT !.pc = "check", !.at = @ + 1, !.live = FALSE]
                  ELSE [proc[p] EXCEPT !.pc = "missed", !.live = FALSE]
  <2>1. proc' = [proc EXCEPT ![p] = c]
    BY <1>3 DEF NotFound
  <2>2. c.pc \in {"check", "missed"} /\ c.op = proc[p].op
    BY <1>1 DEF Calls
  <2> HIDE DEF c
  <2>3. Fits(c, known, disk)
    BY <2>2 DEF Fits
  <2>4. \A k \in cache : Writes(proc[p], k) => Writes(c, k)
    BY DEF Writes
  <2> QED
    BY <1>3, <2>1, <2>3, <2>4, CallKeepsBacked
<1> QED
  BY <1>2, <1>3

\* The steps of a search, and those that only choose a DB.
LEMMA SearchKeepsBacked ==
    ASSUME TypeOK, Backed, NEW p \in Procs,
           \/ SearchInEpoch(p) \/ SearchFirst(p) \/ GetPersisterData(p)
           \/ Read(p) \/ GetPersisterToUse(p) \/ PutMarker(p) \/ Return(p)
    PROVE  Backed'
<1>1. proc[p] \in Calls /\ Fits(proc[p], known, disk)
  BY DEF TypeOK, Backed
<1>2. UNCHANGED <<active, known, open, lru, disk, cache>>
  BY DEF SearchInEpoch, SearchFirst, GetPersisterData, Read, GetPersisterToUse,
         PutMarker, Return, window, control
<1>3. ASSUME NEW c, proc' = [proc EXCEPT ![p] = c], c.op = proc[p].op,
             c.key = proc[p].key, c.pc \in {"search", "fast", "slow", "io", "release"},
             c.op \in Writers => c.pc \in {"fast", "slow", "io"}
      PROVE  Backed'
  <2>1. Fits(c, known, disk)
    BY <1>3 DEF Fits
  <2>2. \A k \in cache : Writes(proc[p], k) => Writes(c, k)
    BY <1>3 DEF Writes
  <2> QED
    BY <1>2, <1>3, <2>1, <2>2, CallKeepsBacked
<1>4. CASE SearchInEpoch(p)
  <2> DEFINE c == [proc[p] EXCEPT !.pc = IF IsEpochActive(proc[p].at) THEN "search"
                                         ELSE "fast"]
  <2>1. proc' = [proc EXCEPT ![p] = c] /\ proc[p].pc = "check"
    BY <1>4 DEF SearchInEpoch, TypeOK
  <2>2. c.op = proc[p].op /\ c.key = proc[p].key /\ c.pc \in {"search", "fast"}
    BY <1>1 DEF Calls
  <2>3. c.op \notin Writers
    BY <1>1, <2>1, <2>2 DEF Fits
  <2> HIDE DEF c
  <2> QED
    BY <1>3, <2>1, <2>2, <2>3
<1>5. CASE SearchFirst(p) \/ Read(p) \/ Return(p)
  <2>1. proc[p].op \notin Writers
    BY <1>1, <1>5 DEF SearchFirst, Read, Return, Fits, Writers
  <2>2. Finish(p) \/ NotFound(p)
    BY <1>5 DEF SearchFirst, Read, Return
  <2> QED
    BY <1>2, <2>1, <2>2, OverFits
<1>6. CASE GetPersisterData(p)
  <2> DEFINE c == IF proc[p].at \in (lru \cup known) \cap open
                  THEN [proc[p] EXCEPT !.pc = "io", !.live = TRUE]
                  ELSE [proc[p] EXCEPT !.pc = "slow"]
  <2>1. proc' = [proc EXCEPT ![p] = c]
    BY <1>6 DEF GetPersisterData
  <2>2. c.op = proc[p].op /\ c.key = proc[p].key /\ c.pc \in {"io", "slow"}
    BY <1>1 DEF Calls
  <2> HIDE DEF c
  <2> QED
    BY <1>3, <2>1, <2>2
<1>7. CASE GetPersisterToUse(p)
  <2> DEFINE c == [proc[p] EXCEPT !.pc = "io", !.at = PersisterToUse,
                                  !.live = PersisterToUse \in open]
  <2>1. proc' = [proc EXCEPT ![p] = c]
    BY <1>7 DEF GetPersisterToUse, TypeOK
  <2>2. c.op = proc[p].op /\ c.key = proc[p].key /\ c.pc = "io"
    BY <1>1 DEF Calls
  <2> HIDE DEF c
  <2> QED
    BY <1>3, <2>1, <2>2
<1>8. CASE PutMarker(p)
  <2>1. proc[p].op \notin Writers
    BY <1>8 DEF PutMarker, Writers
  <2>2. CASE Finish(p)
    BY <1>2, <2>1, <2>2, OverFits
  <2>3. CASE proc' = [proc EXCEPT ![p].pc = "release"]
    <3> DEFINE c == [proc[p] EXCEPT !.pc = "release"]
    <3>1. proc' = [proc EXCEPT ![p] = c]
      BY <2>3 DEF TypeOK
    <3>2. c.op = proc[p].op /\ c.key = proc[p].key /\ c.pc = "release"
      BY <1>1 DEF Calls
    <3> HIDE DEF c
    <3> QED
      BY <1>3, <2>1, <3>1, <3>2
  <2> QED
    BY <1>8, <2>2, <2>3 DEF PutMarker
<1> QED
  BY <1>4, <1>5, <1>6, <1>7, <1>8
\* Every DB that is open is in the map and Create does not fail: getOrOpenPersister
\* gives no write up.
LEMMA NoOpenFails ==
    ASSUME KeepsEverything, Backed, NEW p
    PROVE  ~ OpenFails(p)
BY DEF KeepsEverything, Backed, OpenFails

\* Closing DBs disturbs no call but for its handle; a borrowed one ends.
LEMMA ClosingKeepsBacked ==
    ASSUME TypeOK, Backed, \/ \E p \in Procs : ClosePersister(p)
                           \/ CloseOldEpochs \/ Close
    PROVE  Backed'
<1>1. /\ active' = active /\ known' = known /\ disk' = disk
      /\ open' \subseteq open /\ lru' \subseteq lru /\ cache' \subseteq cache
  BY DEF ClosePersister, CloseOldEpochs, Close
<1>2. ASSUME NEW q \in Procs
      PROVE  /\ Fits(proc'[q], known', disk')
             /\ \A k \in cache : Writes(proc[q], k) => Writes(proc'[q], k)
  <2>1. Fits(proc[q], known, disk)
    BY DEF Backed
  <2>2. ASSUME NEW es, proc'[q] = Killed(es)[q]
        PROVE  /\ Fits(proc'[q], known', disk')
               /\ \A k \in cache : Writes(proc[q], k) => Writes(proc'[q], k)
    BY <1>1, <2>1, <2>2, KilledFits DEF Fits, Writes
  <2>3. CASE CloseOldEpochs \/ Close
    BY <2>2, <2>3 DEF CloseOldEpochs, Close
  <2>4. CASE \E p \in Procs : ClosePersister(p)
    <3>1. PICK p \in Procs : ClosePersister(p)
      BY <2>4
    <3>2. Killed({proc[p].at}) \in [Procs -> Calls]
      BY KilledHasType
    <3>3. CASE q # p
      BY <2>2, <3>1, <3>2, <3>3 DEF ClosePersister
    <3>4. CASE q = p
      <4>1. proc'[q] = Idle
        BY <3>1, <3>2, <3>4 DEF ClosePersister
      <4>2. Fits(Idle, known', disk')
        BY DEF Idle, Fits, Writers
      <4>3. \A k \in cache : ~ Writes(proc[q], k)
        BY <2>1, <3>1, <3>4 DEF ClosePersister, Fits, Writes
      <4> QED
        BY <4>1, <4>2, <4>3
    <3> QED
      BY <3>3, <3>4
  <2> QED
    BY <2>3, <2>4
<1>3. active' \subseteq known' /\ open' \subseteq known' /\ lru' \subseteq known'
  BY <1>1 DEF Backed
<1> QED
  BY <1>1, <1>2, <1>3, GrowingKeepsBacked

\* The marker's DB is one of the map.
LEMMA BorrowKeepsBacked ==
    ASSUME KeepsEverything, TypeOK, Backed, NEW p \in Procs,
           CreateAndInitPersisterIfClosed(p)
    PROVE  Backed'
<1> DEFINE c == [proc[p] EXCEPT !.pc = "io", !.live = TRUE,
                                !.own = proc[p].at \notin open]
<1>1. /\ proc[p] \in Calls /\ proc[p].pc = "borrow"
      /\ Fits(proc[p], known, disk)
  BY DEF TypeOK, Backed, CreateAndInitPersisterIfClosed
<1>2. /\ open' = open \cup {proc[p].at}
      /\ proc' = [proc EXCEPT ![p] = c]
      /\ UNCHANGED <<active, known, lru, disk, cache>>
  BY DEF CreateAndInitPersisterIfClosed, KeepsEverything, TypeOK
<1>3. c.pc = "io" /\ c.op = proc[p].op /\ c.op \notin Writers
  BY <1>1 DEF Calls, Writers
<1>4. proc'[p] = c /\ \A q \in Procs : q # p => proc'[q] = proc[q]
  BY <1>2 DEF TypeOK
<1> HIDE DEF c
<1>5. Fits(c, known, disk) /\ \A k : ~ Writes(proc[p], k)
  BY <1>3 DEF Fits, Writes
<1>6. proc[p].at \in known
  BY <1>1 DEF Fits
<1>7. active' \subseteq known' /\ open' \subseteq known' /\ lru' \subseteq known'
  BY <1>2, <1>6 DEF Backed
<1>8. \A q \in Procs : Fits(proc'[q], known', disk')
  BY <1>2, <1>4, <1>5 DEF Backed
<1>9. \A q \in Procs, k \in cache : Writes(proc[q], k) => Writes(proc'[q], k)
  BY <1>4, <1>5
<1> QED
  BY <1>2, <1>7, <1>8, <1>9, GrowingKeepsBacked

\* A write leaves its key on disk, or takes it out of the cache.
LEMMA DoPutKeepsBacked ==
    ASSUME TypeOK, Backed, NEW p \in Procs, DoPutInPersister(p)
    PROVE  Backed'
<1>1. proc[p] \in Calls /\ proc[p].at \in Epochs
  BY DEF TypeOK, Calls
<1>2. /\ proc'[p] = Idle /\ \A q \in Procs : q # p => proc'[q] = proc[q]
      /\ UNCHANGED <<active, known, open, lru>>
  BY DEF DoPutInPersister, Finish, TypeOK, window
<1>3. /\ \A e \in Epochs : disk[e] \subseteq disk'[e]
      /\ cache' \subseteq cache
      /\ proc[p].key \in cache' => proc[p].key \in disk'[proc[p].at]
  <2>1. CASE proc[p].live
    <3>1. disk' = [disk EXCEPT ![proc[p].at] = disk[proc[p].at] \cup {proc[p].key}]
          /\ cache' = cache
      BY <2>1 DEF DoPutInPersister
    <3> QED
      BY <1>1, <3>1 DEF TypeOK
  <2>2. CASE ~ proc[p].live
    BY <2>2 DEF DoPutInPersister
  <2> QED
    BY <2>1, <2>2
<1>4. \A q \in Procs : Fits(proc'[q], known', disk')
  <2>1. Fits(Idle, known', disk')
    BY DEF Idle, Fits, Writers
  <2>2. \A q \in Procs : Fits(proc[q], known', disk')
    BY <1>2, <1>3, FitsMonotone DEF Backed
  <2> QED
    BY <1>2, <2>1, <2>2
<1>5. ASSUME NEW k \in cache'
      PROVE  \/ \E e \in Epochs : k \in disk'[e]
             \/ \E q \in Procs : Writes(proc'[q], k)
  <2>1. CASE k = proc[p].key
    BY <1>1, <1>3, <1>5, <2>1
  <2>2. CASE k # proc[p].key
    <3>1. \/ \E e \in Epochs : k \in disk[e]
          \/ \E q \in Procs : Writes(proc[q], k)
      BY <1>3, <1>5 DEF Backed, CacheIsBacked, Writes, Writers
    <3>2. CASE \E e \in Epochs : k \in disk[e]
      BY <1>3, <3>2
    <3>3. CASE \E q \in Procs : Writes(proc[q], k)
      <4>1. PICK q \in Procs : Writes(proc[q], k)
        BY <3>3
      <4>2. q # p
        BY <2>2, <4>1 DEF Writes
      <4> QED
        BY <1>2, <4>1, <4>2
    <3> QED
      BY <3>1, <3>2, <3>3
  <2> QED
    BY <2>1, <2>2
<1>6. active' \subseteq known' /\ open' \subseteq known' /\ lru' \subseteq known'
  BY <1>2 DEF Backed
<1> QED
  BY <1>4, <1>5, <1>6 DEF Backed, CacheIsBacked, Writes, Writers

\* Get puts in the cache what it found on disk.
LEMMA FillKeepsBacked ==
    ASSUME TypeOK, Backed, NEW p \in Procs, FillCache(p)
    PROVE  Backed'
<1>1. Fits(proc[p], known, disk) /\ proc[p].pc = "fill"
  BY DEF Backed, FillCache
<1>2. /\ proc'[p] = Idle /\ \A q \in Procs : q # p => proc'[q] = proc[q]
      /\ UNCHANGED <<active, known, open, lru, disk>>
      /\ cache' = cache \cup {proc[p].key}
  BY DEF FillCache, Finish, TypeOK, window
<1>3. \E e \in Epochs : proc[p].key \in disk'[e]
  BY <1>1, <1>2 DEF Fits
<1>4. \A k : ~ Writes(proc[p], k)
  BY <1>1 DEF Fits, Writes
<1>5. Fits(Idle, known', disk')
  BY DEF Idle, Fits, Writers
<1>6. \A q \in Procs : Fits(proc'[q], known', disk')
  BY <1>2, <1>5 DEF Backed
<1>7. \A q \in Procs, k \in cache : Writes(proc[q], k) => Writes(proc'[q], k)
  BY <1>2, <1>4
<1>8. active' \subseteq known' /\ open' \subseteq known' /\ lru' \subseteq known'
  BY <1>2 DEF Backed
<1> QED
  BY <1>2, <1>3, <1>6, <1>7, <1>8, GrowingKeepsBacked

\* A new call: a write has its key in the cache from the start.
LEMMA RequestKeepsBacked ==
    ASSUME NoRemove, TypeOK, Backed, NEW p \in Procs, Request(p)
    PROVE  Backed'
<1>1. ASSUME NEW op, NEW k, NEW e, NEW pc, Start(p, op, k, e, pc),
             op \in Writers => pc \in {"fast", "choose"},
             pc = "borrow" => e \in known,
             pc = "fill" => \E f \in Epochs : k \in disk[f],
             pc \notin {"erase", "idle"},
             UNCHANGED <<active, known, open, lru, disk>>,
             \A x \in cache' : x \in cache \/ (op \in Writers /\ x = k)
      PROVE  Backed'
  <2> DEFINE c == [Call(op, k, e) EXCEPT
                       !.pc = pc,
                       !.stored = op = "GetFromEpoch" /\ k \in disk[e]]
  <2>1. proc' = [proc EXCEPT ![p] = c] /\ proc[p].pc = "idle"
    BY <1>1 DEF Start
  <2>2. c.pc = pc /\ c.op = op /\ c.key = k /\ c.at = e
    BY DEF Call, Idle
  <2> HIDE DEF c
  <2>3. Fits(c, known, disk)
    BY <1>1, <2>2 DEF Fits
  <2>4. \A x \in cache : Writes(proc[p], x) => Writes(c, x)
    BY <2>1 DEF Writes
  <2>5. \A x \in cache' : x \in cache \/ Writes(c, x)
    BY <1>1, <2>2 DEF Writes
  <2> QED
    BY <1>1, <2>1, <2>3, <2>4, <2>5, CallKeepsBacked
<1>2. ASSUME NEW e, PutInEpochWithoutCache(p, e)
      PROVE  Backed'
  <2>1. /\ Start(p, "PutInEpochWithoutCache", "none", e, "borrow") /\ e \in known
        /\ UNCHANGED <<active, known, open, lru, disk, cache>>
    BY <1>2 DEF PutInEpochWithoutCache, window
  <2>2. "PutInEpochWithoutCache" \notin Writers
    BY DEF Writers
  <2> QED
    BY <1>1, <2>1, <2>2
<1>3. ASSUME NEW k \in Keys, Put(p, k)
      PROVE  Backed'
  <2>1. /\ Start(p, "Put", k, 0, "choose") /\ cache' = cache \cup {k}
        /\ UNCHANGED <<active, known, open, lru, disk>>
    BY <1>3 DEF Put, window
  <2>2. "Put" \in Writers
    BY DEF Writers
  <2> QED
    BY <1>1, <2>1, <2>2
<1>4. ASSUME NEW k \in Keys, Get(p, k)
      PROVE  Backed'
  <2>1. /\ Start(p, "Get", k, 0, "fill") /\ InActivePersisters(k)
        /\ UNCHANGED <<active, known, open, lru, disk, cache>>
    BY <1>4 DEF Get, window
  <2>2. "Get" \notin Writers
    BY DEF Writers
  <2>3. \E f \in Epochs : k \in disk[f]
    BY <2>1 DEF InActivePersisters, TypeOK
  <2> QED
    BY <1>1, <2>1, <2>2, <2>3
<1>5. ASSUME NEW k \in Keys, Remove(p, k)
      PROVE  Backed'
  BY <1>5 DEF Remove, Start, NoRemove
<1>6. ASSUME NEW k \in Keys, NEW e, GetFromEpoch(p, k, e)
      PROVE  Backed'
  <2>1. /\ Start(p, "GetFromEpoch", k, e, "check")
        /\ UNCHANGED <<active, known, open, lru, disk, cache>>
    BY <1>6 DEF GetFromEpoch, window
  <2>2. "GetFromEpoch" \notin Writers
    BY DEF Writers
  <2> QED
    BY <1>1, <2>1, <2>2
<1>7. ASSUME NEW k \in Keys, NEW e, GetBulkFromEpoch(p, k, e)
      PROVE  Backed'
  <2>1. /\ Start(p, "GetBulkFromEpoch", k, e, "fast")
        /\ UNCHANGED <<active, known, open, lru, disk, cache>>
    BY <1>7 DEF GetBulkFromEpoch, window
  <2>2. "GetBulkFromEpoch" \notin Writers
    BY DEF Writers
  <2> QED
    BY <1>1, <2>1, <2>2
<1>8. ASSUME NEW k \in Keys, NEW e, PutInEpoch(p, k, e)
      PROVE  Backed'
  <2>1. /\ Start(p, "PutInEpoch", k, e, "fast") /\ cache' = cache \cup {k}
        /\ UNCHANGED <<active, known, open, lru, disk>>
    BY <1>8 DEF PutInEpoch, window
  <2>2. "PutInEpoch" \in Writers
    BY DEF Writers
  <2> QED
    BY <1>1, <2>1, <2>2
<1> QED
  BY <1>2, <1>3, <1>4, <1>5, <1>6, <1>7, <1>8 DEF Request

LEMMA BackedNext ==
    ASSUME KeepsEverything, NoRemove, TypeOK, Backed, [Next]_vars
    PROVE  Backed'
<1>1. ASSUME UNCHANGED <<active, known, open, lru, disk, proc>>, cache' \subseteq cache
      PROVE  Backed'
  BY <1>1 DEF Backed, CacheIsBacked
<1>2. CASE Notification
  <2>1. ASSUME NEW keep, SaveHeaderForEpochStartPrepare(keep) PROVE Backed'
    BY <1>1, <2>1 DEF SaveHeaderForEpochStartPrepare, window
  <2>2. ASSUME NEW e, SetEpochForPutOperation(e) PROVE Backed'
    BY <1>1, <2>2 DEF SetEpochForPutOperation, window
  <2>3. ASSUME NEW e \in {cur, cur + 1}, e <= MaxEpoch, ChangeEpoch(e) PROVE Backed'
    <3>1. e \in 0 .. MaxEpoch
      BY <2>3, EpochFacts DEF TypeOK
    <3> QED
      BY <2>3, <3>1, ChangeEpochKeepsBacked
  <2> QED
    BY <1>2, <2>1, <2>2, <2>3 DEF Notification
<1>3. ASSUME NEW p \in Procs, Step(p) PROVE Backed'
  <2>1. ~ RemoveFromPersister(p)
    BY DEF Backed, Fits, RemoveFromPersister
  <2> QED
    BY <1>3, <2>1, NoOpenFails, SearchKeepsBacked, GetOrOpenPersisterKeepsBacked,
       DoPutKeepsBacked, BorrowKeepsBacked, ClosingKeepsBacked, FillKeepsBacked
       DEF Step
<1>4. ASSUME NEW k, CacheEvicts(k) PROVE Backed'
  BY <1>1, <1>4 DEF CacheEvicts, window
<1>5. CASE UNCHANGED vars
  BY <1>1, <1>5 DEF vars
<1> QED
  BY <1>2, <1>3, <1>4, <1>5, RequestKeepsBacked, ClosingKeepsBacked DEF Next

\* In a storer that keeps its whole history and whose callers delete nothing, a
\* key in the cache is on disk or being written, although changeEpoch and the LRU
\* cache close DBs under writes in flight and Get fills the cache late: a reader
\* is never served a value that no DB holds (doPutInPersister, getOrOpenPersister).
THEOREM CacheStaysBacked ==
    ASSUME KeepsEverything, NoRemove
    PROVE  Spec => []CacheIsBacked
<1>1. Init => Backed
  BY BackedInit
<1>2. TypeOK /\ Backed /\ [Next]_vars => Backed'
  BY BackedNext
<1>3. Backed => CacheIsBacked
  BY DEF Backed
<1> QED
  BY <1>1, <1>2, <1>3, TypeCorrect, PTL DEF Spec
----------------------------------------------------------------------------
(* What an epoch change closes and destroys *)

\* The oldest epoch a storer needs is one of the active ones.
LEMMA LastEpochNeededIsActive ==
    ASSUME NEW b \in Nat, NEW w, WindowType(w, b), NEW marks
    PROVE  LastEpochNeeded(w, marks) \in w.active
<1> DEFINE seen   == w.active \cap w.open \cap marks
           needed == {e \in seen : Cardinality({f \in seen : f >= e})
                                       = minNumOfActiveDBsNecessary}
<1>1. Max(w.active) \in w.active /\ Min(w.active) \in w.active
  BY MaxIsGreatest, MinIsLeast DEF WindowType
<1>2. needed # {} => Max(needed) \in w.active
  <2>1. needed \subseteq w.active /\ needed \subseteq 0 .. b
    BY DEF WindowType
  <2> HIDE DEF needed
  <2> QED
    BY <2>1, MaxIsGreatest
<1> QED
  BY <1>1, <1>2 DEF LastEpochNeeded

\* Once the chain is NumOfEpochsToKeep epochs long, neither unsigned subtraction
\* of the removal reaches an epoch that is to be kept: the first does not wrap,
\* and where the second does, it names an epoch the map cannot have.
LEMMA OnlyOldAreRemoved ==
    ASSUME NEW b \in Nat, b + 1 < Word, NEW e \in 0 .. b, NumOfEpochsToKeep <= e,
           NEW inMap, inMap \subseteq 0 .. b, NEW last \in 0 .. b,
           NEW x \in EpochsToRemove(inMap, e, last)
    PROVE  x + NumOfEpochsToKeep <= e
<1>1. Word \in Nat \ {0} /\ NumOfEpochsToKeep \in Nat
  BY WindowAssumption DEF WindowAssumption
<1>2. \A n \in 0 .. Word - 1 : Wrap(n) = n
  BY <1>1 DEF Wrap
<1>3. Wrap(-1) = Word - 1
  BY <1>1 DEF Wrap
<1>4. Wrap(e - NumOfEpochsToKeep) = e - NumOfEpochsToKeep
  <2>1. e - NumOfEpochsToKeep \in 0 .. Word - 1
    BY <1>1
  <2> QED
    BY <1>2, <2>1
<1> DEFINE idx   == Wrap(e - NumOfEpochsToKeep)
           start == IF idx >= last THEN Wrap(last - 1) ELSE idx
<1>5. x \in inMap /\ x <= start /\ (x .. start) \subseteq inMap
  BY DEF EpochsToRemove
<1>6. CASE idx < last
  <2>1. start = e - NumOfEpochsToKeep
    BY <1>1, <1>4, <1>6
  <2> QED
    BY <1>1, <1>5, <2>1
<1>7. CASE idx >= last /\ last # 0
  <2>1. last - 1 \in 0 .. Word - 1
    BY <1>1, <1>7
  <2>2. start = last - 1
    BY <1>2, <1>7, <2>1
  <2> HIDE DEF start
  <2> QED
    BY <1>1, <1>4, <1>5, <1>7, <2>2
<1>8. CASE idx >= last /\ last = 0
  <2>1. start = Word - 1
    BY <1>3, <1>8
  <2> HIDE DEF start
  <2>2. Word - 1 \in x .. start
    BY <1>1, <1>5, <2>1
  <2>3. Word - 1 \in 0 .. b
    BY <1>5, <2>2
  <2> QED
    BY <1>1, <2>3
<1> QED
  BY <1>1, <1>4, <1>6, <1>7, <1>8

LEMMA ChangeEpochDestroysOld ==
    ASSUME NEW b \in Nat, b + 1 < Word, NEW w, WindowType(w, b), NEW e \in 0 .. b,
           NumOfEpochsToKeep <= e, NEW keep, NEW marks,
           NEW o \in ChangeEpochOutcomes(w, e, keep, marks), NEW x \in o.destroyed
    PROVE  x + NumOfEpochsToKeep <= e
<1>1. PICK r \in IF e \in w.known THEN ChangeEpochWithExisting(w, e)
                                 ELSE CreateForEpoch(w, e) :
         o \in IF r.err THEN {[w |-> r.w, closed |-> {}, destroyed |-> {}]}
               ELSE RemoveOldPersistersIfNeeded(r.w, e, keep, marks)
  BY DEF ChangeEpochOutcomes
<1>2. WindowType(r.w, b)
  BY <1>1, CreateForEpochPreserves, ChangeEpochWithExistingPreserves DEF Preserved
<1>3. o \in RemoveOldPersistersIfNeeded(r.w, e, keep, marks)
  BY <1>1
<1>4. PICK y \in ExtendSavedEpochsIfNeeded(r.w, e, keep) :
         o \in IF y.extended THEN {[w |-> y.w, closed |-> {}, destroyed |-> {}]}
               ELSE CloseAndDestroyPersisters(y.w, e, marks)
  BY <1>3 DEF RemoveOldPersistersIfNeeded
<1>5. WindowType(y.w, b)
  BY <1>2, <1>4, ExtendPreserves DEF Preserved
<1>6. o \in CloseAndDestroyPersisters(y.w, e, marks)
  BY <1>4
<1> DEFINE last    == LastEpochNeeded(y.w, marks)
           toClose == y.w.active \ PersistersToKeep(y.w, last)
           inMap   == y.w.known \cup toClose
<1>7. PICK done \in Processed(EpochsToRemove(inMap, e, last)) :
         o = [w |-> [active |-> PersistersToKeep(y.w, last),
                     known  |-> inMap \ (IF ShouldClean THEN done
                                         ELSE {z \in done : ShouldRemove(z)}),
                     open   |-> y.w.open \ toClose],
              closed |-> toClose,
              destroyed |-> {z \in done : ShouldRemove(z)}]
  BY <1>6, Zenon DEF CloseAndDestroyPersisters
<1>8. last \in 0 .. b /\ inMap \subseteq 0 .. b
  BY <1>5, LastEpochNeededIsActive DEF WindowType
<1> HIDE DEF last, inMap
<1>9. x \in EpochsToRemove(inMap, e, last)
  <2>1. x \in done
    BY <1>7
  <2> QED
    BY <1>7, <2>1 DEF Processed
<1> QED
  BY <1>8, <1>9, OnlyOldAreRemoved

\* Epochs do not go back, and no active one lies after the notified one.
Ranged == StartingEpoch <= cur /\ active \subseteq 0 .. cur

LEMMA RangedInit == Init => Ranged
<1> SUFFICES ASSUME Init PROVE Ranged
  OBVIOUS
<1>1. active \subseteq 0 .. StartingEpoch
  BY DEF Init, InitPersistersInEpoch
<1> QED
  BY <1>1, EpochFacts DEF Init, Ranged

\* Only changeEpoch moves the window, and only forward.
LEMMA WindowMoves ==
    ASSUME TypeOK, [Next]_vars
    PROVE  \/ active' = active /\ cur' = cur
           \/ \E e \in {cur, cur + 1} : e <= MaxEpoch /\ ChangeEpoch(e)
<1>1. CASE Notification
  BY <1>1 DEF Notification, SaveHeaderForEpochStartPrepare,
              SetEpochForPutOperation, window
<1>2. ASSUME NEW p \in Procs, Request(p)
      PROVE  active' = active /\ cur' = cur
  BY <1>2 DEF Request, Put, Get, Remove, GetFromEpoch, GetBulkFromEpoch, PutInEpoch,
              PutInEpochWithoutCache, window, control
<1>3. ASSUME NEW p \in Procs, Step(p)
      PROVE  active' = active /\ cur' = cur
  <2>1. CASE SearchInEpoch(p) \/ SearchFirst(p) \/ GetPersisterData(p) \/ Read(p)
               \/ OpenFails(p) \/ GetPersisterToUse(p) \/ Return(p)
    BY <2>1 DEF SearchInEpoch, SearchFirst, GetPersisterData, Read, OpenFails,
                GetPersisterToUse, Return, window, control
  <2>2. CASE GetOrOpenPersister(p) \/ DoPutInPersister(p) \/ FillCache(p)
               \/ RemoveFromPersister(p)
    BY <2>2 DEF GetOrOpenPersister, DoPutInPersister, FillCache,
                RemoveFromPersister, window, control
  <2>3. CASE CreateAndInitPersisterIfClosed(p) \/ PutMarker(p) \/ ClosePersister(p)
    BY <2>3 DEF CreateAndInitPersisterIfClosed, PutMarker, ClosePersister, window,
                control
  <2> QED
    BY <1>3, <2>1, <2>2, <2>3 DEF Step
<1>4. ASSUME NEW k, CacheEvicts(k)
      PROVE  active' = active /\ cur' = cur
  BY <1>4 DEF CacheEvicts, window, control
<1>5. CASE CloseOldEpochs \/ Close \/ UNCHANGED vars
  BY <1>5 DEF CloseOldEpochs, Close, vars
<1> QED
  BY <1>1, <1>2, <1>3, <1>4, <1>5 DEF Next

LEMMA RangedNext ==
    ASSUME TypeOK, Ranged, [Next]_vars
    PROVE  Ranged'
<1>1. CASE active' = active /\ cur' = cur
  BY <1>1 DEF Ranged
<1>2. ASSUME NEW e \in {cur, cur + 1}, e <= MaxEpoch, ChangeEpoch(e)
      PROVE  Ranged'
  <2>1. PICK o \in ChangeEpochOutcomes(Window, e, prepare, marked) :
           active' = o.w.active
    BY <1>2 DEF ChangeEpoch
  <2>2. /\ e \in 0 .. MaxEpoch + 1 /\ 0 .. cur \subseteq 0 .. e
        /\ StartingEpoch <= cur => StartingEpoch <= e
    BY <1>2, EpochFacts DEF TypeOK
  <2>3. Preserved(Window, o.w, e, MaxEpoch + 1)
    BY <2>1, <2>2, ChangeEpochPreserves, WindowHasType, EpochFacts
  <2>4. cur' = e
    BY <1>2 DEF ChangeEpoch
  <2> QED
    BY <2>1, <2>2, <2>3, <2>4 DEF Preserved, Ranged, Window
<1> QED
  BY <1>1, <1>2, WindowMoves

\* The calls destroy nothing but what a Remove takes out.
LEMMA DataStays ==
    ASSUME TypeOK, [Next]_vars,
           ~ \E e \in {cur, cur + 1} : e <= MaxEpoch /\ ChangeEpoch(e),
           ~ \E p \in Procs : RemoveFromPersister(p)
    PROVE  \A e \in Epochs : disk[e] \subseteq disk'[e]
<1>1. CASE Notification
  BY <1>1 DEF Notification, SaveHeaderForEpochStartPrepare, SetEpochForPutOperation
<1>2. ASSUME NEW p \in Procs, Request(p)
      PROVE  disk' = disk
  BY <1>2 DEF Request, Put, Get, Remove, GetFromEpoch, GetBulkFromEpoch, PutInEpoch,
              PutInEpochWithoutCache
<1>3. ASSUME NEW p \in Procs, Step(p)
      PROVE  \A e \in Epochs : disk[e] \subseteq disk'[e]
  <2>1. CASE SearchInEpoch(p) \/ SearchFirst(p) \/ GetPersisterData(p) \/ Read(p)
               \/ OpenFails(p) \/ GetPersisterToUse(p) \/ Return(p)
    BY <2>1 DEF SearchInEpoch, SearchFirst, GetPersisterData, Read, OpenFails,
                GetPersisterToUse, Return
  <2>2. CASE GetOrOpenPersister(p) \/ FillCache(p)
    BY <2>2 DEF GetOrOpenPersister, FillCache
  <2>3. CASE CreateAndInitPersisterIfClosed(p) \/ PutMarker(p) \/ ClosePersister(p)
    BY <2>3 DEF CreateAndInitPersisterIfClosed, PutMarker, ClosePersister
  <2>4. CASE DoPutInPersister(p)
    <3>1. \/ disk' = disk
          \/ disk' = [disk EXCEPT ![proc[p].at] = disk[proc[p].at] \cup {proc[p].key}]
      BY <2>4 DEF DoPutInPersister
    <3> QED
      BY <3>1 DEF TypeOK
  <2> QED
    BY <1>3, <2>1, <2>2, <2>3, <2>4 DEF Step
<1>4. ASSUME NEW k, CacheEvicts(k)
      PROVE  disk' = disk
  BY <1>4 DEF CacheEvicts
<1>5. CASE CloseOldEpochs \/ Close \/ UNCHANGED vars
  BY <1>5 DEF CloseOldEpochs, Close, vars
<1> QED
  BY <1>1, <1>2, <1>3, <1>4, <1>5 DEF Next

\* A storer started in an epoch at least NumOfEpochsToKeep loses, but for the key
\* of a Remove, only data of epochs older than NumOfEpochsToKeep, whichever DBs
\* its readers opened or created, whichever Create or DestroyClosed failed and
\* however the window was extended (closeAndDestroyPersisters).
THEOREM DestroysOnlyOld ==
    ASSUME NumOfEpochsToKeep <= StartingEpoch
    PROVE  Spec => DestroysOnlyOldEpochs
<1>1. TypeOK /\ Ranged /\ [Next]_vars => Ranged'
  BY RangedNext
<1>2. TypeOK /\ Ranged /\ [Next]_vars
        => [\A e \in Epochs : ~ (disk[e] \subseteq disk'[e])
                                => \/ e + NumOfEpochsToKeep <= cur'
                                   \/ \E p \in Procs : RemoveFromPersister(p)]_vars
  <2> SUFFICES ASSUME TypeOK, Ranged, [Next]_vars, NEW x \in Epochs,
                      ~ (disk[x] \subseteq disk'[x]),
                      ~ \E p \in Procs : RemoveFromPersister(p)
               PROVE  x + NumOfEpochsToKeep <= cur'
    OBVIOUS
  <2>1. PICK e \in {cur, cur + 1} : e <= MaxEpoch /\ ChangeEpoch(e)
    BY DataStays
  <2>2. PICK o \in ChangeEpochOutcomes(Window, e, prepare, marked) :
           disk' = [f \in Epochs |-> IF f \in o.destroyed THEN {} ELSE disk[f]]
    BY <2>1 DEF ChangeEpoch
  <2>3. x \in o.destroyed
    BY <2>2
  <2>4. /\ e \in 0 .. MaxEpoch + 1 /\ NumOfEpochsToKeep <= e
        /\ MaxEpoch + 1 + 1 < Word
    BY <2>1, EpochFacts, StorerAssumption, WindowAssumption
       DEF TypeOK, Ranged, StorerAssumption, WindowAssumption
  <2>5. cur' = e
    BY <2>1 DEF ChangeEpoch
  <2> QED
    BY <2>2, <2>3, <2>4, <2>5, ChangeEpochDestroysOld, WindowHasType, EpochFacts
<1> QED
  BY <1>1, <1>2, RangedInit, TypeCorrect, PTL DEF Spec, DestroysOnlyOldEpochs
\* The stages of an epoch change before the closing one only add to the window.
LEMMA StagesGrow ==
    ASSUME NEW b \in Nat, NEW w, WindowType(w, b), NEW e \in 0 .. b,
           w.active \subseteq 0 .. e
    PROVE  /\ \A r \in ChangeEpochWithExisting(w, e) : w.active \subseteq r.w.active
           /\ \A r \in CreateForEpoch(w, e) : w.active \subseteq r.w.active
           /\ \A keep : \A r \in ExtendSavedEpochsIfNeeded(w, e, keep) :
                 w.active \subseteq r.w.active
<1>1. ASSUME NEW r \in ChangeEpochWithExisting(w, e)
      PROVE  w.active \subseteq r.w.active
  <2> DEFINE range == OldestEpochActive(w, e) .. e
  <2>1. w.active \subseteq range
    BY OldestEpochActiveFacts DEF WindowType
  <2>2. CASE r = [err |-> FALSE, w |-> w]
    BY <2>2
  <2>3. CASE r # [err |-> FALSE, w |-> w]
    <3>1. PICK q \in Reopen(w, range) :
             r = [err |-> q.err, w |-> [w EXCEPT !.open = q.open,
                                                 !.active = IF q.err THEN @ ELSE range]]
      BY <2>3 DEF ChangeEpochWithExisting
    <3> HIDE DEF range
    <3>2. r.w.active = IF q.err THEN w.active ELSE range
      BY <3>1 DEF WindowType
    <3> QED
      BY <2>1, <3>2
  <2> QED
    BY <2>2, <2>3
<1>2. ASSUME NEW r \in CreateForEpoch(w, e)
      PROVE  w.active \subseteq r.w.active
  BY DEF CreateForEpoch
<1>3. ASSUME NEW keep, NEW r \in ExtendSavedEpochsIfNeeded(w, e, keep)
      PROVE  w.active \subseteq r.w.active
  <2> DEFINE range == keep .. Min(w.active)
  <2>1. CASE r = [extended |-> FALSE, w |-> w]
    BY <2>1
  <2>2. CASE r # [extended |-> FALSE, w |-> w]
    <3>1. PICK x \in ExtendActivePersisters(w, keep, Min(w.active)) :
             r = [extended |-> ~ x.err, w |-> x.w]
      BY <2>2 DEF ExtendSavedEpochsIfNeeded
    <3>2. CASE x = [err |-> FALSE, w |-> w]
      BY <3>1, <3>2
    <3>3. CASE x # [err |-> FALSE, w |-> w]
      <4>1. PICK q \in Reopen(w, range) :
               x = [err |-> q.err,
                    w |-> [w EXCEPT !.open = q.open,
                                    !.active = IF q.err THEN @
                                               ELSE @ \cup (range \ w.open)]]
        BY <3>1, <3>3 DEF ExtendActivePersisters
      <4> HIDE DEF range
      <4>2. x.w.active = IF q.err THEN w.active ELSE w.active \cup (range \ w.open)
        BY <4>1 DEF WindowType
      <4> QED
        BY <3>1, <4>2
    <3> QED
      BY <3>2, <3>3
  <2> QED
    BY <2>1, <2>2
<1> QED
  BY <1>1, <1>2, <1>3

\* processPersistersToClose keeps every active epoch from the needed one on.
LEMMA NeededAreKept ==
    ASSUME NEW b \in Nat, NEW w, WindowType(w, b), NEW last \in 0 .. b,
           NEW e \in w.active, e >= last
    PROVE  e \in PersistersToKeep(w, last)
<1> DEFINE S == {f \in w.active : f >= last}
           T == {f \in w.active : f >= e}
<1>1. IsFiniteSet(S)
  <2>1. S \subseteq 0 .. b
    BY DEF WindowType
  <2>2. IsFiniteSet(0 .. b)
    BY FS_Interval
  <2> HIDE DEF S
  <2> QED
    BY <2>1, <2>2, FS_Subset
<1>2. T \subseteq S
  BY DEF WindowType
<1>3. Cardinality(T) <= Cardinality(S) /\ Cardinality(S) \in Nat /\ IsFiniteSet(T)
  BY <1>1, <1>2, FS_Subset, FS_CardinalityType
<1>4. Cardinality(T) \in Nat
  BY <1>3, FS_CardinalityType
<1>5. Max({Cardinality(S), NumOfActivePersisters}) =
         IF Cardinality(S) >= NumOfActivePersisters THEN Cardinality(S)
                                                    ELSE NumOfActivePersisters
  BY <1>3, MaxOfTwo, WindowAssumption DEF WindowAssumption
<1>6. Cardinality(T) <= Max({Cardinality(S), NumOfActivePersisters})
  <2> HIDE DEF S, T
  <2> QED
    BY <1>3, <1>4, <1>5, WindowAssumption DEF WindowAssumption
<1> QED
  BY <1>6 DEF PersistersToKeep

\* A trie storer lets a marked DB go only when two newer marked ones stay.
LEMMA ClosingKeepsTrieState ==
    ASSUME IsTrie, NEW b \in Nat, NEW w, WindowType(w, b), NEW marks,
           NEW e \in w.active, e \notin PersistersToKeep(w, LastEpochNeeded(w, marks))
    PROVE  Cardinality({f \in PersistersToKeep(w, LastEpochNeeded(w, marks)) \cap marks :
                           f > e}) >= minNumOfActiveDBsNecessary
<1> DEFINE last   == LastEpochNeeded(w, marks)
           kept   == PersistersToKeep(w, last)
           seen   == w.active \cap w.open \cap marks
           needed == {x \in seen : Cardinality({f \in seen : f >= x})
                                       = minNumOfActiveDBsNecessary}
           two    == {f \in seen : f >= last}
           newer  == {f \in kept \cap marks : f > e}
<1>1. last \in w.active /\ last \in 0 .. b
  BY LastEpochNeededIsActive DEF WindowType
<1>2. \A x \in w.active : x >= last => x \in kept
  BY <1>1, NeededAreKept
<1>3. e < last
  BY <1>1, <1>2 DEF WindowType
<1>4. needed # {}
  <2>1. Min(w.active) <= e
    BY MinIsLeast DEF WindowType
  <2>2. needed = {} => last = Min(w.active)
    BY DEF LastEpochNeeded
  <2> QED
    BY <1>1, <1>3, <2>1, <2>2 DEF WindowType
<1>5. last = Max(needed)
  BY <1>4 DEF LastEpochNeeded
<1>6. last \in needed
  <2>1. needed \subseteq 0 .. b
    BY DEF WindowType
  <2> HIDE DEF needed
  <2> QED
    BY <1>4, <1>5, <2>1, MaxIsGreatest
<1>7. Cardinality(two) = minNumOfActiveDBsNecessary
  BY <1>6
<1>8. two \subseteq newer
  BY <1>1, <1>2, <1>3 DEF WindowType
<1>9. IsFiniteSet(newer)
  <2>1. newer \subseteq 0 .. b
    BY DEF PersistersToKeep, WindowType
  <2>2. IsFiniteSet(0 .. b)
    BY FS_Interval
  <2> HIDE DEF newer
  <2> QED
    BY <2>1, <2>2, FS_Subset
<1> HIDE DEF two, newer
<1>10. Cardinality(newer) >= Cardinality(two)
  <2>1. Cardinality(two) <= Cardinality(newer)
    BY <1>8, <1>9, FS_Subset
  <2>2. Cardinality(newer) \in Nat
    BY <1>9, FS_CardinalityType
  <2> QED
    BY <1>7, <2>1, <2>2 DEF minNumOfActiveDBsNecessary
<1>11. Cardinality(newer) >= minNumOfActiveDBsNecessary
  BY <1>7, <1>10
<1> QED
  BY <1>11 DEF newer

\* The marked DBs of the window w that are newer than epoch x.
MarkedAfter(w, marks, x) == {f \in w.active \cap marks : f > x}

LEMMA ChangeEpochKeepsTrieState ==
    ASSUME IsTrie, NEW b \in Nat, NEW w, WindowType(w, b), NEW e \in 0 .. b,
           w.active \subseteq 0 .. e, NEW keep, NEW marks,
           NEW o \in ChangeEpochOutcomes(w, e, keep, marks),
           NEW x \in w.active \ o.w.active
    PROVE  Cardinality(MarkedAfter(o.w, marks, x)) >= minNumOfActiveDBsNecessary
<1>1. PICK r \in IF e \in w.known THEN ChangeEpochWithExisting(w, e)
                                 ELSE CreateForEpoch(w, e) :
         o \in IF r.err THEN {[w |-> r.w, closed |-> {}, destroyed |-> {}]}
               ELSE RemoveOldPersistersIfNeeded(r.w, e, keep, marks)
  BY DEF ChangeEpochOutcomes
<1>2. WindowType(r.w, b) /\ r.w.active \subseteq 0 .. e
  BY <1>1, CreateForEpochPreserves, ChangeEpochWithExistingPreserves DEF Preserved
<1>3. x \in r.w.active
  BY <1>1, StagesGrow
<1>4. o \in RemoveOldPersistersIfNeeded(r.w, e, keep, marks)
  <2>1. CASE r.err
    BY <1>1, <1>3, <2>1
  <2> QED
    BY <1>1, <2>1
<1>5. PICK y \in ExtendSavedEpochsIfNeeded(r.w, e, keep) :
         o \in IF y.extended THEN {[w |-> y.w, closed |-> {}, destroyed |-> {}]}
               ELSE CloseAndDestroyPersisters(y.w, e, marks)
  BY <1>4 DEF RemoveOldPersistersIfNeeded
<1>6. WindowType(y.w, b)
  BY <1>2, <1>5, ExtendPreserves DEF Preserved
<1>7. x \in y.w.active
  BY <1>2, <1>3, <1>5, StagesGrow
<1>8. o \in CloseAndDestroyPersisters(y.w, e, marks)
  <2>1. CASE y.extended
    BY <1>5, <1>7, <2>1
  <2> QED
    BY <1>5, <2>1
<1>9. o.w.active = PersistersToKeep(y.w, LastEpochNeeded(y.w, marks))
  BY <1>8 DEF CloseAndDestroyPersisters
<1> QED
  BY <1>6, <1>7, <1>9, ClosingKeepsTrieState DEF MarkedAfter

\* A trie storer never lets a marked DB leave its window unless two newer marked
\* ones stay in it, however often the window was extended for a stuck shard or an
\* epoch change failed half way: the two hold one complete state
\* (lastEpochNeeded, processPersistersToClose).
THEOREM TrieStateStaysOpen ==
    ASSUME IsTrie
    PROVE  Spec => KeepsTrieStateOpen
<1>1. TypeOK /\ Ranged /\ [Next]_vars => Ranged'
  BY RangedNext
<1>2. TypeOK /\ Ranged /\ [Next]_vars
        => [\A e \in (active \cap marked) \ active' :
               Cardinality({f \in active' \cap marked' : f > e})
                   >= minNumOfActiveDBsNecessary]_vars
  <2> SUFFICES ASSUME TypeOK, Ranged, [Next]_vars,
                      NEW x \in (active \cap marked) \ active'
               PROVE  Cardinality({f \in active' \cap marked' : f > x})
                          >= minNumOfActiveDBsNecessary
    OBVIOUS
  <2>1. PICK e \in {cur, cur + 1} : e <= MaxEpoch /\ ChangeEpoch(e)
    BY WindowMoves
  <2>2. PICK o \in ChangeEpochOutcomes(Window, e, prepare, marked) :
           active' = o.w.active
    BY <2>1 DEF ChangeEpoch
  <2>3. e \in 0 .. MaxEpoch + 1 /\ 0 .. cur \subseteq 0 .. e
    BY <2>1, EpochFacts DEF TypeOK
  <2>4. Window.active = active /\ active \subseteq 0 .. e
    BY <2>3 DEF Window, Ranged
  <2>5. marked' = marked
    BY <2>1 DEF ChangeEpoch
  <2>6. WindowType(Window, MaxEpoch + 1) /\ MaxEpoch + 1 \in Nat
    BY WindowHasType, EpochFacts
  <2>7. x \in Window.active \ o.w.active
    BY <2>2, <2>4
  <2>8. Cardinality(MarkedAfter(o.w, marked, x)) >= minNumOfActiveDBsNecessary
    BY <2>2, <2>3, <2>4, <2>6, <2>7, ChangeEpochKeepsTrieState
  <2>9. MarkedAfter(o.w, marked, x) = {f \in active' \cap marked' : f > x}
    BY <2>2, <2>5 DEF MarkedAfter
  <2> QED
    BY <2>8, <2>9, Zenon
<1> QED
  BY <1>1, <1>2, RangedInit, TypeCorrect, PTL DEF Spec, KeepsTrieStateOpen
============================================================================
