---------------------- MODULE HistoricalAccountsProofs ----------------------
(***************************************************************************)
(* The historical accounts adapter answers truthfully, for any number of   *)
(* concurrent queries and any history: HistoricalAccounts implements       *)
(* HistoricalState.                                                        *)
(***************************************************************************)
EXTENDS HistoricalAccounts, FiniteSetsExt, WellFoundedInduction, TLAPS

(* What Min and Max of FiniteSetsExt return. *)

\* A nonempty set of natural numbers has a least element, which Min returns.
LEMMA MinIsLeast ==
    ASSUME NEW S, S \subseteq Nat, S # {}
    PROVE  Min(S) \in S /\ \A y \in S : Min(S) <= y
<1> DEFINE R == {ss \in Nat \X Nat : ss[1] < ss[2]}
<1>1. IsWellFoundedOn(R, Nat)
  BY NatLessThanWellFounded, Zenon DEF OpToRel
<1>2. \A x, y \in Nat : y < x => <<y, x>> \in R
  OBVIOUS
<1> HIDE DEF R
<1>3. PICK x \in S : \A y \in S : ~ (<<y, x>> \in R)
  BY <1>1, WFMin
<1>4. \A y \in S : x =< y
  <2> SUFFICES ASSUME NEW y \in S PROVE x =< y
    OBVIOUS
  <2>1. ~ (y < x)
    BY <1>2, <1>3, Zenon
  <2> QED
    BY <2>1
<1> QED
  BY <1>4 DEF Min

\* A nonempty set of natural numbers with an upper bound has a greatest element,
\* which Max returns.
LEMMA MaxIsGreatest ==
    ASSUME NEW b \in Nat, NEW S, S \subseteq 0 .. b, S # {}
    PROVE  Max(S) \in S /\ \A y \in S : y <= Max(S)
<1> DEFINE T == {b - x : x \in S}
<1>1. T \subseteq Nat /\ T # {}
  <2>1. PICK x \in S : TRUE
    OBVIOUS
  <2>2. b - x \in T
    OBVIOUS
  <2>3. \A y \in S : b - y \in Nat
    OBVIOUS
  <2> QED
    BY <2>2, <2>3
<1>2. Min(T) \in T /\ \A y \in T : Min(T) <= y
  BY <1>1, MinIsLeast
<1>3. PICK m \in S : Min(T) = b - m
  BY <1>2
<1>4. \A y \in S : m >= y
  <2> SUFFICES ASSUME NEW y \in S PROVE m >= y
    OBVIOUS
  <2>1. b - y \in T
    OBVIOUS
  <2>2. b - m <= b - y
    BY <2>1, <1>2, <1>3
  <2>3. b \in Int /\ m \in Int /\ y \in Int
    OBVIOUS
  <2> HIDE DEF T
  <2> QED
    BY <2>2, <2>3
<1>5. \E x \in S : \A y \in S : x >= y
  BY <1>4
<1>6. Max(S) \in S /\ \A y \in S : Max(S) >= y
  BY <1>5 DEF Max
<1> QED
  BY <1>6

\* Max of two integers.
LEMMA MaxOfTwo ==
    ASSUME NEW a \in Int, NEW b \in Int
    PROVE  Max({a, b}) = IF a >= b THEN a ELSE b
<1>1. \E x \in {a, b} : \A y \in {a, b} : x >= y
  OBVIOUS
<1>2. Max({a, b}) \in {a, b} /\ \A y \in {a, b} : Max({a, b}) >= y
  BY <1>1 DEF Max
<1> QED
  BY <1>2

-----------------------------------------------------------------------------
\* RLock: the caller is a reader, or parked behind the writer.
LEMMA RLockFacts ==
    ASSUME NEW m \in Mutexes, NEW p \in Procs
    PROVE  /\ RLock(m, p) \in Mutexes
           /\ RLock(m, p).writer = m.writer
           /\ m.writer = NoProc => /\ RLock(m, p).readers = m.readers \cup {p}
                                  /\ RLock(m, p).parked = m.parked
           /\ m.writer # NoProc => /\ RLock(m, p).readers = m.readers
                                  /\ RLock(m, p).parked = m.parked \cup {p}
  BY DEF Mutexes, RLock

\* The other operations of the mutex.
LEMMA MutexOperations ==
    ASSUME NEW m \in Mutexes, NEW p \in Procs
    PROVE  /\ RUnlock(m, p) \in Mutexes
           /\ RUnlock(m, p).writer = m.writer
           /\ RUnlock(m, p).readers = m.readers \ {p}
           /\ RUnlock(m, p).parked = m.parked
           /\ Announce(m, p) \in Mutexes
           /\ Announce(m, p).writer = p
           /\ Announce(m, p).readers = m.readers
           /\ Announce(m, p).parked = m.parked
           /\ Unlock(m) \in Mutexes
           /\ Unlock(m).writer = NoProc
           /\ Unlock(m).readers = m.readers \cup m.parked
           /\ Unlock(m).parked = {}
  BY DEF Mutexes, RUnlock, Announce, Unlock

Tries == [root : Roots, storage : Nat \cup {BaseStorage}]

\* patriciaMerkleTrie.Recreate returns the trie of the root hash it was asked
\* for, or fails and leaves the old one.
LEMMA RecreateFacts ==
    ASSUME NEW t \in Tries, NEW r \in Roots, NEW hint \in Nat \cup {NoHint},
           NEW active
    PROVE  LET new == Recreate(t, r, hint, active)
           IN  /\ new.err \in BOOLEAN
               /\ new.trie \in Tries
               /\ ~ new.err => new.trie.root = r
               /\ new.err => new.trie = t
  BY DEF Recreate, Tries, BaseStorage, NoHint

\* AccountsDB.GetExistingAccount says what the state of the trie's root hash
\* says, or fails.
LEMMA LookupIsTruthful ==
    ASSUME NEW t, NEW active
    PROVE  /\ Lookup(t, active) \in {"found", "absent", "error"}
           /\ Lookup(t, active) # "error"
                 => Lookup(t, active) \in State!Truth("account", t.root)
  BY DEF Lookup, State!Truth

\* AccountsDB.GetCode says what the state of the trie's root hash says, or
\* nothing.
LEMMA LookupCodeIsTruthful ==
    ASSUME NEW t, NEW active
    PROVE  /\ LookupCode(t, active) \in {"found", "empty"}
           /\ LookupCode(t, active) \in State!Truth("code", t.root)
  BY DEF LookupCode, Lookup, State!Truth

----------------------------------------------------------------------------
(* The inductive invariant: TypeOK and SharedTrie *)

\* One query moves.
LEMMA OneQueryMoves ==
    ASSUME TypeOK, NEW p \in Procs, NEW c \in Queries,
           proc' = [proc EXCEPT ![p] = c]
    PROVE  /\ proc' \in [Procs -> Queries]
           /\ proc'[p] = c
           /\ \A q \in Procs : q # p => proc'[q] = proc[q]
  BY DEF TypeOK

\* Being answered keeps a query well formed.
LEMMA AnsweredQuery ==
    ASSUME TypeOK, NEW p \in Procs,
           NEW a \in {"found", "absent", "empty", "error"}, Answered(p, a)
    PROVE  \E c \in Queries :
              /\ proc' = [proc EXCEPT ![p] = c]
              /\ c.pc = "done" /\ c.op = proc[p].op /\ c.root = proc[p].root
              /\ c.answer = a
              /\ c.label = IF a = "error" THEN NoRoot ELSE proc[p].root
<1> DEFINE l == IF a = "error" THEN NoRoot ELSE proc[p].root
           c == [proc[p] EXCEPT !.pc = "done", !.answer = a, !.label = l]
<1>1. proc[p] \in Queries
  BY DEF TypeOK
<1>2. l \in Roots \cup {NoRoot}
  BY <1>1 DEF Queries
<1>3. proc' = [proc EXCEPT ![p] = c]
  BY DEF Answered, TypeOK
<1> HIDE DEF l
<1>4. /\ c \in Queries
      /\ c.pc = "done" /\ c.op = proc[p].op /\ c.root = proc[p].root
      /\ c.answer = a /\ c.label = l
  BY <1>1, <1>2 DEF Queries
<1> HIDE DEF c
<1>5. QED
  BY <1>3, <1>4 DEF l

LEMMA IdleIsQuery == Idle \in Queries
  BY DEF Idle, Queries, NoHint

LEMMA InitInvariant == Init => TypeOK /\ SharedTrie
<1> SUFFICES ASSUME Init PROVE TypeOK /\ SharedTrie
  OBVIOUS
<1>1. TypeOK
  BY TrieAssumption, HistoryAssumption, IdleIsQuery
  DEF Init, TypeOK, Unlocked, Mutexes, BaseStorage
<1>2. \A p \in Procs : proc[p] = Idle
  BY DEF Init
<1>3. Idle.pc = "idle" /\ latest = NoRoot
  BY DEF Idle, Init
<1>4. mutex.readers = {} /\ mutex.parked = {} /\ mutex.writer = NoProc
  BY DEF Init, Unlocked
<1>5. SharedTrie
  BY <1>2, <1>3, <1>4, MutexAssumption DEF SharedTrie, LockDiscipline, InFlight
<1>6. QED
  BY <1>1, <1>5

LEMMA RequestKeepsInvariant ==
    ASSUME TypeOK, SharedTrie, NEW p \in Procs, Request(p)
    PROVE  TypeOK' /\ SharedTrie'
<1>1. PICK op \in {"account", "code"}, r \in Roots :
         \E hint \in Hints(r) : GetWithBlockInfo(p, op, r, hint)
  BY DEF Request
<1>2. PICK hint \in Hints(r) : GetWithBlockInfo(p, op, r, hint)
  BY <1>1
<1>3. hint \in Nat \cup {NoHint}
  BY <1>2, HistoryAssumption DEF Hints
<1> DEFINE c == [Idle EXCEPT !.pc = "check", !.op = op, !.root = r, !.hint = hint]
<1>4. /\ c \in Queries
      /\ c.pc = "check" /\ c.op = op /\ c.root = r
      /\ c.answer = "none" /\ c.label = NoRoot
  BY <1>3 DEF Idle, Queries
<1>5. /\ proc' = [proc EXCEPT ![p] = c]
      /\ mutex' = RLock(mutex, p)
      /\ UNCHANGED <<trie, latest, epoch>>
      /\ proc[p].pc = "idle"
  BY <1>2 DEF GetWithBlockInfo
<1> HIDE DEF c
<1>6. /\ proc' \in [Procs -> Queries] /\ proc'[p] = c
      /\ \A q \in Procs : q # p => proc'[q] = proc[q]
  BY <1>4, <1>5, OneQueryMoves
<1>7. TypeOK'
  BY <1>5, <1>6, RLockFacts DEF TypeOK
<1>8. /\ mutex'.writer = mutex.writer
      /\ mutex.writer = NoProc => /\ mutex'.readers = mutex.readers \cup {p}
                                 /\ mutex'.parked = mutex.parked
      /\ mutex.writer # NoProc => /\ mutex'.readers = mutex.readers
                                 /\ mutex'.parked = mutex.parked \cup {p}
  BY <1>5, RLockFacts DEF TypeOK
<1>9. SharedTrie'
  BY <1>4, <1>5, <1>6, <1>8, MutexAssumption
  DEF SharedTrie, LockDiscipline, InFlight
<1>10. QED
  BY <1>7, <1>9

\* Steps that change only the pc and the reused field of a query.
LEMMA MoveKeepsInvariant ==
    ASSUME TypeOK, SharedTrie, NEW p \in Procs,
           NEW pc \in {"lock", "recheck", "get", "got"}, NEW reused \in BOOLEAN,
           proc[p].pc \in {"check", "lock", "recheck"},
           proc' = [proc EXCEPT ![p] = [proc[p] EXCEPT !.pc = pc, !.reused = reused]],
           mutex' \in Mutexes, trie' \in Tries, latest' \in Roots \cup {NoRoot},
           UNCHANGED epoch
    PROVE  /\ TypeOK' /\ InFlight'
           /\ proc'[p].pc = pc /\ proc'[p].root = proc[p].root
           /\ \A q \in Procs : q # p => proc'[q] = proc[q]
<1> DEFINE c == [proc[p] EXCEPT !.pc = pc, !.reused = reused]
<1>1. proc[p] \in Queries
  BY DEF TypeOK
<1>2. /\ c \in Queries
      /\ c.pc = pc /\ c.op = proc[p].op /\ c.root = proc[p].root
      /\ c.answer = proc[p].answer /\ c.label = proc[p].label
  BY <1>1 DEF Queries
<1> HIDE DEF c
<1>3. proc' = [proc EXCEPT ![p] = c]
  BY DEF c
<1>4. /\ proc' \in [Procs -> Queries] /\ proc'[p] = c
      /\ \A q \in Procs : q # p => proc'[q] = proc[q]
  BY <1>2, <1>3, OneQueryMoves
<1>5. TypeOK'
  BY <1>4 DEF TypeOK, Tries
<1>6. InFlight'
  BY <1>2, <1>4 DEF InFlight, SharedTrie
<1>7. QED
  BY <1>2, <1>4, <1>5, <1>6

LEMMA SameField ==
    ASSUME NEW c \in Queries, NEW pc
    PROVE  [c EXCEPT !.pc = pc] = [c EXCEPT !.pc = pc, !.reused = c.reused]
  BY DEF Queries

LEMMA FirstCheckKeepsInvariant ==
    ASSUME TypeOK, SharedTrie, NEW p \in Procs, FirstCheck(p)
    PROVE  TypeOK' /\ SharedTrie'
<1>1. proc[p] \in Queries /\ proc[p].reused \in BOOLEAN
  BY DEF TypeOK, Queries
<1>2. /\ proc[p].pc = "check"
      /\ UNCHANGED <<trie, latest, epoch>>
      /\ p \in mutex.readers
  BY DEF FirstCheck, HoldsRLock
<1>3. trie' \in Tries /\ latest' \in Roots \cup {NoRoot} /\ mutex \in Mutexes
  BY <1>2 DEF TypeOK, Tries
<1>4. CASE ShouldRecreateTrie(proc[p].root)
  <2>1. mutex' = RUnlock(mutex, p)
    BY <1>4 DEF FirstCheck
  <2>2. proc' = [proc EXCEPT ![p] =
                    [proc[p] EXCEPT !.pc = "lock", !.reused = proc[p].reused]]
    BY <1>1, <1>4, SameField DEF FirstCheck, TypeOK
  <2>3. /\ mutex' \in Mutexes /\ mutex'.writer = mutex.writer
        /\ mutex'.readers = mutex.readers \ {p} /\ mutex'.parked = mutex.parked
    BY <1>3, <2>1, MutexOperations
  <2>4. /\ TypeOK' /\ InFlight'
        /\ proc'[p].pc = "lock" /\ proc'[p].root = proc[p].root
        /\ \A q \in Procs : q # p => proc'[q] = proc[q]
    BY <1>1, <1>2, <1>3, <2>2, <2>3, MoveKeepsInvariant
  <2>5. QED
    BY <1>2, <2>3, <2>4 DEF SharedTrie, LockDiscipline
<1>5. CASE ~ ShouldRecreateTrie(proc[p].root)
  <2>1. mutex' = mutex
    BY <1>5 DEF FirstCheck
  <2>2. proc' = [proc EXCEPT ![p] = [proc[p] EXCEPT !.pc = "get", !.reused = TRUE]]
    BY <1>5 DEF FirstCheck, TypeOK
  <2>3. /\ TypeOK' /\ InFlight'
        /\ proc'[p].pc = "get" /\ proc'[p].root = proc[p].root
        /\ \A q \in Procs : q # p => proc'[q] = proc[q]
    BY <1>1, <1>2, <1>3, <2>1, <2>2, MoveKeepsInvariant
  <2>4. QED
    BY <1>2, <1>5, <2>1, <2>3 DEF SharedTrie, LockDiscipline, ShouldRecreateTrie
<1>6. QED
  BY <1>4, <1>5

LEMMA LockKeepsInvariant ==
    ASSUME TypeOK, SharedTrie, NEW p \in Procs, Lock(p)
    PROVE  TypeOK' /\ SharedTrie'
<1>1. proc[p] \in Queries /\ proc[p].reused \in BOOLEAN
  BY DEF TypeOK, Queries
<1>2. /\ proc[p].pc = "lock"
      /\ UNCHANGED <<trie, latest, epoch>>
      /\ mutex.writer = NoProc
      /\ mutex' = Announce(mutex, p)
  BY DEF Lock, CanAnnounce
<1>3. /\ mutex' \in Mutexes /\ mutex'.writer = p
      /\ mutex'.readers = mutex.readers /\ mutex'.parked = mutex.parked
      /\ trie' \in Tries /\ latest' \in Roots \cup {NoRoot}
  BY <1>2, MutexOperations DEF TypeOK, Tries
<1>4. proc' = [proc EXCEPT ![p] =
                  [proc[p] EXCEPT !.pc = "recheck", !.reused = proc[p].reused]]
  BY <1>1, SameField DEF Lock, TypeOK
<1>5. /\ TypeOK' /\ InFlight'
      /\ proc'[p].pc = "recheck" /\ proc'[p].root = proc[p].root
      /\ \A q \in Procs : q # p => proc'[q] = proc[q]
  BY <1>1, <1>2, <1>3, <1>4, MoveKeepsInvariant
<1>6. QED
  BY <1>2, <1>3, <1>5, MutexAssumption DEF SharedTrie, LockDiscipline

\* Ending a query and unlocking, which both a failed recreation and a read do.
LEMMA AnswerKeepsInvariant ==
    ASSUME TypeOK, SharedTrie, NEW p \in Procs,
           NEW a \in {"found", "absent", "empty", "error"}, Answered(p, a),
           UNCHANGED <<trie, latest, epoch>>,
           \/ mutex' = RUnlock(mutex, p) /\ proc[p].pc = "get"
           \/ mutex' = Unlock(mutex) /\ HoldsLock(mutex, p)
    PROVE  TypeOK' /\ SharedTrie'
<1>1. PICK c \in Queries :
         /\ proc' = [proc EXCEPT ![p] = c]
         /\ c.pc = "done" /\ c.op = proc[p].op /\ c.root = proc[p].root
  BY AnsweredQuery
<1>2. /\ proc' \in [Procs -> Queries] /\ proc'[p] = c
      /\ \A q \in Procs : q # p => proc'[q] = proc[q]
  BY <1>1, OneQueryMoves
<1>3. proc[p].pc # "idle"
  BY MutexAssumption DEF SharedTrie, LockDiscipline, HoldsLock
<1>4. InFlight'
  BY <1>1, <1>2, <1>3 DEF SharedTrie, InFlight
<1>5. CASE mutex' = RUnlock(mutex, p) /\ proc[p].pc = "get"
  <2>1. /\ mutex' \in Mutexes /\ mutex'.writer = mutex.writer
        /\ mutex'.readers = mutex.readers \ {p} /\ mutex'.parked = mutex.parked
    BY <1>5, MutexOperations DEF TypeOK
  <2>2. TypeOK'
    BY <1>2, <2>1 DEF TypeOK
  <2>3. QED
    BY <1>1, <1>2, <1>4, <1>5, <2>1, <2>2 DEF SharedTrie, LockDiscipline
<1>6. CASE mutex' = Unlock(mutex) /\ HoldsLock(mutex, p)
  <2>1. /\ mutex' \in Mutexes /\ mutex'.writer = NoProc
        /\ mutex'.readers = mutex.readers \cup mutex.parked
        /\ mutex'.parked = {}
        /\ mutex.readers = {} /\ mutex.writer = p
    BY <1>6, MutexOperations DEF TypeOK, HoldsLock
  <2>2. TypeOK'
    BY <1>2, <2>1 DEF TypeOK
  <2>3. LockDiscipline'
    BY <1>1, <1>2, <2>1, MutexAssumption DEF SharedTrie, LockDiscipline
  <2>4. QED
    BY <1>1, <1>2, <1>4, <2>2, <2>3 DEF SharedTrie
<1>7. QED
  BY <1>5, <1>6

LEMMA RecheckKeepsInvariant ==
    ASSUME TypeOK, SharedTrie, NEW p \in Procs, Recheck(p)
    PROVE  TypeOK' /\ SharedTrie'
<1> DEFINE new == Recreate(trie, proc[p].root, proc[p].hint, Active)
<1>1. /\ proc[p] \in Queries /\ proc[p].reused \in BOOLEAN
      /\ proc[p].pc = "recheck" /\ HoldsLock(mutex, p) /\ UNCHANGED epoch
  BY DEF Recheck, TypeOK, Queries
<1>2. proc[p].root \in Roots /\ proc[p].root # NoRoot
  BY <1>1, HistoryAssumption DEF SharedTrie, InFlight
<1>3. /\ new.err \in BOOLEAN
      /\ new.trie \in Tries
      /\ ~ new.err => new.trie.root = proc[p].root
      /\ new.err => new.trie = trie
  BY <1>1, <1>2, RecreateFacts DEF TypeOK, Queries, Tries
<1>4. /\ \A q \in Procs : q # p => proc[q].pc \notin {"get", "got"}
      /\ mutex.readers = {} /\ mutex.writer = p
  BY <1>1 DEF SharedTrie, LockDiscipline, HoldsLock
<1> HIDE DEF new
<1>5. CASE latest # proc[p].root /\ new.err
  <2>1. /\ UNCHANGED <<trie, latest, epoch>>
        /\ mutex' = Unlock(mutex)
        /\ Answered(p, "error")
    BY <1>1, <1>3, <1>5 DEF Recheck, ShouldRecreateTrie, new
  <2>2. QED
    BY <1>1, <2>1, AnswerKeepsInvariant
<1>6. CASE latest # proc[p].root /\ ~ new.err
  <2>1. /\ trie' = new.trie
        /\ latest' = proc[p].root
        /\ mutex' = mutex
        /\ proc' = [proc EXCEPT ![p] =
                       [proc[p] EXCEPT !.pc = "got", !.reused = proc[p].reused]]
    BY <1>1, <1>6, SameField DEF Recheck, ShouldRecreateTrie, new, TypeOK
  <2>2. /\ TypeOK' /\ InFlight'
        /\ proc'[p].pc = "got" /\ proc'[p].root = proc[p].root
        /\ \A q \in Procs : q # p => proc'[q] = proc[q]
    <3>1. mutex' \in Mutexes /\ trie' \in Tries /\ latest' \in Roots \cup {NoRoot}
      BY <2>1, <1>2, <1>3 DEF TypeOK
    <3>2. QED
      BY <1>1, <2>1, <3>1, MoveKeepsInvariant
  <2>3. QED
    BY <1>1, <1>2, <1>3, <1>4, <1>6, <2>1, <2>2 DEF SharedTrie, LockDiscipline
<1>7. CASE latest = proc[p].root
  <2>1. /\ UNCHANGED <<trie, latest, mutex, epoch>>
        /\ proc' = [proc EXCEPT ![p] = [proc[p] EXCEPT !.pc = "got", !.reused = TRUE]]
    BY <1>7 DEF Recheck, ShouldRecreateTrie, TypeOK
  <2>2. /\ TypeOK' /\ InFlight'
        /\ proc'[p].pc = "got" /\ proc'[p].root = proc[p].root
        /\ \A q \in Procs : q # p => proc'[q] = proc[q]
    <3>1. mutex' \in Mutexes /\ trie' \in Tries /\ latest' \in Roots \cup {NoRoot}
      BY <2>1 DEF TypeOK, Tries
    <3>2. QED
      BY <1>1, <2>1, <3>1, MoveKeepsInvariant
  <2>3. QED
    BY <1>1, <1>4, <1>7, <2>1, <2>2 DEF SharedTrie, LockDiscipline
<1>8. QED
  BY <1>3, <1>5, <1>6, <1>7

LEMMA DoGetKeepsInvariant ==
    ASSUME TypeOK, SharedTrie, NEW p \in Procs, DoGet(p)
    PROVE  TypeOK' /\ SharedTrie'
<1> DEFINE a == IF proc[p].op = "account" THEN Lookup(trie, Active)
                                          ELSE LookupCode(trie, Active)
<1>1. a \in {"found", "absent", "empty", "error"}
  BY LookupIsTruthful, LookupCodeIsTruthful
<1>2. Answered(p, a) /\ UNCHANGED <<trie, latest, epoch>>
  BY DEF DoGet
<1>3. \/ mutex' = RUnlock(mutex, p) /\ proc[p].pc = "get"
      \/ mutex' = Unlock(mutex) /\ HoldsLock(mutex, p)
  BY DEF DoGet, SharedTrie, LockDiscipline, HoldsLock
<1> HIDE DEF a
<1>4. QED
  BY <1>1, <1>2, <1>3, AnswerKeepsInvariant

LEMMA ReturnKeepsInvariant ==
    ASSUME TypeOK, SharedTrie, NEW p \in Procs, Return(p)
    PROVE  TypeOK' /\ SharedTrie'
<1>1. /\ proc' \in [Procs -> Queries] /\ proc'[p] = Idle
      /\ \A q \in Procs : q # p => proc'[q] = proc[q]
  BY IdleIsQuery, OneQueryMoves DEF Return
<1>2. Idle.pc = "idle" /\ proc[p].pc = "done"
  BY DEF Idle, Return
<1>3. UNCHANGED <<trie, latest, epoch, mutex>>
  BY DEF Return
<1>4. TypeOK'
  BY <1>1, <1>3 DEF TypeOK
<1>5. SharedTrie'
  BY <1>1, <1>2, <1>3 DEF SharedTrie, LockDiscipline, InFlight
<1>6. QED
  BY <1>4, <1>5

LEMMA NextKeepsInvariant ==
    TypeOK /\ SharedTrie /\ [Next]_vars => TypeOK' /\ SharedTrie'
<1> SUFFICES ASSUME TypeOK, SharedTrie, [Next]_vars
             PROVE  TypeOK' /\ SharedTrie'
  OBVIOUS
<1>1. CASE \E p \in Procs : Request(p) \/ Lock(p) \/ Step(p)
  BY <1>1, RequestKeepsInvariant, LockKeepsInvariant, FirstCheckKeepsInvariant,
     RecheckKeepsInvariant, DoGetKeepsInvariant, ReturnKeepsInvariant DEF Step
<1>2. CASE ChangeEpoch
  BY <1>2 DEF ChangeEpoch, TypeOK, SharedTrie, LockDiscipline, InFlight
<1>3. CASE UNCHANGED vars
  BY <1>3 DEF vars, TypeOK, SharedTrie, LockDiscipline, InFlight
<1>4. QED
  BY <1>1, <1>2, <1>3 DEF Next

\* Whoever is about to read finds the trie of its own root hash loaded: the lock
\* of accountsDBApiWithHistory is held where it must be.
THEOREM TrieIsShared == Spec => [](TypeOK /\ SharedTrie)
  BY InitInvariant, NextKeepsInvariant, PTL DEF Spec

----------------------------------------------------------------------------
(* Refinement *)

LEMMA InitRefines == Init => State!Init
  BY DEF Init, State!Init, Seen, Idle, State!NoCall

\* A query as its caller sees it.
SeenAs(c) ==
    [st |-> CASE c.pc = "idle" -> "idle"
              [] c.pc = "done" -> "answered"
              [] OTHER -> "asked",
     op |-> c.op, root |-> c.root, answer |-> c.answer, label |-> c.label]

LEMMA SeenForms ==
    ASSUME NEW c
    PROVE  /\ c.pc = "done" =>
              SeenAs(c) = [st |-> "answered", op |-> c.op, root |-> c.root,
                           answer |-> c.answer, label |-> c.label]
           /\ c.pc \notin {"idle", "done"} =>
              SeenAs(c) = [st |-> "asked", op |-> c.op, root |-> c.root,
                           answer |-> c.answer, label |-> c.label]
  BY DEF SeenAs

\* The caller of the query that moves sees the change, the others see none.
LEMMA SeenAfter ==
    ASSUME TypeOK, NEW p \in Procs, NEW c \in Queries,
           proc' = [proc EXCEPT ![p] = c]
    PROVE  Seen' = [Seen EXCEPT ![p] = SeenAs(c)]
<1>1. Seen = [q \in Procs |-> SeenAs(proc[q])]
  BY DEF Seen, SeenAs
<1>2. Seen' = [q \in Procs |-> SeenAs(proc'[q])]
  BY DEF Seen, SeenAs
<1>3. /\ proc'[p] = c
      /\ \A q \in Procs : q # p => proc'[q] = proc[q]
  BY OneQueryMoves
<1>4. QED
  BY <1>1, <1>2, <1>3

\* A step inside a query is no step to its caller.
LEMMA MoveIsHidden ==
    ASSUME TypeOK, NEW p \in Procs, NEW c \in Queries,
           proc' = [proc EXCEPT ![p] = c],
           proc[p].pc \notin {"idle", "done"}, c.pc \notin {"idle", "done"},
           c.op = proc[p].op, c.root = proc[p].root,
           c.answer = proc[p].answer, c.label = proc[p].label
    PROVE  Seen' = Seen
<1>1. SeenAs(c) = SeenAs(proc[p])
  BY DEF SeenAs
<1>2. Seen = [q \in Procs |-> SeenAs(proc[q])]
  BY DEF Seen, SeenAs
<1>3. QED
  BY <1>1, <1>2, SeenAfter

\* An answer that is truthful or an error is a step of HistoricalState.
LEMMA AnswerRefines ==
    ASSUME TypeOK, SharedTrie, NEW p \in Procs,
           NEW a \in {"found", "absent", "empty", "error"}, Answered(p, a),
           proc[p].pc \notin {"idle", "done"},
           a # "error" => a \in State!Truth(proc[p].op, proc[p].root)
    PROVE  State!Answer(p)
<1>1. PICK c \in Queries :
         /\ proc' = [proc EXCEPT ![p] = c]
         /\ c.pc = "done" /\ c.op = proc[p].op /\ c.root = proc[p].root
         /\ c.answer = a
         /\ c.label = IF a = "error" THEN NoRoot ELSE proc[p].root
  BY AnsweredQuery
<1>2. Seen' = [Seen EXCEPT ![p] = SeenAs(c)]
  BY <1>1, SeenAfter
<1>3. Seen = [q \in Procs |-> SeenAs(proc[q])]
  BY DEF Seen, SeenAs
<1>4. /\ Seen[p].st = "asked" /\ Seen[p].op = proc[p].op
      /\ Seen[p].root = proc[p].root
  BY <1>3 DEF SeenAs
<1>5. SeenAs(c) = [st |-> "answered", op |-> Seen[p].op, root |-> Seen[p].root,
                   answer |-> a, label |-> c.label]
  BY <1>1, <1>4, SeenForms
<1>6. State!Tell(p, a, c.label)
  BY <1>2, <1>5 DEF State!Tell
<1>7. CASE a = "error"
  BY <1>1, <1>4, <1>6, <1>7 DEF State!Answer
<1>8. CASE a # "error"
  BY <1>1, <1>4, <1>6, <1>8 DEF State!Answer
<1>9. QED
  BY <1>7, <1>8

LEMMA RequestRefines ==
    ASSUME TypeOK, SharedTrie, NEW p \in Procs, Request(p)
    PROVE  State!Ask(p)
<1>1. PICK op \in {"account", "code"}, r \in Roots :
         \E hint \in Hints(r) : GetWithBlockInfo(p, op, r, hint)
  BY DEF Request
<1>2. PICK hint \in Hints(r) : GetWithBlockInfo(p, op, r, hint)
  BY <1>1
<1>3. hint \in Nat \cup {NoHint}
  BY <1>2, HistoryAssumption DEF Hints
<1> DEFINE c == [Idle EXCEPT !.pc = "check", !.op = op, !.root = r, !.hint = hint]
<1>4. /\ c \in Queries
      /\ SeenAs(c) = [st |-> "asked", op |-> op, root |-> r, answer |-> "none",
                      label |-> NoRoot]
  <2>1. c \in Queries /\ c.pc = "check" /\ c.op = op /\ c.root = r
           /\ c.answer = "none" /\ c.label = NoRoot
    BY <1>3 DEF Idle, Queries
  <2> HIDE DEF c
  <2>2. QED
    BY <2>1, SeenForms
<1>5. proc' = [proc EXCEPT ![p] = c] /\ proc[p].pc = "idle"
  BY <1>2 DEF GetWithBlockInfo
<1> HIDE DEF c
<1>6. Seen' = [Seen EXCEPT ![p] = SeenAs(c)]
  BY <1>4, <1>5, SeenAfter
<1>7. Seen[p].st = "idle"
  BY <1>5 DEF Seen
<1>8. QED
  BY <1>4, <1>6, <1>7 DEF State!Ask

LEMMA FirstCheckRefines ==
    ASSUME TypeOK, SharedTrie, NEW p \in Procs, FirstCheck(p)
    PROVE  Seen' = Seen
<1>1. proc[p] \in Queries /\ proc[p].pc = "check"
  BY DEF TypeOK, FirstCheck
<1>2. CASE ShouldRecreateTrie(proc[p].root)
  <2> DEFINE c == [proc[p] EXCEPT !.pc = "lock"]
  <2>1. proc' = [proc EXCEPT ![p] = c]
    BY <1>2 DEF FirstCheck, TypeOK
  <2>2. c \in Queries /\ c.pc = "lock" /\ c.op = proc[p].op
          /\ c.root = proc[p].root /\ c.answer = proc[p].answer
          /\ c.label = proc[p].label
    BY <1>1 DEF Queries
  <2> HIDE DEF c
  <2>3. QED
    BY <1>1, <2>1, <2>2, MoveIsHidden
<1>3. CASE ~ ShouldRecreateTrie(proc[p].root)
  <2> DEFINE c == [proc[p] EXCEPT !.pc = "get", !.reused = TRUE]
  <2>1. proc' = [proc EXCEPT ![p] = c]
    BY <1>3 DEF FirstCheck, TypeOK
  <2>2. c \in Queries /\ c.pc = "get" /\ c.op = proc[p].op
          /\ c.root = proc[p].root /\ c.answer = proc[p].answer
          /\ c.label = proc[p].label
    BY <1>1 DEF Queries
  <2> HIDE DEF c
  <2>3. QED
    BY <1>1, <2>1, <2>2, MoveIsHidden
<1>4. QED
  BY <1>2, <1>3

LEMMA LockRefines ==
    ASSUME TypeOK, SharedTrie, NEW p \in Procs, Lock(p)
    PROVE  Seen' = Seen
<1> DEFINE c == [proc[p] EXCEPT !.pc = "recheck"]
<1>1. proc[p] \in Queries /\ proc[p].pc = "lock" /\ proc' = [proc EXCEPT ![p] = c]
  BY DEF TypeOK, Lock
<1>2. c \in Queries /\ c.pc = "recheck" /\ c.op = proc[p].op
        /\ c.root = proc[p].root /\ c.answer = proc[p].answer
        /\ c.label = proc[p].label
  BY <1>1 DEF Queries
<1> HIDE DEF c
<1>3. QED
  BY <1>1, <1>2, MoveIsHidden

LEMMA RecheckRefines ==
    ASSUME TypeOK, SharedTrie, NEW p \in Procs, Recheck(p)
    PROVE  Seen' = Seen \/ State!Answer(p)
<1> DEFINE new == Recreate(trie, proc[p].root, proc[p].hint, Active)
<1>1. proc[p] \in Queries /\ proc[p].pc = "recheck"
  BY DEF Recheck, TypeOK
<1>2. CASE ShouldRecreateTrie(proc[p].root) /\ new.err
  <2>1. Answered(p, "error")
    BY <1>2 DEF Recheck
  <2>2. QED
    BY <1>1, <2>1, AnswerRefines
<1>3. CASE ShouldRecreateTrie(proc[p].root) /\ ~ new.err
  <2> DEFINE c == [proc[p] EXCEPT !.pc = "got"]
  <2>1. proc' = [proc EXCEPT ![p] = c]
    BY <1>3 DEF Recheck, TypeOK
  <2>2. c \in Queries /\ c.pc = "got" /\ c.op = proc[p].op
          /\ c.root = proc[p].root /\ c.answer = proc[p].answer
          /\ c.label = proc[p].label
    BY <1>1 DEF Queries
  <2> HIDE DEF c
  <2>3. QED
    BY <1>1, <2>1, <2>2, MoveIsHidden
<1>4. CASE ~ ShouldRecreateTrie(proc[p].root)
  <2> DEFINE c == [proc[p] EXCEPT !.pc = "got", !.reused = TRUE]
  <2>1. proc' = [proc EXCEPT ![p] = c]
    BY <1>4 DEF Recheck, TypeOK
  <2>2. c \in Queries /\ c.pc = "got" /\ c.op = proc[p].op
          /\ c.root = proc[p].root /\ c.answer = proc[p].answer
          /\ c.label = proc[p].label
    BY <1>1 DEF Queries
  <2> HIDE DEF c
  <2>3. QED
    BY <1>1, <2>1, <2>2, MoveIsHidden
<1>5. QED
  BY <1>2, <1>3, <1>4

LEMMA DoGetRefines ==
    ASSUME TypeOK, SharedTrie, NEW p \in Procs, DoGet(p)
    PROVE  State!Answer(p)
<1> DEFINE a == IF proc[p].op = "account" THEN Lookup(trie, Active)
                                          ELSE LookupCode(trie, Active)
<1>1. proc[p].pc \in {"get", "got"} /\ Answered(p, a)
  BY DEF DoGet
<1>2. /\ proc[p].op \in {"account", "code"}
      /\ trie.root = proc[p].root
  BY <1>1, HistoryAssumption DEF SharedTrie, InFlight
<1>3. a \in {"found", "absent", "empty", "error"}
  BY LookupIsTruthful, LookupCodeIsTruthful
<1>4. a # "error" => a \in State!Truth(proc[p].op, proc[p].root)
  <2>1. CASE proc[p].op = "account"
    BY <1>2, <2>1, LookupIsTruthful
  <2>2. CASE proc[p].op = "code"
    BY <1>2, <2>2, LookupCodeIsTruthful
  <2>3. QED
    BY <1>2, <2>1, <2>2
<1> HIDE DEF a
<1>5. QED
  BY <1>1, <1>3, <1>4, AnswerRefines

LEMMA ReturnRefines ==
    ASSUME TypeOK, SharedTrie, NEW p \in Procs, Return(p)
    PROVE  State!Return(p)
<1>1. proc' = [proc EXCEPT ![p] = Idle] /\ proc[p].pc = "done"
  BY DEF Return
<1>2. Seen' = [Seen EXCEPT ![p] = SeenAs(Idle)]
  BY <1>1, IdleIsQuery, SeenAfter
<1>3. SeenAs(Idle) = State!NoCall
  BY DEF SeenAs, Idle, State!NoCall
<1>4. Seen[p].st = "answered"
  BY <1>1 DEF Seen
<1>5. QED
  BY <1>2, <1>3, <1>4 DEF State!Return

LEMMA NextRefines ==
    TypeOK /\ SharedTrie /\ [Next]_vars => [State!Next]_Seen
<1> SUFFICES ASSUME TypeOK, SharedTrie, [Next]_vars
             PROVE  State!Next \/ Seen' = Seen
  OBVIOUS
<1>1. CASE \E p \in Procs : Request(p) \/ Lock(p) \/ Step(p)
  BY <1>1, RequestRefines, LockRefines, FirstCheckRefines, RecheckRefines,
     DoGetRefines, ReturnRefines DEF Step, State!Next
<1>2. CASE ChangeEpoch
  BY <1>2 DEF ChangeEpoch, Seen
<1>3. CASE UNCHANGED vars
  BY <1>3 DEF vars, Seen
<1>4. QED
  BY <1>1, <1>2, <1>3 DEF Next

\* The adapter implements its promise: every answer is about the root hash that
\* was asked for, for any number of queries that share the trie.
THEOREM AnswersTruthfully == Spec => AnswersAreTruthful
<1>1. Spec => [](TypeOK /\ SharedTrie)
  BY TrieIsShared
<1>2. Spec => State!Spec
  BY <1>1, InitRefines, NextRefines, PTL DEF Spec, State!Spec
<1>3. QED
  BY <1>2 DEF AnswersAreTruthful
----------------------------------------------------------------------------
(* Reading what was recreated *)

\* What the DB of an epoch holds, the storage of that epoch finds: also where
\* the epoch is in the window, whose DBs are then searched together.
LEMMA EpochIsSearched ==
    ASSUME TypeOK, NEW e \in Nat
    PROVE  e \in GetFromEpoch(e, Active)
<1> DEFINE low == Max({0, epoch - NumActive + 1})
<1>1. epoch \in Nat /\ NumActive \in Nat \ {0}
  BY HistoryAssumption DEF TypeOK, HistoryAssumption
<1>2. low = IF 0 >= epoch - NumActive + 1 THEN 0 ELSE epoch - NumActive + 1
  BY <1>1, MaxOfTwo
<1>3. low \in 0 .. epoch /\ Active = low .. epoch
  BY <1>1, <1>2 DEF Active
<1> HIDE DEF low
<1>4. Active \subseteq 0 .. epoch /\ Active # {} /\ Active \subseteq Nat
  BY <1>1, <1>3
<1>5. Min(Active) \in Active /\ Max(Active) \in Active
  BY <1>1, <1>4, MinIsLeast, MaxIsGreatest
<1>6. Min(Active) <= e /\ e <= Max(Active) => e \in Active
  BY <1>1, <1>3, <1>5
<1> QED
  BY <1>6 DEF GetFromEpoch

LEMMA HintedIsSearched ==
    ASSUME TypeOK, NEW h \in Nat, NEW S, S \subseteq Nat, S \cap {h - 1, h} # {}
    PROVE  S \cap Searched(h, Active) # {}
<1>1. PICK x \in S : x \in {h - 1, h}
  OBVIOUS
<1>2. PICK i \in 0 .. 1 : i <= h /\ x = h - i
  <2>1. CASE x = h
    BY <2>1
  <2>2. CASE x = h - 1
    <3>1. 1 <= h
      BY <2>2
    <3> QED
      BY <2>2, <3>1
  <2> QED
    BY <1>1, <2>1, <2>2
<1>3. x \in GetFromEpoch(h - i, Active)
  BY <1>2, EpochIsSearched
<1>4. i \in {j \in 0 .. numEpochsToVerify - 1 : j <= h}
  BY <1>2 DEF numEpochsToVerify
<1>5. x \in GetInEpoch(h, Active)
  BY <1>3, <1>4, Zenon DEF GetInEpoch
<1>6. h # BaseStorage
  BY DEF BaseStorage
<1> QED
  BY <1>5, <1>6 DEF Searched

\* What is known of the query c while the trie t is loaded: its hint is an epoch
\* of a block with its root hash, or none; a query that recreated the trie itself
\* reads from the storage of that epoch; and it finds what it reads.
Owns(c, t) ==
    /\ c.pc # "idle" => c.hint \in Hints(c.root)
    /\ c.pc = "get" => c.reused
    /\ c.pc = "got" /\ ~ c.reused /\ c.hint # NoHint
          => c.root = EmptyRoot \/ t.storage = c.hint
    /\ c.pc = "done" /\ c.op = "account" /\ c.hint # NoHint /\ ~ c.reused
          => c.answer # "error"

Owned == \A p \in Procs : Owns(proc[p], trie)

LEMMA OwnedInit == Init => Owned
  BY DEF Init, Owned, Owns, Idle

\* The hint of a query by block names an epoch that holds the nodes of its root.
LEMMA HintFacts ==
    ASSUME NEW r \in Roots \ {EmptyRoot}, NEW h \in Hints(r), h # NoHint
    PROVE  /\ h \in Nat
           /\ RootNodeIn[r] \subseteq Nat /\ LeafIn[r] \subseteq Nat
           /\ RootNodeIn[r] \cap {h - 1, h} # {}
           /\ LeafIn[r] \cap {h - 1, h} # {}
<1>1. h \in HeaderEpochs[r]
  BY DEF Hints
<1>2. RootNodeIn[r] \subseteq Nat /\ LeafIn[r] \subseteq Nat
  BY TrieAssumption DEF TrieAssumption
<1>3. HeaderEpochs[r] \subseteq Nat
  BY HistoryAssumption DEF HistoryAssumption
<1>4. RootNodeIn[r] \cap {h - 1, h} # {} /\ LeafIn[r] \cap {h - 1, h} # {}
  BY <1>1, HistoryAssumption DEF HistoryAssumption
<1> QED
  BY <1>1, <1>2, <1>3, <1>4

LEMMA OneQueryOwns ==
    ASSUME TypeOK, Owned, NEW p \in Procs, NEW c, proc' = [proc EXCEPT ![p] = c],
           Owns(c, trie'),
           trie' = trie \/ \A q \in Procs : q # p => proc[q].pc # "got"
    PROVE  Owned'
<1>1. proc'[p] = c /\ \A q \in Procs : q # p => proc'[q] = proc[q]
  BY DEF TypeOK
<1> QED
  BY <1>1 DEF Owned, Owns

LEMMA RecheckOwns ==
    ASSUME TypeOK, SharedTrie, Owned, NEW p \in Procs, Recheck(p)
    PROVE  Owned'
<1> DEFINE new == Recreate(trie, proc[p].root, proc[p].hint, Active)
<1>1. /\ proc[p] \in Queries /\ proc[p].pc = "recheck" /\ HoldsLock(mutex, p)
      /\ Owns(proc[p], trie)
  BY DEF Recheck, TypeOK, Owned
<1>2. \A q \in Procs : q # p => proc[q].pc # "got"
  BY <1>1 DEF SharedTrie, LockDiscipline, HoldsLock
<1>3. proc[p].root \in Roots
  BY <1>1 DEF SharedTrie, InFlight
<1>4. CASE latest = proc[p].root
  <2> DEFINE c == [proc[p] EXCEPT !.pc = "got", !.reused = TRUE]
  <2>1. proc' = [proc EXCEPT ![p] = c] /\ trie' = trie
    BY <1>4 DEF Recheck, ShouldRecreateTrie, TypeOK
  <2>2. c.pc = "got" /\ c.reused /\ c.hint = proc[p].hint /\ c.root = proc[p].root
    BY <1>1 DEF Queries
  <2> HIDE DEF c
  <2>3. Owns(c, trie')
    BY <1>1, <2>2 DEF Owns
  <2> QED
    BY <2>1, <2>3, OneQueryOwns
<1>5. ASSUME proc[p].hint # NoHint
      PROVE  /\ ~ new.err
             /\ proc[p].root = EmptyRoot \/ new.trie.storage = proc[p].hint
  <2>1. CASE proc[p].root = EmptyRoot
    BY <2>1 DEF Recreate
  <2>2. CASE proc[p].root # EmptyRoot
    <3>1. proc[p].hint \in Hints(proc[p].root)
      BY <1>1 DEF Owns
    <3>2. /\ proc[p].hint \in Nat /\ RootNodeIn[proc[p].root] \subseteq Nat
          /\ RootNodeIn[proc[p].root] \cap {proc[p].hint - 1, proc[p].hint} # {}
      BY <1>3, <1>5, <2>2, <3>1, HintFacts
    <3>3. RootNodeIn[proc[p].root] \cap Searched(proc[p].hint, Active) # {}
      BY <3>2, HintedIsSearched
    <3>4. new = [err |-> FALSE, trie |-> [root |-> proc[p].root, storage |-> proc[p].hint]]
      BY <1>5, <2>2, <3>3 DEF Recreate
    <3> QED
      BY <3>4
  <2> QED
    BY <2>1, <2>2
<1> HIDE DEF new
<1>6. CASE latest # proc[p].root /\ ~ new.err
  <2> DEFINE c == [proc[p] EXCEPT !.pc = "got"]
  <2>1. proc' = [proc EXCEPT ![p] = c] /\ trie' = new.trie
    BY <1>6 DEF Recheck, ShouldRecreateTrie, new, TypeOK
  <2>2. c.pc = "got" /\ c.hint = proc[p].hint /\ c.root = proc[p].root
    BY <1>1 DEF Queries
  <2> HIDE DEF c
  <2>3. Owns(c, trie')
    BY <1>1, <1>5, <2>1, <2>2 DEF Owns
  <2> QED
    BY <1>2, <2>1, <2>3, OneQueryOwns
<1>7. CASE latest # proc[p].root /\ new.err
  <2> DEFINE c == [proc[p] EXCEPT !.pc = "done", !.answer = "error", !.label = NoRoot]
  <2>1. proc' = [proc EXCEPT ![p] = c]
    BY <1>7 DEF Recheck, ShouldRecreateTrie, new, Answered, TypeOK
  <2>2. c.pc = "done" /\ c.hint = proc[p].hint /\ c.root = proc[p].root
    BY <1>1 DEF Queries
  <2> HIDE DEF c
  <2>3. Owns(c, trie')
    BY <1>1, <1>5, <1>7, <2>2 DEF Owns
  <2> QED
    BY <1>2, <2>1, <2>3, OneQueryOwns
<1> QED
  BY <1>4, <1>6, <1>7

LEMMA DoGetOwns ==
    ASSUME TypeOK, SharedTrie, Owned, NEW p \in Procs, DoGet(p)
    PROVE  Owned'
<1> DEFINE a == IF proc[p].op = "account" THEN Lookup(trie, Active)
                                          ELSE LookupCode(trie, Active)
           c == [proc[p] EXCEPT !.pc = "done", !.answer = a,
                                !.label = IF a = "error" THEN NoRoot ELSE proc[p].root]
<1>1. /\ proc[p] \in Queries /\ proc[p].pc \in {"get", "got"} /\ Owns(proc[p], trie)
      /\ trie' = trie
  BY DEF DoGet, TypeOK, Owned
<1>2. proc[p].root \in Roots /\ trie.root = proc[p].root
  BY <1>1, HistoryAssumption DEF SharedTrie, InFlight, HistoryAssumption
<1>3. proc' = [proc EXCEPT ![p] = c]
  BY DEF DoGet, Answered, TypeOK
<1>4. /\ c.pc = "done" /\ c.hint = proc[p].hint /\ c.root = proc[p].root
      /\ c.op = proc[p].op /\ c.reused = proc[p].reused /\ c.answer = a
  BY <1>1 DEF Queries
<1>5. ASSUME proc[p].op = "account", proc[p].hint # NoHint, ~ proc[p].reused
      PROVE  a # "error"
  <2>1. proc[p].root = EmptyRoot \/ trie.storage = proc[p].hint
    BY <1>1, <1>5 DEF Owns
  <2>2. CASE proc[p].root = EmptyRoot
    BY <1>2, <1>5, <2>2 DEF Lookup
  <2>3. CASE proc[p].root # EmptyRoot
    <3>1. proc[p].hint \in Hints(proc[p].root)
      BY <1>1 DEF Owns
    <3>2. /\ proc[p].hint \in Nat /\ LeafIn[proc[p].root] \subseteq Nat
          /\ LeafIn[proc[p].root] \cap {proc[p].hint - 1, proc[p].hint} # {}
      BY <1>2, <1>5, <2>3, <3>1, HintFacts
    <3>3. LeafIn[proc[p].root] \cap Searched(proc[p].hint, Active) # {}
      BY <3>2, HintedIsSearched
    <3> QED
      BY <1>2, <1>5, <2>1, <2>3, <3>3 DEF Lookup
  <2> QED
    BY <2>2, <2>3
<1> HIDE DEF a, c
<1>6. Owns(c, trie')
  BY <1>1, <1>4, <1>5 DEF Owns
<1> QED
  BY <1>1, <1>3, <1>6, OneQueryOwns

LEMMA OwnedNext ==
    ASSUME TypeOK, SharedTrie, Owned, [Next]_vars
    PROVE  Owned'
<1>1. ASSUME NEW p \in Procs, Request(p)
      PROVE  Owned'
  <2>1. PICK op \in {"account", "code"}, r \in Roots :
           \E h \in Hints(r) : GetWithBlockInfo(p, op, r, h)
    BY <1>1 DEF Request
  <2>0. PICK h \in Hints(r) : GetWithBlockInfo(p, op, r, h)
    BY <2>1
  <2> DEFINE c == [Idle EXCEPT !.pc = "check", !.op = op, !.root = r, !.hint = h]
  <2>2. proc' = [proc EXCEPT ![p] = c] /\ trie' = trie
    BY <2>0 DEF GetWithBlockInfo
  <2>3. c.pc = "check" /\ c.root = r /\ c.hint = h
    BY DEF Idle
  <2> HIDE DEF c
  <2>4. Owns(c, trie')
    BY <2>3 DEF Owns
  <2> QED
    BY <2>2, <2>4, OneQueryOwns
<1>2. ASSUME NEW p \in Procs, FirstCheck(p) \/ Lock(p)
      PROVE  Owned'
  <2>1. /\ proc[p] \in Queries /\ trie' = trie /\ Owns(proc[p], trie)
        /\ proc[p].pc # "idle"
    BY <1>2 DEF FirstCheck, Lock, TypeOK, Owned
  <2>2. PICK c : /\ proc' = [proc EXCEPT ![p] = c]
                 /\ c.root = proc[p].root /\ c.hint = proc[p].hint
                 /\ \/ c.pc \in {"lock", "recheck"}
                    \/ c.pc = "get" /\ c.reused
    <3>1. CASE proc' = [proc EXCEPT ![p].pc = "get", ![p].reused = TRUE]
      <4> DEFINE d == [proc[p] EXCEPT !.pc = "get", !.reused = TRUE]
      <4>1. proc' = [proc EXCEPT ![p] = d]
        BY <3>1 DEF TypeOK
      <4>2. d.root = proc[p].root /\ d.hint = proc[p].hint /\ d.pc = "get" /\ d.reused
        BY <2>1 DEF Queries
      <4> HIDE DEF d
      <4> QED
        BY <4>1, <4>2
    <3>2. ASSUME NEW pc \in {"lock", "recheck"}, proc' = [proc EXCEPT ![p].pc = pc]
          PROVE  \E c : /\ proc' = [proc EXCEPT ![p] = c]
                        /\ c.root = proc[p].root /\ c.hint = proc[p].hint
                        /\ c.pc \in {"lock", "recheck"}
      <4> DEFINE d == [proc[p] EXCEPT !.pc = pc]
      <4>1. proc' = [proc EXCEPT ![p] = d]
        BY <3>2 DEF TypeOK
      <4>2. d.root = proc[p].root /\ d.hint = proc[p].hint /\ d.pc = pc
        BY <2>1 DEF Queries
      <4> HIDE DEF d
      <4> QED
        BY <4>1, <4>2
    <3>3. \/ proc' = [proc EXCEPT ![p].pc = "get", ![p].reused = TRUE]
          \/ proc' = [proc EXCEPT ![p].pc = "lock"]
          \/ proc' = [proc EXCEPT ![p].pc = "recheck"]
      BY <1>2 DEF FirstCheck, Lock
    <3> QED
      BY <3>1, <3>2, <3>3
  <2>3. Owns(c, trie')
    BY <2>1, <2>2 DEF Owns
  <2> QED
    BY <2>1, <2>2, <2>3, OneQueryOwns
<1>3. ASSUME NEW p \in Procs, Return(p)
      PROVE  Owned'
  <2>1. proc' = [proc EXCEPT ![p] = Idle] /\ trie' = trie
    BY <1>3 DEF Return
  <2>2. Owns(Idle, trie')
    BY DEF Owns, Idle
  <2> QED
    BY <2>1, <2>2, OneQueryOwns
<1>4. CASE ChangeEpoch \/ UNCHANGED vars
  BY <1>4 DEF ChangeEpoch, vars, Owned
<1> QED
  BY <1>1, <1>2, <1>3, <1>4, RecheckOwns, DoGetOwns DEF Next, Step

\* A query by block that recreates the trie itself finds the account, for every
\* history whose nodes lie in the epoch of the block or the one before, any number
\* of queries and epoch changes, and any window of open DBs: from its recreation
\* to its read nobody else may load another trie or storage.
THEOREM RecreatedIsRead == Spec => []RecreatedIsReadable
<1>1. TypeOK /\ SharedTrie /\ Owned /\ [Next]_vars => Owned'
  BY OwnedNext
<1>2. Owned => RecreatedIsReadable
  BY DEF Owned, Owns, RecreatedIsReadable
<1> QED
  BY <1>1, <1>2, OwnedInit, TrieIsShared, PTL DEF Spec
============================================================================
