------------------------------ MODULE RWMutex ------------------------------
(***************************************************************************)
(* sync.RWMutex of the Go library, as the API adapters of state/ use it.   *)
(* A mutex is a record: the calls that hold it for reading, the one that   *)
(* announced itself as writer, and the readers that came after it.  The    *)
(* writer owns the mutex once the readers before it are gone; its Unlock   *)
(* lets in every reader it kept waiting.                                   *)
(***************************************************************************)
CONSTANTS Procs, NoProc

ASSUME MutexAssumption == NoProc \notin Procs

Mutexes == [readers : SUBSET Procs, writer : Procs \cup {NoProc},
            parked : SUBSET Procs]

Unlocked == [readers |-> {}, writer |-> NoProc, parked |-> {}]

\* RLock returns at once, or leaves the call parked.
RLock(m, p) ==
    IF m.writer = NoProc THEN [m EXCEPT !.readers = @ \cup {p}]
                         ELSE [m EXCEPT !.parked = @ \cup {p}]

HoldsRLock(m, p) == p \in m.readers

RUnlock(m, p) == [m EXCEPT !.readers = @ \ {p}]

\* Lock: one writer at a time announces itself ...
CanAnnounce(m) == m.writer = NoProc

Announce(m, p) == [m EXCEPT !.writer = p]

\* ... and returns when the last reader has left.
HoldsLock(m, p) == m.writer = p /\ m.readers = {}

Unlock(m) == [readers |-> m.readers \cup m.parked, writer |-> NoProc,
              parked |-> {}]
============================================================================
