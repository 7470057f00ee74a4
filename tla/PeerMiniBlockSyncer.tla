------------------------ MODULE PeerMiniBlockSyncer ------------------------
(***************************************************************************)
(* The synchronisation of what the header of an epoch start refers to      *)
(* (epochStart/shardchain/peerMiniBlocksSyncer.go), which the trigger      *)
(* calls under its lock, for one epoch start header after the other.       *)
(*                                                                         *)
(* The syncer is twice the same machine, once for the peer miniblocks of a *)
(* header and once for the validators info these list: a map of what is    *)
(* needed, a counter of what is missing and an unbuffered channel, made    *)
(* anew for every call.  The pool calls the receiving method in a          *)
(* goroutine of its own for every item added to it.  The goroutine that    *)
(* brings the counter to zero sends on the channel, after it released the  *)
(* lock: it blocks until somebody receives from that very channel.  Which  *)
(* channel that is depends on when it reads the field, which no lock       *)
(* protects.                                                               *)
(***************************************************************************)
EXTENDS Integers, FiniteSets

CONSTANTS
  Items,     \* hashes of the peer miniblocks (or of the validators info)
  Headers,   \* epoch start headers
  PeerItems, \* PeerItems[h]: the items header h needs
  MaxSyncs   \* bound on the number of calls

ASSUME SyncerAssumption ==
  /\ IsFiniteSet(Items)
  /\ PeerItems \in [Headers -> SUBSET Items]
  /\ MaxSyncs \in Nat

VARIABLES
  pool,        \* the items in the pool
  received,    \* received[i]: the goroutine that handles the arrival of i
  mapAll,      \* what the call needs: "none" is no entry, "nil" a missing item
  numMissing,
  channel,     \* the channel of the last call, numbered by the calls
  pc,          \* where the call is
  header,      \* its header
  answer,      \* what the last call returned: its error and the items it has
  late         \* history: a send was overdue when the last call began

vars == <<pool, received, mapAll, numMissing, channel, pc, header, answer, late>>

Missing == {i \in Items : mapAll[i] = "nil"}

TypeOK ==
  /\ pool \subseteq Items
  /\ received \in [Items -> [at : {"none", "called", "sending", "blocked", "done"},
                             on : 0 .. MaxSyncs]]
  /\ mapAll \in [Items -> {"none", "nil", "have"}]
  /\ numMissing \in 0 .. Cardinality(Items)
  /\ channel \in 0 .. MaxSyncs
  /\ pc \in {"idle", "compute", "retrieve", "wait", "timeout", "got"}
  /\ header \in Headers
  /\ answer \in [error : BOOLEAN, items : SUBSET Items]
  /\ late \in BOOLEAN

Init ==
  /\ pool = {}
  /\ received = [i \in Items |-> [at |-> "none", on |-> 0]]
  /\ mapAll = [i \in Items |-> "none"]
  /\ numMissing = 0
  /\ channel = 0
  /\ pc = "idle"
  /\ header \in Headers
  /\ answer = [error |-> FALSE, items |-> PeerItems[header]]
  /\ late = FALSE

---------------------------------------------------------------------------
(* A call: SyncMiniBlocks(h), or SyncValidatorsInfo of its body.           *)

\* initMiniBlocks: an empty map and a new channel.
SyncMiniBlocks(h) ==
  /\ pc = "idle" /\ channel < MaxSyncs
  /\ header' = h
  /\ mapAll' = [i \in Items |-> "none"]
  /\ channel' = channel + 1
  /\ pc' = "compute"
  /\ late' = \E i \in Items : received[i].at = "sending"
  /\ UNCHANGED <<pool, received, numMissing, answer>>

\* Mutant: the counter is left to retrieveMissingMiniBlocks.
CountedLater(h) == 0

NumMissing(h) == Cardinality(PeerItems[h] \ pool)

ComputeMissing ==
  /\ pc = "compute"
  /\ mapAll' = [i \in Items |-> IF i \notin PeerItems[header] THEN "none"
                                ELSE IF i \in pool THEN "have" ELSE "nil"]
  /\ numMissing' = NumMissing(header)
  /\ pc' = "retrieve"
  /\ UNCHANGED <<pool, received, channel, header, answer, late>>

\* With something missing the call requests it and waits on the channel.
RetrieveMissing ==
  /\ pc = "retrieve"
  /\ numMissing' = Cardinality(Missing)
  /\ pc' = IF Missing = {} THEN "got" ELSE "wait"
  /\ UNCHANGED <<pool, received, mapAll, channel, header, answer, late>>

\* A sender and the waiting call meet on the channel of the call.
ReceiveAll(i) ==
  /\ pc = "wait"
  /\ received[i] = [at |-> "blocked", on |-> channel]
  /\ received' = [received EXCEPT ![i].at = "done"]
  /\ pc' = "got"
  /\ UNCHANGED <<pool, mapAll, numMissing, channel, header, answer, late>>

\* getAllPeerMiniBlocks; an entry that is still nil is a nil miniblock.
ReturnBody ==
  /\ pc = "got"
  /\ answer' = [error |-> FALSE,
                items |-> {i \in PeerItems[header] : mapAll[i] = "have"}]
  /\ pc' = "idle"
  /\ UNCHANGED <<pool, received, mapAll, numMissing, channel, header, late>>

TimeOut ==
  /\ pc = "wait"
  /\ pc' = "timeout"
  /\ UNCHANGED <<pool, received, mapAll, numMissing, channel, header, answer, late>>

\* The list of what is missing is computed after the time ran out.
ReturnMissing ==
  /\ pc = "timeout"
  /\ answer' = [error |-> TRUE, items |-> Missing]
  /\ pc' = "idle"
  /\ UNCHANGED <<pool, received, mapAll, numMissing, channel, header, late>>

---------------------------------------------------------------------------
(* The arrival of an item and the goroutine that handles it.               *)

Arrive(i) ==
  /\ i \notin pool
  /\ pool' = pool \cup {i}
  /\ received' = [received EXCEPT ![i].at = "called"]
  /\ UNCHANGED <<mapAll, numMissing, channel, pc, header, answer, late>>

\* Mutants: the counter is compared before it is decremented, or too soon.
ComparedBefore(num) == num = 0
SignalsEarly(num) == num - 1 <= 1

IsLastMissing(num) == num - 1 = 0

\* receivedMiniBlock, up to the release of the lock.
ReceivedMiniBlock(i) ==
  /\ received[i].at = "called"
  /\ \/ /\ mapAll[i] # "nil"
        /\ received' = [received EXCEPT ![i].at = "done"]
        /\ UNCHANGED <<mapAll, numMissing>>
     \/ /\ mapAll[i] = "nil"
        /\ mapAll' = [mapAll EXCEPT ![i] = "have"]
        /\ numMissing' = numMissing - 1
        /\ received' = [received EXCEPT
                          ![i].at = IF IsLastMissing(numMissing) THEN "sending" ELSE "done"]
  /\ UNCHANGED <<pool, channel, pc, header, answer, late>>

\* The send: the goroutine reads the field and blocks on the channel in it.
SendAll(i) ==
  /\ received[i].at = "sending"
  /\ received' = [received EXCEPT ![i] = [at |-> "blocked", on |-> channel]]
  /\ UNCHANGED <<pool, mapAll, numMissing, channel, pc, header, answer, late>>

---------------------------------------------------------------------------
Next ==
  \/ \E h \in Headers : SyncMiniBlocks(h)
  \/ ComputeMissing \/ RetrieveMissing \/ ReturnBody
  \/ TimeOut \/ ReturnMissing
  \/ \E i \in Items : ReceiveAll(i) \/ Arrive(i) \/ ReceivedMiniBlock(i) \/ SendAll(i)

Spec == Init /\ [][Next]_vars

---------------------------------------------------------------------------
(* The counter is the number of the missing entries of the map, also while *)
(* late answers to an earlier call arrive: computeMissingPeerBlocks,       *)
(* retrieveMissingMiniBlocks and receivedMiniBlock update the two together *)
(* and the counter, an unsigned number, never drops below zero.            *)
NumMissingIsExact ==
  pc # "compute" => numMissing = Cardinality(Missing)

(* No wake-up is lost: when the last missing item arrived while the call   *)
(* waits, a goroutine is sending, or is about to send, on the channel of   *)
(* the call, whatever earlier calls left behind.                           *)
WakeUpIsPending ==
  pc = "wait" /\ Missing = {} =>
    \E i \in Items : \/ received[i].at = "sending"
                     \/ received[i] = [at |-> "blocked", on |-> channel]

(* A call that returns no error has every item its header needs, and one   *)
(* that lacks an item returns ErrTimeIsOut, although items of earlier      *)
(* calls arrive late and their senders stay blocked on abandoned channels. *)
(* The one exception is a goroutine that had taken the last item of an     *)
(* earlier call, and had not yet read the field, when this call replaced   *)
(* the channel: it wakes this call too soon (receivedMiniBlock).           *)
SyncedIsComplete ==
  pc = "idle" /\ ~answer.error /\ ~late => answer.items = PeerItems[header]
============================================================================
