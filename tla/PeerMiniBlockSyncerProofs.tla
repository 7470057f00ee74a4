--------------------- MODULE PeerMiniBlockSyncerProofs ---------------------
(***************************************************************************)
(* The syncer of peer miniblocks counts what it misses exactly, loses no   *)
(* wake-up and returns complete bodies, for any number of items, headers   *)
(* and calls.                                                              *)
(***************************************************************************)
EXTENDS PeerMiniBlockSyncer, FiniteSetTheorems, TLAPS

----------------------------------------------------------------------------
(* The inductive invariant *)

\* Every item arrives once, and is not missing once its goroutine took the lock.
ArrivesOnce ==
    \A i \in Items : /\ i \in pool <=> received[i].at # "none"
                     /\ mapAll[i] = "nil" => received[i].at \in {"none", "called"}

\* From the call of computeMissingPeerBlocks on, the map has the items of the header.
MapIsOfHeader ==
    /\ pc = "compute" => \A i \in Items : mapAll[i] = "none"
    /\ pc \in {"retrieve", "wait", "timeout", "got"}
          => \A i \in Items : mapAll[i] = "none" <=> i \notin PeerItems[header]

\* Goroutine i is about to wake the current call.
Wakes(i) == \/ received[i].at = "sending"
            \/ received[i].at = "blocked" /\ received[i].on = channel

\* No goroutine blocks on a channel that is not made yet.  Unless a send was overdue
\* when it began, only who took the last missing item wakes the call.
OnlyLastWakes ==
    /\ \A i \in Items : received[i].on <= channel
    /\ pc # "idle" /\ ~late =>
          /\ \A i \in Items : Wakes(i) => pc # "compute" /\ Missing = {}
          /\ pc = "got" => Missing = {}

IInv == /\ TypeOK /\ ArrivesOnce /\ MapIsOfHeader /\ OnlyLastWakes
        /\ NumMissingIsExact /\ WakeUpIsPending /\ SyncedIsComplete

----------------------------------------------------------------------------
(* Facts about the state *)

\* The items are finitely many, so the missing ones can be counted.
LEMMA Countable ==
    ASSUME NEW S \in SUBSET Items
    PROVE  /\ IsFiniteSet(S)
           /\ Cardinality(S) \in 0 .. Cardinality(Items)
           /\ Cardinality(S) = 0 <=> S = {}
<1>1. IsFiniteSet(Items)
  BY SyncerAssumption
<1>2. IsFiniteSet(S) /\ Cardinality(S) <= Cardinality(Items)
  BY <1>1, FS_Subset
<1>3. Cardinality(S) \in Nat /\ Cardinality(Items) \in Nat
  BY <1>1, <1>2, FS_CardinalityType
<1>4. Cardinality(S) = 0 <=> S = {}
  BY <1>2, FS_EmptySet
<1>5. QED
  BY <1>2, <1>3, <1>4

\* One goroutine moves to another place and the others stay where they are.
LEMMA OneGoroutineMoves ==
    ASSUME TypeOK, NEW i \in Items,
           NEW at \in {"none", "called", "sending", "blocked", "done"},
           received' = [received EXCEPT ![i].at = at]
    PROVE  /\ received' \in [Items -> [at : {"none", "called", "sending", "blocked", "done"},
                                       on : 0 .. MaxSyncs]]
           /\ received'[i].at = at /\ received'[i].on = received[i].on
           /\ \A j \in Items : j # i => received'[j] = received[j]
  BY DEF TypeOK

\* Nothing else changes the number of missing items.
LEMMA MissingUnchanged ==
    ASSUME mapAll' = mapAll
    PROVE  Missing' = Missing
  BY DEF Missing

----------------------------------------------------------------------------
(* The actions preserve the invariant *)

LEMMA InitIInv == Init => IInv
<1> SUFFICES ASSUME Init PROVE IInv
  OBVIOUS
<1>1. Missing = {}
  BY DEF Missing, Init
<1>2. Cardinality(Missing) = 0 /\ 0 \in 0 .. Cardinality(Items)
  BY <1>1, Countable
<1>3. TypeOK
  <2>1. answer \in [error : BOOLEAN, items : SUBSET Items]
    BY SyncerAssumption DEF Init
  <2>2. received \in [Items -> [at : {"none", "called", "sending", "blocked", "done"},
                                on : 0 .. MaxSyncs]]
    BY SyncerAssumption DEF Init
  <2>3. mapAll \in [Items -> {"none", "nil", "have"}] /\ channel \in 0 .. MaxSyncs
    BY SyncerAssumption DEF Init
  <2>4. late \in BOOLEAN /\ numMissing \in 0 .. Cardinality(Items)
    BY <1>2 DEF Init
  <2>5. QED
    BY <2>1, <2>2, <2>3, <2>4 DEF Init, TypeOK
<1>4. ArrivesOnce /\ MapIsOfHeader /\ OnlyLastWakes
  BY SyncerAssumption DEF Init, ArrivesOnce, MapIsOfHeader, OnlyLastWakes
<1>5. NumMissingIsExact /\ WakeUpIsPending /\ SyncedIsComplete
  BY <1>2 DEF Init, NumMissingIsExact, WakeUpIsPending, SyncedIsComplete
<1>6. QED
  BY <1>3, <1>4, <1>5 DEF IInv

\* A call begins: the map is empty and the channel is one nobody blocks on.
LEMMA SyncMiniBlocksIInv ==
    ASSUME IInv, NEW h \in Headers, SyncMiniBlocks(h)
    PROVE  IInv'
<1> USE DEF IInv
<1>1. TypeOK'
  BY SyncerAssumption DEF TypeOK, SyncMiniBlocks
<1>2. ArrivesOnce' /\ MapIsOfHeader'
  BY DEF ArrivesOnce, MapIsOfHeader, SyncMiniBlocks
<1>3. OnlyLastWakes'
  <2>1. \A i \in Items : received'[i].on < channel'
    BY SyncerAssumption DEF OnlyLastWakes, TypeOK, SyncMiniBlocks
  <2>2. ASSUME ~late', NEW i \in Items PROVE ~Wakes(i)'
    <3>1. received'[i].at # "sending"
      BY <2>2 DEF SyncMiniBlocks
    <3>2. received'[i].on # channel'
      BY <2>1, <1>1 DEF TypeOK
    <3>3. QED
      BY <3>1, <3>2 DEF Wakes
  <2>3. \A i \in Items : received'[i].on <= channel'
    BY <2>1, <1>1 DEF TypeOK
  <2>4. pc' = "compute"
    BY DEF SyncMiniBlocks
  <2>5. QED
    BY <2>2, <2>3, <2>4 DEF OnlyLastWakes
<1>4. NumMissingIsExact' /\ WakeUpIsPending' /\ SyncedIsComplete'
  BY DEF NumMissingIsExact, WakeUpIsPending, SyncedIsComplete, SyncMiniBlocks
<1>5. QED
  BY <1>1, <1>2, <1>3, <1>4

\* The map and its counter are set together from what is in the pool.
LEMMA ComputeMissingIInv ==
    ASSUME IInv, ComputeMissing
    PROVE  IInv'
<1> USE DEF IInv
<1>1. Missing' = PeerItems[header] \ pool
  BY SyncerAssumption DEF Missing, ComputeMissing, TypeOK
<1>2. numMissing' = Cardinality(Missing') /\ numMissing' \in 0 .. Cardinality(Items)
  BY <1>1, Countable, SyncerAssumption DEF ComputeMissing, NumMissing, TypeOK
<1>3. TypeOK'
  BY <1>2 DEF TypeOK, ComputeMissing
<1>4. ArrivesOnce' /\ MapIsOfHeader'
  BY DEF ArrivesOnce, MapIsOfHeader, ComputeMissing
<1>5. OnlyLastWakes'
  BY DEF OnlyLastWakes, Wakes, ComputeMissing
<1>6. NumMissingIsExact' /\ WakeUpIsPending' /\ SyncedIsComplete'
  BY <1>2 DEF NumMissingIsExact, WakeUpIsPending, SyncedIsComplete, ComputeMissing
<1>7. QED
  BY <1>3, <1>4, <1>5, <1>6

\* The call waits only for something.
LEMMA RetrieveMissingIInv ==
    ASSUME IInv, RetrieveMissing
    PROVE  IInv'
<1> USE DEF IInv
<1>1. Missing' = Missing
  BY MissingUnchanged DEF RetrieveMissing
<1>2. numMissing' = Cardinality(Missing') /\ numMissing' \in 0 .. Cardinality(Items)
  <2>1. Missing \in SUBSET Items
    BY DEF Missing
  <2>2. QED
    BY <1>1, <2>1, Countable DEF RetrieveMissing
<1>3. TypeOK'
  BY <1>2 DEF TypeOK, RetrieveMissing
<1>4. ArrivesOnce' /\ MapIsOfHeader'
  BY DEF ArrivesOnce, MapIsOfHeader, RetrieveMissing
<1>5. OnlyLastWakes'
  BY <1>1 DEF OnlyLastWakes, Wakes, RetrieveMissing
<1>6. NumMissingIsExact' /\ WakeUpIsPending' /\ SyncedIsComplete'
  BY <1>1, <1>2 DEF NumMissingIsExact, WakeUpIsPending, SyncedIsComplete, RetrieveMissing
<1>7. QED
  BY <1>3, <1>4, <1>5, <1>6

\* Who meets the call on its channel had taken the last item.
LEMMA ReceiveAllIInv ==
    ASSUME IInv, NEW i \in Items, ReceiveAll(i)
    PROVE  IInv'
<1> USE DEF IInv
<1>1. Missing' = Missing
  BY MissingUnchanged DEF ReceiveAll
<1>2. /\ received' \in [Items -> [at : {"none", "called", "sending", "blocked", "done"},
                                  on : 0 .. MaxSyncs]]
      /\ received'[i].at = "done" /\ received'[i].on = received[i].on
      /\ \A j \in Items : j # i => received'[j] = received[j]
  BY OneGoroutineMoves DEF ReceiveAll
<1>3. TypeOK'
  BY <1>2 DEF TypeOK, ReceiveAll
<1>4. Wakes(i) /\ received[i].at = "blocked"
  BY DEF ReceiveAll, Wakes
<1>5. ArrivesOnce'
  BY <1>2, <1>4 DEF ArrivesOnce, ReceiveAll
<1>6. MapIsOfHeader'
  BY DEF MapIsOfHeader, ReceiveAll
<1>7. OnlyLastWakes'
  <2>1. \A j \in Items : received'[j].on <= channel'
    BY <1>2 DEF OnlyLastWakes, ReceiveAll
  <2>2. ~late => Missing = {}
    BY <1>4 DEF OnlyLastWakes, ReceiveAll
  <2>3. QED
    BY <1>1, <2>1, <2>2 DEF OnlyLastWakes, ReceiveAll
<1>8. NumMissingIsExact' /\ WakeUpIsPending' /\ SyncedIsComplete'
  BY <1>1 DEF NumMissingIsExact, WakeUpIsPending, SyncedIsComplete, ReceiveAll
<1>9. QED
  BY <1>3, <1>5, <1>6, <1>7, <1>8

\* The items of the answer are all the items of the header when none is missing.
LEMMA ReturnBodyIInv ==
    ASSUME IInv, ReturnBody
    PROVE  IInv'
<1> USE DEF IInv
<1>1. Missing' = Missing
  BY MissingUnchanged DEF ReturnBody
<1>2. {i \in PeerItems[header] : mapAll[i] = "have"} \in SUBSET Items
  BY SyncerAssumption DEF TypeOK
<1>3. TypeOK'
  BY <1>2 DEF TypeOK, ReturnBody
<1>4. ArrivesOnce' /\ MapIsOfHeader' /\ OnlyLastWakes'
  BY DEF ArrivesOnce, MapIsOfHeader, OnlyLastWakes, ReturnBody
<1>5. NumMissingIsExact' /\ WakeUpIsPending'
  BY <1>1 DEF NumMissingIsExact, WakeUpIsPending, ReturnBody
<1>6. SyncedIsComplete'
  <2>1. SUFFICES ASSUME ~late PROVE answer'.items = PeerItems[header]
    BY DEF SyncedIsComplete, ReturnBody
  <2>2. \A i \in Items : mapAll[i] # "nil"
    BY <2>1 DEF OnlyLastWakes, ReturnBody, Missing
  <2>3. \A i \in PeerItems[header] : i \in Items /\ mapAll[i] = "have"
    BY <2>2, SyncerAssumption DEF MapIsOfHeader, ReturnBody, TypeOK
  <2>4. QED
    BY <2>3 DEF ReturnBody
<1>7. QED
  BY <1>3, <1>4, <1>5, <1>6

\* Neither step of a call whose time ran out touches the map or the goroutines.
LEMMA TimeOutIInv ==
    ASSUME IInv, TimeOut \/ ReturnMissing
    PROVE  IInv'
<1> USE DEF IInv
<1>1. Missing' = Missing
  BY MissingUnchanged DEF TimeOut, ReturnMissing
<1>2. TypeOK'
  <2>1. Missing \in SUBSET Items
    BY DEF Missing
  <2>2. CASE TimeOut
    BY <2>2 DEF TypeOK, TimeOut
  <2>3. CASE ReturnMissing
    <3>1. answer' \in [error : BOOLEAN, items : SUBSET Items]
      BY <2>1, <2>3 DEF ReturnMissing
    <3>2. QED
      BY <2>3, <3>1 DEF TypeOK, ReturnMissing
  <2>4. QED
    BY <2>2, <2>3
<1>3. ArrivesOnce' /\ MapIsOfHeader'
  BY DEF ArrivesOnce, MapIsOfHeader, TimeOut, ReturnMissing
<1>4. OnlyLastWakes'
  BY <1>1 DEF OnlyLastWakes, Wakes, TimeOut, ReturnMissing
<1>5. NumMissingIsExact' /\ WakeUpIsPending' /\ SyncedIsComplete'
  BY <1>1 DEF NumMissingIsExact, WakeUpIsPending, SyncedIsComplete, TimeOut, ReturnMissing
<1>6. QED
  BY <1>2, <1>3, <1>4, <1>5

\* An item arrives once: its goroutine is a new one.
LEMMA ArriveIInv ==
    ASSUME IInv, NEW i \in Items, Arrive(i)
    PROVE  IInv'
<1> USE DEF IInv
<1>1. Missing' = Missing
  BY MissingUnchanged DEF Arrive
<1>2. /\ received' \in [Items -> [at : {"none", "called", "sending", "blocked", "done"},
                                  on : 0 .. MaxSyncs]]
      /\ received'[i].at = "called" /\ received'[i].on = received[i].on
      /\ \A j \in Items : j # i => received'[j] = received[j]
  BY OneGoroutineMoves DEF Arrive
<1>3. received[i].at = "none"
  BY DEF ArrivesOnce, Arrive
<1>4. TypeOK'
  BY <1>2 DEF TypeOK, Arrive
<1>5. ArrivesOnce'
  BY <1>2, <1>3 DEF ArrivesOnce, Arrive
<1>6. MapIsOfHeader'
  BY DEF MapIsOfHeader, Arrive
<1>7. \A j \in Items : Wakes(j)' <=> Wakes(j)
  BY <1>2, <1>3 DEF Wakes, Arrive
<1>8. OnlyLastWakes'
  BY <1>1, <1>2, <1>7 DEF OnlyLastWakes, Arrive
<1>9. NumMissingIsExact' /\ SyncedIsComplete'
  BY <1>1 DEF NumMissingIsExact, SyncedIsComplete, Arrive
<1>10. WakeUpIsPending'
  BY <1>1, <1>2, <1>3 DEF WakeUpIsPending, Arrive
<1>11. QED
  BY <1>4, <1>5, <1>6, <1>8, <1>9, <1>10

\* The goroutine of an item the call does not miss ends.
LEMMA ReceivedOtherIInv ==
    ASSUME IInv, NEW i \in Items, ReceivedMiniBlock(i), mapAll[i] # "nil"
    PROVE  IInv'
<1> USE DEF IInv
<1>1. Missing' = Missing
  BY MissingUnchanged DEF ReceivedMiniBlock
<1>2. /\ received' \in [Items -> [at : {"none", "called", "sending", "blocked", "done"},
                                  on : 0 .. MaxSyncs]]
      /\ received'[i].at = "done" /\ received'[i].on = received[i].on
      /\ \A j \in Items : j # i => received'[j] = received[j]
  BY OneGoroutineMoves DEF ReceivedMiniBlock
<1>3. received[i].at = "called"
  BY DEF ReceivedMiniBlock
<1>4. TypeOK'
  BY <1>2 DEF TypeOK, ReceivedMiniBlock
<1>5. ArrivesOnce'
  BY <1>2, <1>3 DEF ArrivesOnce, ReceivedMiniBlock
<1>6. MapIsOfHeader'
  BY DEF MapIsOfHeader, ReceivedMiniBlock
<1>7. \A j \in Items : Wakes(j)' <=> Wakes(j)
  BY <1>2, <1>3 DEF Wakes, ReceivedMiniBlock
<1>8. OnlyLastWakes'
  BY <1>1, <1>2, <1>7 DEF OnlyLastWakes, ReceivedMiniBlock
<1>9. NumMissingIsExact' /\ SyncedIsComplete'
  BY <1>1 DEF NumMissingIsExact, SyncedIsComplete, ReceivedMiniBlock
<1>10. WakeUpIsPending'
  BY <1>1, <1>2, <1>3 DEF WakeUpIsPending, ReceivedMiniBlock
<1>11. QED
  BY <1>4, <1>5, <1>6, <1>8, <1>9, <1>10

\* The goroutine of a missing item takes it off the counter, and sends when it was the
\* last one.
LEMMA ReceivedMissingIInv ==
    ASSUME IInv, NEW i \in Items, ReceivedMiniBlock(i), mapAll[i] = "nil"
    PROVE  IInv'
<1> USE DEF IInv
<1> DEFINE at == IF IsLastMissing(numMissing) THEN "sending" ELSE "done"
<1>1. received' = [received EXCEPT ![i].at = at] /\ at \in {"sending", "done"}
  BY DEF ReceivedMiniBlock
<1>2. /\ received' \in [Items -> [at : {"none", "called", "sending", "blocked", "done"},
                                  on : 0 .. MaxSyncs]]
      /\ received'[i].at = at /\ received'[i].on = received[i].on
      /\ \A j \in Items : j # i => received'[j] = received[j]
  <2> HIDE DEF at
  <2>1. QED
    BY <1>1, OneGoroutineMoves
<1>3. /\ received[i].at = "called" /\ mapAll' = [mapAll EXCEPT ![i] = "have"]
      /\ numMissing' = numMissing - 1
      /\ UNCHANGED <<pool, channel, pc, header, answer, late>>
  BY DEF ReceivedMiniBlock
<1>4. Missing' = Missing \ {i} /\ i \in Missing
  BY <1>3 DEF Missing, TypeOK
<1>5. pc # "compute" /\ numMissing = Cardinality(Missing)
  BY DEF MapIsOfHeader, NumMissingIsExact
<1>6. /\ Cardinality(Missing') = Cardinality(Missing) - 1
      /\ Cardinality(Missing') \in 0 .. Cardinality(Items)
      /\ Cardinality(Missing') = 0 <=> Missing' = {}
  <2>1. IsFiniteSet(Missing) /\ Missing \in SUBSET Items /\ Missing' \in SUBSET Items
    BY <1>4, Countable DEF Missing
  <2>2. QED
    BY <2>1, <1>4, Countable, FS_RemoveElement
<1>7. numMissing' = Cardinality(Missing')
  BY <1>3, <1>5, <1>6
<1>8. Missing' = {} <=> at = "sending"
  BY <1>5, <1>6 DEF IsLastMissing
<1>9. TypeOK'
  BY <1>2, <1>3, <1>6, <1>7 DEF TypeOK
<1> HIDE DEF at
<1>10. ArrivesOnce'
  BY <1>1, <1>2, <1>3 DEF ArrivesOnce, TypeOK
<1>11. MapIsOfHeader'
  BY <1>3, <1>5 DEF MapIsOfHeader, TypeOK
<1>12. OnlyLastWakes'
  <2>1. \A j \in Items : Wakes(j)' => Wakes(j) \/ at = "sending"
    BY <1>1, <1>2, <1>3 DEF Wakes
  <2>2. Missing = {} => Missing' = {}
    BY <1>4
  <2>3. \A j \in Items : received'[j].on <= channel'
    BY <1>2, <1>3 DEF OnlyLastWakes
  <2>4. QED
    BY <1>3, <1>5, <1>8, <2>1, <2>2, <2>3 DEF OnlyLastWakes
<1>13. NumMissingIsExact' /\ SyncedIsComplete'
  BY <1>3, <1>7 DEF NumMissingIsExact, SyncedIsComplete
<1>14. WakeUpIsPending'
  BY <1>2, <1>8 DEF WakeUpIsPending
<1>15. QED
  BY <1>9, <1>10, <1>11, <1>12, <1>13, <1>14

\* The send blocks on the channel of the current call.
LEMMA SendAllIInv ==
    ASSUME IInv, NEW i \in Items, SendAll(i)
    PROVE  IInv'
<1> USE DEF IInv
<1>1. Missing' = Missing
  BY MissingUnchanged DEF SendAll
<1>2. /\ received'[i] = [at |-> "blocked", on |-> channel]
      /\ \A j \in Items : j # i => received'[j] = received[j]
      /\ received[i].at = "sending"
  BY DEF SendAll, TypeOK
<1>3. TypeOK'
  BY DEF TypeOK, SendAll
<1>4. ArrivesOnce' /\ MapIsOfHeader'
  BY <1>2 DEF ArrivesOnce, MapIsOfHeader, SendAll
<1>5. \A j \in Items : Wakes(j)' <=> Wakes(j)
  BY <1>2 DEF Wakes, SendAll
<1>6. \A j \in Items : received'[j].on <= channel'
  BY <1>2 DEF OnlyLastWakes, SendAll, TypeOK
<1>7. OnlyLastWakes'
  BY <1>1, <1>5, <1>6 DEF OnlyLastWakes, SendAll
<1>8. NumMissingIsExact' /\ SyncedIsComplete'
  BY <1>1 DEF NumMissingIsExact, SyncedIsComplete, SendAll
<1>9. WakeUpIsPending'
  BY <1>2 DEF WakeUpIsPending, SendAll
<1>10. QED
  BY <1>3, <1>4, <1>7, <1>8, <1>9

LEMMA NextIInv == IInv /\ [Next]_vars => IInv'
<1> SUFFICES ASSUME IInv, [Next]_vars PROVE IInv'
  OBVIOUS
<1>1. CASE \E h \in Headers : SyncMiniBlocks(h)
  BY <1>1, SyncMiniBlocksIInv
<1>2. CASE ComputeMissing
  BY <1>2, ComputeMissingIInv
<1>3. CASE RetrieveMissing
  BY <1>3, RetrieveMissingIInv
<1>4. CASE ReturnBody
  BY <1>4, ReturnBodyIInv
<1>5. CASE TimeOut \/ ReturnMissing
  BY <1>5, TimeOutIInv
<1>6. ASSUME NEW i \in Items, ReceiveAll(i) PROVE IInv'
  BY <1>6, ReceiveAllIInv
<1>7. ASSUME NEW i \in Items, Arrive(i) PROVE IInv'
  BY <1>7, ArriveIInv
<1>8. ASSUME NEW i \in Items, ReceivedMiniBlock(i) PROVE IInv'
  BY <1>8, ReceivedOtherIInv, ReceivedMissingIInv
<1>9. ASSUME NEW i \in Items, SendAll(i) PROVE IInv'
  BY <1>9, SendAllIInv
<1>10. CASE UNCHANGED vars
  <2>1. Missing' = Missing /\ \A i \in Items : Wakes(i)' <=> Wakes(i)
    BY <1>10 DEF vars, Missing, Wakes
  <2>2. QED
    BY <1>10, <2>1 DEF vars, IInv, TypeOK, ArrivesOnce, MapIsOfHeader, OnlyLastWakes,
                       NumMissingIsExact, WakeUpIsPending, SyncedIsComplete
<1>11. QED
  BY <1>1, <1>2, <1>3, <1>4, <1>5, <1>6, <1>7, <1>8, <1>9, <1>10 DEF Next

----------------------------------------------------------------------------
(* The theorems *)

LEMMA IInvHolds == Spec => []IInv
  BY InitIInv, NextIInv, PTL DEF Spec

(* The counter of missing items is exact in every reachable state: it      *)
(* never wraps below zero, and a late answer to an earlier call is not     *)
(* taken off it twice (receivedMiniBlock).                                 *)
THEOREM CounterCorrect == Spec => []NumMissingIsExact
<1>1. IInv => NumMissingIsExact
  BY DEF IInv
<1>2. QED
  BY IInvHolds, <1>1, PTL

(* A call that waits for nothing more has a goroutine on the way that      *)
(* wakes it (the send after the release of the lock in receivedMiniBlock). *)
THEOREM NoWakeUpIsLost == Spec => []WakeUpIsPending
<1>1. IInv => WakeUpIsPending
  BY DEF IInv
<1>2. QED
  BY IInvHolds, <1>1, PTL

(* A call that no overdue send disturbs returns ErrTimeIsOut or every item *)
(* of its header (SyncMiniBlocks).                                         *)
THEOREM SyncCorrect == Spec => []SyncedIsComplete
<1>1. IInv => SyncedIsComplete
  BY DEF IInv
<1>2. QED
  BY IInvHolds, <1>1, PTL
============================================================================
