---------------------------- MODULE ForkDetector ----------------------------
(***************************************************************************)
(* The fork detector of a shard (baseForkDetector.go,                      *)
(* shardForkDetector.go), as operators on its value                        *)
(*   headers     nonce -> sequence of [block, state]                       *)
(*   checkpoint  sequence of blocks                                        *)
(*   final       the block of finalCheckpoint                              *)
(* A block stands for its hash; its nonce and round are functions of it.   *)
(* Headers only received or proposed, the proofs they wait for and the two *)
(* highest nonces serve CheckFork and the block syncer, which this fork    *)
(* does not start; they are left out, and with them what an entry knows of *)
(* its proof.                                                              *)
(***************************************************************************)
EXTENDS Integers, Sequences, FiniteSetsExt, SequencesExt, TLC

CONSTANTS
  Blocks,     \* hashes of own headers, Genesis included
  Genesis,    \* the genesis header
  NonceOf,    \* [Blocks -> Nat]
  RoundOf,    \* [Blocks -> Nat]
  Proven,     \* blocks of the epochs with the Andromeda flag: they need a proof
  Instant     \* those after the first block of these epochs: final at once

ASSUME BlockAssumption ==
  /\ NonceOf \in [Blocks -> Nat] /\ RoundOf \in [Blocks -> Nat]
  /\ Genesis \in Blocks /\ NonceOf[Genesis] = 0 /\ RoundOf[Genesis] = 0
  /\ Instant \subseteq Proven /\ Proven \subseteq Blocks \ {Genesis}

Nonces == {NonceOf[b] : b \in Blocks}
Entries == [block : Blocks, state : {"processed", "notarized"}]
Detectors == [headers : [Nonces -> Seq(Entries)], checkpoint : Seq(Blocks), final : Blocks]

\* Also a new detector.
RestoreToGenesis ==
  [headers |-> [n \in Nonces |-> <<>>], checkpoint |-> <<Genesis>>, final |-> Genesis]

lastCheckpoint(fd) == IF fd.checkpoint = <<>> THEN Genesis ELSE Last(fd.checkpoint)

SetFinalToLastCheckpoint(fd) == [fd EXCEPT !.final = lastCheckpoint(fd)]

AddCheckpoint(fd, b) == [fd EXCEPT !.checkpoint = Append(@, b)]

\* An entry is not appended twice.
IsStoredEntry(fd, e) == e \in Range(fd.headers[NonceOf[e.block]])

append(fd, e) ==
  IF IsStoredEntry(fd, e) THEN fd ELSE [fd EXCEPT !.headers[NonceOf[e.block]] = Append(@, e)]

Notarized(b) == [block |-> b, state |-> "notarized"]
Processed(b) == [block |-> b, state |-> "processed"]

\* The self notarized headers that are new: above the final one, not stored.
NewNotarized(fd, bs) ==
  {b \in bs : NonceOf[b] > NonceOf[fd.final] /\ ~ IsStoredEntry(fd, Notarized(b))}

appendSelfNotarizedHeaders(fd, bs) ==
  LET new == SetToSortSeq(NewNotarized(fd, bs), LAMBDA x, y : NonceOf[x] < NonceOf[y])
      Add(acc, b) == append(acc, Notarized(b))
  IN  FoldLeft(Add, fd, new)

\* The last header of a nonce with the state, in a set of at most one.
LastWith(entries, state) ==
  LET some == SelectSeq(entries, LAMBDA e : e.state = state)
  IN  IF some = <<>> THEN {} ELSE {Last(some).block}

\* Blocks processed here and notarized by the metachain.
ProcessedAndNotarized(fd) ==
  UNION {LastWith(fd.headers[n], "processed") \cap LastWith(fd.headers[n], "notarized") :
           n \in Nonces \ {0}}

\* What computeFinalCheckpoint finds; nothing is set when it finds none.
HighestOf(bs) == CHOOSE b \in bs : \A x \in bs : NonceOf[x] <= NonceOf[b]

computeFinalCheckpoint(fd) ==
  IF ProcessedAndNotarized(fd) = {}
  THEN fd
  ELSE [fd EXCEPT !.final = HighestOf(ProcessedAndNotarized(fd))]

removePastOrInvalidRecords(fd) ==
  LET Keeps(b) == NonceOf[b] >= NonceOf[fd.final]
  IN  [fd EXCEPT !.headers = [n \in Nonces |-> IF n < NonceOf[fd.final] THEN <<>> ELSE @[n]],
                 !.checkpoint = SelectSeq(@, Keeps)]

\* Mutant: a block is final before the metachain has notarized it.
FinalWhenProcessed(fd, b, notarized) ==
  removePastOrInvalidRecords(
    SetFinalToLastCheckpoint(AddCheckpoint(
      computeFinalCheckpoint(appendSelfNotarizedHeaders(fd, notarized)), b)))

doJobOnBHProcessed(fd, b, notarized) ==
  LET added == AddCheckpoint(
                 computeFinalCheckpoint(appendSelfNotarizedHeaders(fd, notarized)), b)
  IN  removePastOrInvalidRecords(
        IF b \in Instant THEN SetFinalToLastCheckpoint(added) ELSE added)

checkBlockBasicValidity(fd, b) ==
  LET roundDif == RoundOf[b] - RoundOf[fd.final]
      nonceDif == NonceOf[b] - NonceOf[fd.final]
  IN  roundDif >= 0 /\ nonceDif >= 0 /\ roundDif >= nonceDif

\* AddHeader with state BHProcessed; its callers log an error and go on.
AddHeader(fd, b, notarized) ==
  IF checkBlockBasicValidity(fd, b) /\ ~ IsStoredEntry(fd, Processed(b))
  THEN doJobOnBHProcessed(append(fd, Processed(b)), b, notarized)
  ELSE fd

\* Mutant: the checkpoint of the block removed stays.
KeepCheckpoint(fd, b) ==
  IF NonceOf[b] <= NonceOf[fd.final]
  THEN fd
  ELSE computeFinalCheckpoint(
         [fd EXCEPT !.headers[NonceOf[b]] = SelectSeq(@, LAMBDA e : e # Processed(b))])

RemoveHeader(fd, b) ==
  LET n == NonceOf[b]
      Other(x) == NonceOf[x] # n
  IN  IF n <= NonceOf[fd.final]
      THEN fd
      ELSE computeFinalCheckpoint(
             [fd EXCEPT !.checkpoint = SelectSeq(@, Other),
                        !.headers[n] = SelectSeq(@, LAMBDA e : e # Processed(b))])

\* ResetProbableHighestNonce forgets what is above the last checkpoint.
ResetProbableHighestNonce(fd) ==
  [fd EXCEPT !.headers =
     [n \in Nonces |-> IF n <= NonceOf[lastCheckpoint(fd)] THEN @[n]
                       ELSE SelectSeq(@[n], LAMBDA e : e.state = "notarized")]]
=============================================================================
