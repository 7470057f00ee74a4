----------------------- MODULE StorageBootstrapProofs -----------------------
(***************************************************************************)
(* The bootstrap records lead a restart back along the chain, for any tree *)
(* of blocks, any number of commits, rollbacks and crashes, and whatever   *)
(* the crashes take away of each storage unit.                             *)
(***************************************************************************)
EXTENDS StorageBootstrap, TLAPS

-----------------------------------------------------------------------------
(* The chain up to a block *)

LEMMA BlockFacts ==
  ASSUME NEW b \in Blocks
  PROVE  /\ Prev[b] \in Blocks /\ RoundOf[b] \in Nat /\ RoundOf[b] \in Rounds
         /\ RoundOf[Prev[b]] \in Nat /\ RoundOf[Prev[b]] \in Rounds
         /\ RoundOf[Prev[b]] <= RoundOf[b]
         /\ b # Genesis => RoundOf[Prev[b]] < RoundOf[b]
         /\ RoundOf[b] = 0 <=> b = Genesis
<1>1. Prev[b] \in Blocks
  BY BootstrapAssumption
<1>2. RoundOf[b] \in Nat /\ RoundOf[Prev[b]] \in Nat /\ RoundOf[Genesis] = 0
  BY <1>1, BlockAssumption
<1>3. RoundOf[b] \in Rounds /\ RoundOf[Prev[b]] \in Rounds
  BY <1>1 DEF Rounds
<1>4. b # Genesis => RoundOf[b] > RoundOf[Prev[b]]
  BY BootstrapAssumption
<1>5. b = Genesis => Prev[b] = Genesis
  BY BootstrapAssumption
<1> QED
  BY <1>1, <1>2, <1>3, <1>4, <1>5

\* A closed set with b holds the chain up to b.
LEMMA AncestorsLeast ==
  ASSUME NEW b \in Blocks, NEW S \in SUBSET Blocks, b \in S,
         \A y \in S : Prev[y] \in S
  PROVE  Ancestors[b] \subseteq S
  BY DEF Ancestors

\* The chain up to b holds b and what its blocks follow.
LEMMA AncestorsClosed ==
  ASSUME NEW b \in Blocks
  PROVE  /\ b \in Ancestors[b] /\ Ancestors[b] \in SUBSET Blocks
         /\ \A y \in Ancestors[b] : Prev[y] \in Ancestors[b]
<1>1. Ancestors[b] = {x \in Blocks : \A S \in SUBSET Blocks :
                        b \in S /\ (\A y \in S : Prev[y] \in S) => x \in S}
  BY DEF Ancestors
<1>2. \A y \in Blocks : Prev[y] \in Blocks
  BY BlockFacts
<1> QED
  BY <1>1, <1>2

\* A block of the chain up to b brings its own chain, of no later rounds, and the
\* chain up to b is b and the chain up to the block before.
LEMMA AncestorFacts ==
  ASSUME NEW b \in Blocks
  PROVE  /\ \A y \in Ancestors[b] : Ancestors[y] \subseteq Ancestors[b]
         /\ \A y \in Ancestors[b] : RoundOf[y] <= RoundOf[b]
         /\ Ancestors[b] \subseteq {b} \cup Ancestors[Prev[b]]
<1>1. /\ b \in Ancestors[b] /\ Ancestors[b] \in SUBSET Blocks
      /\ \A y \in Ancestors[b] : Prev[y] \in Ancestors[b]
  BY AncestorsClosed
<1>2. ASSUME NEW y \in Ancestors[b] PROVE Ancestors[y] \subseteq Ancestors[b]
  BY <1>1, AncestorsLeast
<1>3. Ancestors[b] \subseteq {x \in Blocks : RoundOf[x] <= RoundOf[b]}
  <2> DEFINE S == {x \in Blocks : RoundOf[x] <= RoundOf[b]}
  <2>1. b \in S
    BY BlockFacts
  <2>2. ASSUME NEW y \in S PROVE Prev[y] \in S
    BY BlockFacts
  <2> QED
    BY <2>1, <2>2, AncestorsLeast
<1>4. Ancestors[b] \subseteq {b} \cup Ancestors[Prev[b]]
  <2> DEFINE S == {b} \cup Ancestors[Prev[b]]
  <2>1. /\ Prev[b] \in Ancestors[Prev[b]] /\ Ancestors[Prev[b]] \in SUBSET Blocks
        /\ \A y \in Ancestors[Prev[b]] : Prev[y] \in Ancestors[Prev[b]]
    BY BlockFacts, AncestorsClosed
  <2>2. S \in SUBSET Blocks /\ b \in S
    BY <2>1
  <2>3. \A y \in S : Prev[y] \in S
    BY <2>1
  <2> HIDE DEF S
  <2>4. Ancestors[b] \subseteq S
    BY <2>2, <2>3, AncestorsLeast
  <2> QED
    BY <2>4 DEF S
<1> QED
  BY <1>2, <1>3, <1>4

-----------------------------------------------------------------------------
(* A storage unit and its batch *)

IsUnit(values) == values # <<>> /\ \E S : values \in Seq(S)

\* A write is what the unit answers from then on, and the values before it are
\* those there were.
LEMMA UnitWritten ==
  ASSUME NEW values, IsUnit(values), NEW v, NEW u
  PROVE  LET w == Written(values, v, Depth(u))
         IN  /\ IsUnit(w) /\ Last(w) = v
             /\ \A i \in 1 .. Len(w) :
                  w[i] = v \/ \E j \in 1 .. Len(values) : w[i] = values[j]
<1> DEFINE all == Append(values, v)
           w == Written(values, v, Depth(u))
           Kept == \A i \in 1 .. Len(w) :
                     w[i] = v \/ \E j \in 1 .. Len(values) : w[i] = values[j]
<1>1. PICK S : values \in Seq(S)
  BY DEF IsUnit
<1>2. /\ Len(values) \in Nat \ {0} /\ Last(values) = values[Len(values)]
      /\ values \in Seq(S \cup {v})
  BY <1>1 DEF IsUnit, Last
<1>4. /\ all \in Seq(S \cup {v}) /\ Len(all) = Len(values) + 1
      /\ all[Len(all)] = v
      /\ \A i \in 1 .. Len(values) : all[i] = values[i]
  BY <1>2
<1> HIDE DEF all
<1>5. (w = values /\ v = Last(values)) \/ w = Tail(all) \/ w = all
  BY DEF Written, all
<1> HIDE DEF w
<1>6. CASE w = values /\ v = Last(values)
  <2>1. Kept
    BY <1>6
  <2> QED
    BY <1>2, <1>6, <2>1 DEF IsUnit, Last, w
<1>7. CASE w = Tail(all)
  <2>1. /\ w \in Seq(S \cup {v}) /\ Len(w) = Len(values)
        /\ \A i \in 1 .. Len(values) : w[i] = all[i + 1]
    BY <1>2, <1>4, <1>7
  <2>2. w[Len(w)] = v
    BY <1>2, <1>4, <2>1
  <2>3. Kept
    BY <1>2, <1>4, <2>1
  <2> QED
    BY <1>2, <2>1, <2>2, <2>3 DEF IsUnit, Last, w
<1>8. CASE w = all
  BY <1>2, <1>4, <1>8 DEF IsUnit, Last, w
<1> QED
  BY <1>5, <1>6, <1>7, <1>8 DEF w

-----------------------------------------------------------------------------
(* The records *)

\* Every record is of a block of its round and names the round of the block before.
RecordsAreOfRounds(boot) ==
  \A r \in Rounds : boot.records[r] # NoRecord =>
    LET rec == boot.records[r]
    IN  /\ rec.block \in Blocks \ {Genesis} /\ RoundOf[rec.block] = r
        /\ rec.lastRound = RoundOf[Prev[rec.block]]

\* All blocks of the chain up to b have their record.
HasChain(boot, b) ==
  \A x \in Ancestors[b] \ {Genesis} : boot.records[RoundOf[x]].block = x

\* A value of the unit that a restart may start from.
GoodBoot(boot) ==
  /\ \E T : boot \in [records : [Rounds -> T], highest : Rounds]
  /\ RecordsAreOfRounds(boot)
  /\ boot.highest # 0 => /\ boot.records[boot.highest] # NoRecord
                         /\ HasChain(boot, boot.records[boot.highest].block)

GoodBoots(values) ==
  /\ IsUnit(values)
  /\ \A i \in 1 .. Len(values) : GoodBoot(values[i])

\* The records end at the current block.
EndsAt(boot, b) ==
  /\ boot.highest = RoundOf[b]
  /\ b # Genesis => boot.records[RoundOf[b]].block = b /\ HasChain(boot, b)

\* The record of a round is the one of a block of the chain that the records have.
OnChain(boot, r) ==
  /\ boot.highest # 0 /\ r \in Rounds
  /\ r # 0 => /\ boot.records[r] # NoRecord
              /\ boot.records[r].block \in Ancestors[boot.records[boot.highest].block]

\* A block is not NoBlock, so a record of a block is none of the missing ones.
LEMMA BlockRecord ==
  ASSUME NEW rec, rec.block \in Blocks
  PROVE  rec # NoRecord
  BY BootstrapAssumption DEF NoRecord

\* Round 0 has no record.
LEMMA NoRecordOfGenesis ==
  ASSUME NEW boot, GoodBoot(boot)
  PROVE  0 \in Rounds /\ boot.records[0] = NoRecord
<1>1. 0 \in Rounds
  BY BlockAssumption DEF Rounds
<1>2. ASSUME boot.records[0] # NoRecord PROVE FALSE
  <2>1. boot.records[0].block \in Blocks \ {Genesis} /\ RoundOf[boot.records[0].block] = 0
    BY <1>1, <1>2 DEF GoodBoot, RecordsAreOfRounds
  <2> QED
    BY <2>1, BlockFacts
<1> QED
  BY <1>1, <1>2

\* The records from a round of the chain back to genesis.
LEMMA ChainFromRound ==
  ASSUME NEW boot, GoodBoot(boot), NEW r, OnChain(boot, r), r # 0
  PROVE  LET b == boot.records[r].block
         IN  /\ b \in Blocks \ {Genesis} /\ RoundOf[b] = r /\ HasChain(boot, b)
             /\ boot.records[r].lastRound = RoundOf[Prev[b]]
             /\ Prev[b] # Genesis => boot.records[RoundOf[Prev[b]]].block = Prev[b]
             /\ OnChain(boot, RoundOf[Prev[b]])
<1> DEFINE b == boot.records[r].block
           top == boot.records[boot.highest].block
<1>1. /\ b \in Blocks \ {Genesis} /\ RoundOf[b] = r
      /\ boot.records[r].lastRound = RoundOf[Prev[b]]
  BY DEF OnChain, GoodBoot, RecordsAreOfRounds
<1>2. /\ top \in Blocks /\ HasChain(boot, top) /\ b \in Ancestors[top]
      /\ boot.highest # 0
  BY DEF OnChain, GoodBoot, RecordsAreOfRounds
<1> HIDE DEF b, top
<1>3. Ancestors[b] \subseteq Ancestors[top] /\ Prev[b] \in Ancestors[top]
  BY <1>2, AncestorFacts, AncestorsClosed
<1>4. HasChain(boot, b)
  BY <1>2, <1>3 DEF HasChain
<1>5. Prev[b] # Genesis => boot.records[RoundOf[Prev[b]]].block = Prev[b]
  BY <1>2, <1>3 DEF HasChain
<1>6. Prev[b] \in Blocks /\ RoundOf[Prev[b]] \in Rounds
      /\ (RoundOf[Prev[b]] = 0 <=> Prev[b] = Genesis)
  BY <1>1, BlockFacts
<1>7. Prev[b] # Genesis => boot.records[RoundOf[Prev[b]]] # NoRecord
  BY <1>5, <1>6, BlockRecord
<1>8. OnChain(boot, RoundOf[Prev[b]])
  BY <1>2, <1>3, <1>5, <1>6, <1>7 DEF OnChain, top
<1> QED
  BY <1>1, <1>4, <1>5, <1>8 DEF b

\* SaveLastRound for a block whose chain has its records.
LEMMA SaveGood ==
  ASSUME NEW boot, GoodBoot(boot), NEW b \in Blocks,
         b # Genesis => boot.records[RoundOf[b]].block = b /\ HasChain(boot, b)
  PROVE  LET new == SaveLastRound(boot, RoundOf[b])
         IN  GoodBoot(new) /\ EndsAt(new, b) /\ new.records = boot.records
<1> DEFINE new == SaveLastRound(boot, RoundOf[b])
<1>1. PICK T : boot \in [records : [Rounds -> T], highest : Rounds]
  BY DEF GoodBoot
<1>2. RoundOf[b] \in Rounds /\ (RoundOf[b] = 0 <=> b = Genesis)
  BY BlockFacts
<1>3. /\ new \in [records : [Rounds -> T], highest : Rounds]
      /\ new.records = boot.records /\ new.highest = RoundOf[b]
  BY <1>1, <1>2 DEF SaveLastRound
<1> HIDE DEF new
<1>4. RecordsAreOfRounds(new)
  BY <1>3 DEF GoodBoot, RecordsAreOfRounds
<1>5. b # Genesis => new.records[RoundOf[b]].block = b /\ HasChain(new, b)
  BY <1>3 DEF HasChain
<1>6. b # Genesis => new.records[RoundOf[b]] # NoRecord
  BY <1>5, BlockRecord
<1>7. GoodBoot(new)
  BY <1>2, <1>3, <1>4, <1>5, <1>6 DEF GoodBoot
<1>8. EndsAt(new, b)
  BY <1>3, <1>5 DEF EndsAt
<1> QED
  BY <1>3, <1>7, <1>8 DEF new

\* bootStorer.Put for a child of the block the records end at: the new record is
\* of a later round than all those of the chain, which stay.
LEMMA PutGood ==
  ASSUME NEW boot, GoodBoot(boot), NEW b \in Blocks \ {Genesis}, NEW final,
         EndsAt(boot, Prev[b]), lastRound = RoundOf[Prev[b]]
  PROVE  LET put == PutRecord(boot, b, final)
         IN  GoodBoot(put) /\ put.records[RoundOf[b]].block = b /\ HasChain(put, b)
<1> DEFINE put == PutRecord(boot, b, final)
           rec == BootstrapData(b, final)
<1>1. PICK T : boot \in [records : [Rounds -> T], highest : Rounds]
  BY DEF GoodBoot
<1>2. /\ Prev[b] \in Blocks /\ RoundOf[b] \in Rounds
      /\ RoundOf[b] \in Nat /\ RoundOf[Prev[b]] \in Nat
      /\ RoundOf[Prev[b]] < RoundOf[b]
      /\ (RoundOf[Prev[b]] = 0 <=> Prev[b] = Genesis)
  BY BlockFacts
<1>3. rec.block = b /\ rec.lastRound = lastRound
  BY DEF BootstrapData
<1> HIDE DEF rec
<1>4. /\ put \in [records : [Rounds -> T \cup {rec}], highest : Rounds]
      /\ put.highest = boot.highest
      /\ put.records[RoundOf[b]] = rec
      /\ \A r \in Rounds \ {RoundOf[b]} : put.records[r] = boot.records[r]
  BY <1>1, <1>2 DEF PutRecord, rec
<1> HIDE DEF put
<1>5. RecordsAreOfRounds(put)
  BY <1>3, <1>4 DEF GoodBoot, RecordsAreOfRounds
<1>6. ASSUME NEW x \in Ancestors[Prev[b]] \ {Genesis}
      PROVE  put.records[RoundOf[x]].block = x
  <2>1. x \in Blocks /\ RoundOf[x] <= RoundOf[Prev[b]]
    BY <1>2, AncestorsClosed, AncestorFacts
  <2>2. RoundOf[x] \in Rounds /\ RoundOf[x] # RoundOf[b]
    BY <1>2, <2>1, BlockFacts
  <2>3. Prev[b] # Genesis
    <3> SUFFICES ASSUME Prev[b] = Genesis PROVE FALSE
      OBVIOUS
    <3>1. RoundOf[x] = 0
      BY <1>2, <2>1, BlockFacts
    <3> QED
      BY <2>1, <3>1, BlockFacts
  <2>4. boot.records[RoundOf[x]].block = x
    BY <2>3 DEF EndsAt, HasChain
  <2> QED
    BY <1>4, <2>2, <2>4
<1>7. HasChain(put, b)
  <2>1. Ancestors[b] \subseteq {b} \cup Ancestors[Prev[b]]
    BY AncestorFacts
  <2> QED
    BY <1>3, <1>4, <1>6, <2>1 DEF HasChain
<1>8. put.highest # 0 => /\ put.records[put.highest] # NoRecord
                         /\ HasChain(put, put.records[put.highest].block)
  <2> SUFFICES ASSUME put.highest # 0
               PROVE  /\ put.records[put.highest] # NoRecord
                      /\ HasChain(put, put.records[put.highest].block)
    OBVIOUS
  <2>1. put.highest = RoundOf[Prev[b]] /\ Prev[b] # Genesis
    BY <1>2, <1>4 DEF EndsAt
  <2>2. put.records[put.highest].block = Prev[b]
    BY <1>2, <1>6, <2>1, AncestorsClosed
  <2>3. put.records[put.highest] # NoRecord
    BY <1>2, <2>2, BlockRecord
  <2>4. HasChain(put, Prev[b])
    BY <1>6 DEF HasChain
  <2> QED
    BY <2>2, <2>3, <2>4
<1>9. GoodBoot(put)
  BY <1>4, <1>5, <1>8 DEF GoodBoot
<1> QED
  BY <1>3, <1>4, <1>7, <1>9 DEF put

\* A good value written leaves good values, and is the last of them.
LEMMA WriteGood ==
  ASSUME NEW values, GoodBoots(values), NEW v, GoodBoot(v)
  PROVE  LET w == Written(values, v, Depth("boot"))
         IN  GoodBoots(w) /\ Last(w) = v
<1> DEFINE w == Written(values, v, Depth("boot"))
<1>1. /\ IsUnit(w) /\ Last(w) = v
      /\ \A i \in 1 .. Len(w) :
           w[i] = v \/ \E j \in 1 .. Len(values) : w[i] = values[j]
  BY UnitWritten DEF GoodBoots
<1> HIDE DEF w
<1> QED
  BY <1>1 DEF GoodBoots, w
LEMMA LastIsGood ==
  ASSUME NEW values, GoodBoots(values)
  PROVE  GoodBoot(Last(values))
<1>1. PICK S : values \in Seq(S)
  BY DEF GoodBoots, IsUnit
<1>2. Len(values) \in 1 .. Len(values) /\ Last(values) = values[Len(values)]
  BY <1>1 DEF GoodBoots, IsUnit, Last
<1> QED
  BY <1>2 DEF GoodBoots

-----------------------------------------------------------------------------
(* The inductive invariant *)

Kinds ==
  /\ phase \in {"up", "loading", "loaded"} /\ current \in Blocks
  /\ {"boot", "states", "headers"} \subseteq DOMAIN disk
  /\ IsUnit(disk["states"]) /\ IsUnit(disk["headers"])

\* While the node is up the records end at its block; while it loads, it is at a
\* round of the chain that they have.
RecordsAreThere ==
  /\ GoodBoots(disk["boot"])
  /\ phase = "up" => lastRound = RoundOf[current] /\ EndsAt(Now("boot"), current)
  /\ phase # "up" => OnChain(Now("boot"), round)
  /\ phase = "loaded" => round # 0 /\ Record.block = current

\* The block itself and its state are stored.
BlockIsStored ==
  phase # "loading" /\ current # Genesis =>
    current \in Now("states") /\ current \in Now("headers")

BInv == Kinds /\ RecordsAreThere /\ BlockIsStored

LEMMA InitBInv == Init => BInv
<1> SUFFICES ASSUME Init PROVE BInv
  OBVIOUS
<1> DEFINE first0 == [records |-> [r \in Rounds |-> NoRecord], highest |-> 0]
<1>1. /\ phase = "up" /\ current = Genesis /\ lastRound = 0
      /\ DOMAIN disk = {"headers", "index", "proofs", "states", "metas", "boot"}
      /\ disk["boot"] = <<first0>> /\ disk["states"] = <<{Genesis}>>
      /\ disk["headers"] = <<{}>>
  BY DEF Init
<1>2. Genesis \in Blocks /\ RoundOf[Genesis] = 0 /\ 0 \in Rounds
  BY BlockAssumption DEF Rounds
<1>3. \A v : IsUnit(<<v>>) /\ Last(<<v>>) = v
  <2> SUFFICES ASSUME NEW v PROVE IsUnit(<<v>>) /\ Last(<<v>>) = v
    OBVIOUS
  <2>1. <<v>> \in Seq({v})
    OBVIOUS
  <2> QED
    BY <2>1 DEF IsUnit, Last
<1>4. Kinds
  BY <1>1, <1>2, <1>3 DEF Kinds
<1>5. first0 \in [records : [Rounds -> {NoRecord}], highest : Rounds]
  BY <1>2
<1>6. RecordsAreOfRounds(first0) /\ first0.highest = 0
  BY DEF RecordsAreOfRounds
<1> HIDE DEF first0
<1>7. GoodBoot(first0)
  BY <1>5, <1>6 DEF GoodBoot
<1>8. GoodBoots(<<first0>>)
  BY <1>3, <1>7 DEF GoodBoots
<1>9. RecordsAreThere
  BY <1>1, <1>2, <1>3, <1>6, <1>8 DEF RecordsAreThere, EndsAt, Now
<1> QED
  BY <1>1, <1>4, <1>9 DEF BInv, BlockIsStored

\* A step that writes no record while the node is up.
LEMMA UpStays ==
  ASSUME BInv, phase = "up",
         UNCHANGED <<phase, current, lastRound>>,
         DOMAIN disk' = DOMAIN disk, disk'["boot"] = disk["boot"],
         disk'["states"] = disk["states"],
         IsUnit(disk'["headers"]),
         Last(disk["headers"]) \subseteq Last(disk'["headers"])
  PROVE  BInv'
<1>1. Kinds'
  BY DEF BInv, Kinds
<1>2. RecordsAreThere'
  BY DEF BInv, RecordsAreThere, Now
<1>3. BlockIsStored'
  BY DEF BInv, BlockIsStored, Now
<1> QED
  BY <1>1, <1>2, <1>3 DEF BInv

\* Every step keeps the units.
LEMMA WriteFacts ==
  ASSUME NEW us, NEW new
  PROVE  /\ DOMAIN Write(us, new) = DOMAIN disk
         /\ \A u \in DOMAIN disk :
              Write(us, new)[u] = IF u \in us THEN Written(disk[u], new[u], Depth(u))
                                  ELSE disk[u]
  BY DEF Write

LEMMA CommitBInv ==
  ASSUME BInv, NEW b \in Blocks, CommitBlock(b)
  PROVE  BInv'
<1> DEFINE detector == AddHeader(fd, b, Notarizes[b])
           boot == PutRecord(Now("boot"), b, detector.final)
           last == SaveLastRound(boot, RoundOf[b])
           new == [headers |-> Saved(b).headers, index |-> Saved(b).index,
                   proofs |-> Saved(b).proofs,
                   states |-> Now("states") \cup {b},
                   metas |-> Now("metas") \cup MetasIn[b]]
           written == Write(DOMAIN new, new)
           recorded == Written(disk["boot"], boot, Depth("boot"))
<1>1. /\ phase = "up" /\ b # Genesis /\ Prev[b] = current
      /\ disk' = [written EXCEPT !["boot"] = Written(recorded, last, Depth("boot"))]
      /\ lastRound' = RoundOf[b] /\ current' = b /\ phase' = phase
  BY DEF CommitBlock
<1>2. /\ {"states", "headers"} \subseteq DOMAIN new
      /\ new["states"] = Now("states") \cup {b}
      /\ new["headers"] = Now("headers") \cup {b}
  BY DEF Saved
<1> HIDE DEF new, detector
<1>3. /\ DOMAIN written = DOMAIN disk
      /\ \A u \in DOMAIN disk :
           written[u] = IF u \in DOMAIN new THEN Written(disk[u], new[u], Depth(u))
                        ELSE disk[u]
  BY WriteFacts
<1> HIDE DEF written, recorded, boot, last
<1>4. Kinds /\ RecordsAreThere
  BY DEF BInv
<1>5. GoodBoots(disk["boot"]) /\ GoodBoot(Now("boot"))
  BY <1>4, LastIsGood DEF RecordsAreThere, Now
<1>6. GoodBoot(boot) /\ boot.records[RoundOf[b]].block = b /\ HasChain(boot, b)
  BY <1>1, <1>4, <1>5, PutGood DEF RecordsAreThere, boot
<1>7. GoodBoot(last) /\ EndsAt(last, b)
  BY <1>6, SaveGood DEF last
<1>8. GoodBoots(recorded)
  BY <1>5, <1>6, WriteGood DEF recorded
<1>9. /\ DOMAIN disk' = DOMAIN disk
      /\ disk'["boot"] = Written(recorded, last, Depth("boot"))
      /\ disk'["states"] = Written(disk["states"], Now("states") \cup {b}, Depth("states"))
      /\ disk'["headers"] = Written(disk["headers"], Now("headers") \cup {b}, Depth("headers"))
  BY <1>1, <1>2, <1>3, <1>4 DEF Kinds
<1>10. GoodBoots(disk'["boot"]) /\ Last(disk'["boot"]) = last
  BY <1>7, <1>8, <1>9, WriteGood
<1>11. /\ IsUnit(disk'["states"]) /\ Last(disk'["states"]) = Now("states") \cup {b}
       /\ IsUnit(disk'["headers"]) /\ Last(disk'["headers"]) = Now("headers") \cup {b}
  BY <1>4, <1>9, UnitWritten DEF Kinds
<1>12. Kinds'
  BY <1>1, <1>4, <1>9, <1>11 DEF Kinds
<1>13. RecordsAreThere'
  BY <1>1, <1>7, <1>10 DEF RecordsAreThere, Now
<1>14. BlockIsStored'
  BY <1>1, <1>11 DEF BlockIsStored, Now
<1> QED
  BY <1>12, <1>13, <1>14 DEF BInv
LEMMA CommitFailsBInv ==
  ASSUME BInv, NEW b \in Blocks, CommitFails(b)
  PROVE  BInv'
<1> DEFINE us == {"headers", "index", "proofs"}
<1>1. /\ phase = "up" /\ UNCHANGED <<phase, current, lastRound>>
      /\ disk' = Write(us, Saved(b))
  BY DEF CommitFails
<1>2. /\ DOMAIN disk' = DOMAIN disk
      /\ \A u \in DOMAIN disk :
           disk'[u] = IF u \in us THEN Written(disk[u], Saved(b)[u], Depth(u))
                      ELSE disk[u]
  BY <1>1, WriteFacts
<1>3. Saved(b)["headers"] = Now("headers") \cup {b}
  BY DEF Saved
<1>4. Kinds
  BY DEF BInv
<1>5. /\ disk'["boot"] = disk["boot"] /\ disk'["states"] = disk["states"]
      /\ disk'["headers"] = Written(disk["headers"], Now("headers") \cup {b}, Depth("headers"))
  BY <1>2, <1>3, <1>4 DEF Kinds
<1>6. IsUnit(disk'["headers"]) /\ Last(disk'["headers"]) = Now("headers") \cup {b}
  BY <1>4, <1>5, UnitWritten DEF Kinds
<1> QED
  BY <1>1, <1>2, <1>5, <1>6, UpStays DEF Now

LEMMA RollBackBInv ==
  ASSUME BInv, RollBack
  PROVE  BInv'
<1> DEFINE prev == Prev[current]
           boot == SaveLastRound(Now("boot"), RoundOf[prev])
           new == [states |-> Now("states") \ (IF StateIsPruned THEN {current} ELSE {}),
                   metas |-> Now("metas") \ MetasIn[current],
                   index |-> [Now("index") EXCEPT ![NonceOf[current]] = NoBlock],
                   boot |-> boot]
<1>1. /\ phase = "up" /\ prev \in Now("headers") \cup {Genesis}
      /\ prev \in Now("states")
      /\ disk' = Write(DOMAIN new, new)
      /\ lastRound' = RoundOf[prev] /\ current' = prev /\ phase' = phase
  BY DEF RollBack
<1>2. /\ DOMAIN new = {"states", "metas", "index", "boot"}
      /\ new["states"] = Now("states") \ (IF StateIsPruned THEN {current} ELSE {})
      /\ new["boot"] = boot
  OBVIOUS
<1> HIDE DEF new
<1>3. /\ DOMAIN disk' = DOMAIN disk
      /\ \A u \in DOMAIN disk :
           disk'[u] = IF u \in DOMAIN new THEN Written(disk[u], new[u], Depth(u))
                      ELSE disk[u]
  BY <1>1, WriteFacts
<1> HIDE DEF boot
<1>4. Kinds /\ RecordsAreThere
  BY DEF BInv
<1>5. /\ disk'["boot"] = Written(disk["boot"], boot, Depth("boot"))
      /\ disk'["states"] = Written(disk["states"], new["states"], Depth("states"))
      /\ disk'["headers"] = disk["headers"]
  BY <1>2, <1>3, <1>4 DEF Kinds
<1>6. GoodBoots(disk["boot"]) /\ GoodBoot(Now("boot"))
  BY <1>4, LastIsGood DEF RecordsAreThere, Now
<1>7. /\ current \in Blocks /\ prev \in Blocks
      /\ prev # Genesis => current # Genesis
      /\ current # Genesis => prev # current
  BY <1>4, BlockFacts, BootstrapAssumption DEF Kinds
<1>8. prev # Genesis => Now("boot").records[RoundOf[prev]].block = prev
                        /\ HasChain(Now("boot"), prev)
  <2> SUFFICES ASSUME prev # Genesis
               PROVE  Now("boot").records[RoundOf[prev]].block = prev
                      /\ HasChain(Now("boot"), prev)
    OBVIOUS
  <2>1. HasChain(Now("boot"), current)
    BY <1>1, <1>4, <1>7 DEF RecordsAreThere, EndsAt
  <2>2. prev \in Ancestors[current] /\ Ancestors[prev] \subseteq Ancestors[current]
    BY <1>7, AncestorsClosed, AncestorFacts
  <2> HIDE DEF prev
  <2> QED
    BY <2>1, <2>2 DEF HasChain
<1>9. GoodBoot(boot) /\ EndsAt(boot, prev)
  BY <1>6, <1>7, <1>8, SaveGood DEF boot
<1>10. GoodBoots(disk'["boot"]) /\ Last(disk'["boot"]) = boot
  BY <1>5, <1>6, <1>9, WriteGood
<1>11. IsUnit(disk'["states"]) /\ Last(disk'["states"]) = new["states"]
  BY <1>4, <1>5, UnitWritten DEF Kinds
<1>12. Kinds'
  BY <1>1, <1>3, <1>4, <1>5, <1>7, <1>11 DEF Kinds
<1>13. RecordsAreThere'
  BY <1>1, <1>9, <1>10 DEF RecordsAreThere, Now
<1>14. BlockIsStored'
  BY <1>1, <1>2, <1>5, <1>7, <1>11 DEF BlockIsStored, Now
<1> QED
  BY <1>12, <1>13, <1>14 DEF BInv

\* The tracker changes the fork detector only.
LEMMA TrackerBInv ==
  ASSUME BInv,
         \/ \E b \in NotarizedByMeta : ReceivedSelfNotarized(b)
         \/ setFinalCheckpoint
         \/ UNCHANGED vars
  PROVE  BInv'
<1>1. UNCHANGED <<phase, current, lastRound, disk, round>>
  BY DEF ReceivedSelfNotarized, setFinalCheckpoint, vars
<1>2. Kinds'
  BY <1>1 DEF BInv, Kinds
<1>3. RecordsAreThere'
  BY <1>1 DEF BInv, RecordsAreThere, Now, Record
<1>4. BlockIsStored'
  BY <1>1 DEF BInv, BlockIsStored, Now
<1> QED
  BY <1>2, <1>3, <1>4 DEF BInv

\* A restart is at the highest round of whatever value of the unit is left.
LEMMA CrashBInv ==
  ASSUME BInv, Crash
  PROVE  BInv'
<1>1. PICK kept \in [DOMAIN disk -> 1 .. Depth("boot")] :
        /\ \A u \in DOMAIN disk : kept[u] <= Len(disk[u])
        /\ disk' = [u \in DOMAIN disk |-> <<disk[u][kept[u]]>>]
        /\ round' = disk["boot"][kept["boot"]].highest
        /\ lastRound' = round'
        /\ phase' = IF round' = 0 THEN "up" ELSE "loading"
        /\ current' = Genesis
  BY DEF Crash
<1> DEFINE boot == disk["boot"][kept["boot"]]
<1>2. Kinds /\ GoodBoots(disk["boot"])
  BY DEF BInv, RecordsAreThere
<1>3. GoodBoot(boot)
  <2>1. PICK S : disk["boot"] \in Seq(S)
    BY <1>2 DEF GoodBoots, IsUnit
  <2>2. kept["boot"] \in 1 .. Len(disk["boot"])
    BY <1>1, <1>2, <2>1 DEF Kinds
  <2> QED
    BY <1>2, <2>2 DEF GoodBoots
<1>4. \A v : IsUnit(<<v>>) /\ Last(<<v>>) = v
  <2> SUFFICES ASSUME NEW v PROVE IsUnit(<<v>>) /\ Last(<<v>>) = v
    OBVIOUS
  <2>1. <<v>> \in Seq({v})
    OBVIOUS
  <2> QED
    BY <2>1 DEF IsUnit, Last
<1>5. /\ DOMAIN disk' = DOMAIN disk /\ disk'["boot"] = <<boot>>
      /\ IsUnit(disk'["states"]) /\ IsUnit(disk'["headers"])
  BY <1>1, <1>2, <1>4 DEF Kinds
<1> HIDE DEF boot
<1>6. GoodBoots(disk'["boot"]) /\ Last(disk'["boot"]) = boot
  BY <1>3, <1>4, <1>5 DEF GoodBoots
<1>7. Genesis \in Blocks /\ RoundOf[Genesis] = 0
  BY BlockAssumption
<1>8. Kinds'
  BY <1>1, <1>2, <1>5, <1>7 DEF Kinds
<1>9. boot.highest # 0 => OnChain(boot, boot.highest)
  <2> SUFFICES ASSUME boot.highest # 0 PROVE OnChain(boot, boot.highest)
    OBVIOUS
  <2>1. boot.highest \in Rounds /\ boot.records[boot.highest] # NoRecord
    BY <1>3 DEF GoodBoot
  <2>2. boot.records[boot.highest].block \in Blocks
    BY <1>3, <2>1 DEF GoodBoot, RecordsAreOfRounds
  <2> QED
    BY <2>1, <2>2, AncestorsClosed DEF OnChain
<1>10. RecordsAreThere'
  BY <1>1, <1>6, <1>7, <1>9 DEF RecordsAreThere, EndsAt, Now, boot
<1>11. BlockIsStored'
  BY <1>1 DEF BlockIsStored
<1> QED
  BY <1>8, <1>10, <1>11 DEF BInv

\* A round with a record is one of the chain; the round it names is the next one
\* back, and earlier.
LEMMA RoundFacts ==
  ASSUME BInv, phase = "loading", HasRecord
  PROVE  /\ round # 0 /\ GoodBoot(Now("boot"))
         /\ Record.block \in Blocks \ {Genesis} /\ RoundOf[Record.block] = round
         /\ HasChain(Now("boot"), Record.block)
         /\ OnChain(Now("boot"), Record.lastRound)
         /\ Record.lastRound < round
<1>1. GoodBoot(Now("boot")) /\ OnChain(Now("boot"), round)
  BY LastIsGood DEF BInv, RecordsAreThere, Now
<1>2. round # 0
  BY <1>1, NoRecordOfGenesis DEF HasRecord, Record
<1>3. /\ Record.block \in Blocks \ {Genesis} /\ RoundOf[Record.block] = round
      /\ HasChain(Now("boot"), Record.block)
      /\ Record.lastRound = RoundOf[Prev[Record.block]]
      /\ OnChain(Now("boot"), RoundOf[Prev[Record.block]])
  BY <1>1, <1>2, ChainFromRound DEF Record
<1>4. RoundOf[Prev[Record.block]] < RoundOf[Record.block]
  BY <1>3, BlockFacts
<1> QED
  BY <1>1, <1>2, <1>3, <1>4

\* A round that is given up.
LEMMA TryBeforeBInv ==
  ASSUME BInv, phase = "loading", HasRecord, TryBefore,
         UNCHANGED disk, current' \in {current, Record.block}
  PROVE  BInv'
<1>1. round' = Record.lastRound /\ phase' = phase
  BY DEF TryBefore
<1>2. Kinds'
  BY <1>1, RoundFacts DEF BInv, Kinds
<1>3. OnChain(Now("boot"), round')
  BY <1>1, RoundFacts
<1>4. RecordsAreThere'
  BY <1>1, <1>3 DEF BInv, RecordsAreThere, Now
<1>5. BlockIsStored'
  BY <1>1 DEF BlockIsStored
<1> QED
  BY <1>2, <1>4, <1>5 DEF BInv

LEMMA RoundLoadedBInv ==
  ASSUME BInv, RoundLoaded
  PROVE  BInv'
<1>1. /\ phase = "loading" /\ HasRecord /\ FoundHeader
      /\ phase' = "loaded" /\ current' = Record.block
      /\ disk' = disk /\ round' = round
  BY DEF RoundLoaded, Applicable, CompleteRound
<1>2. Record.block \in Blocks /\ round # 0
  BY <1>1, RoundFacts
<1>3. Kinds'
  BY <1>1, <1>2 DEF BInv, Kinds
<1>4. RecordsAreThere'
  BY <1>1, <1>2 DEF BInv, RecordsAreThere, Now, Record
<1>5. BlockIsStored'
  BY <1>1 DEF BlockIsStored, FoundHeader, Now
<1> QED
  BY <1>3, <1>4, <1>5 DEF BInv

\* A step of loadBlocks that ends it: the highest round becomes that of a block
\* whose chain has its records, or 0.
LEMMA LoadingDone ==
  ASSUME BInv, NEW b \in Blocks,
         b # Genesis => /\ Now("boot").records[RoundOf[b]].block = b
                        /\ HasChain(Now("boot"), b)
                        /\ b \in Now("states") /\ b \in Now("headers"),
         NEW us, "boot" \in us, "states" \notin us, "headers" \notin us,
         NEW new, new["boot"] = SaveLastRound(Now("boot"), RoundOf[b]),
         disk' = Write(us, new),
         phase' = "up", current' = b, lastRound' = RoundOf[b]
  PROVE  BInv'
<1> DEFINE boot == SaveLastRound(Now("boot"), RoundOf[b])
<1>1. /\ DOMAIN disk' = DOMAIN disk
      /\ \A u \in DOMAIN disk :
           disk'[u] = IF u \in us THEN Written(disk[u], new[u], Depth(u)) ELSE disk[u]
  BY WriteFacts
<1>2. Kinds /\ GoodBoots(disk["boot"]) /\ GoodBoot(Now("boot"))
  BY LastIsGood DEF BInv, RecordsAreThere, Now
<1>3. GoodBoot(boot) /\ EndsAt(boot, b)
  BY <1>2, SaveGood
<1> HIDE DEF boot
<1>4. /\ disk'["boot"] = Written(disk["boot"], boot, Depth("boot"))
      /\ disk'["states"] = disk["states"] /\ disk'["headers"] = disk["headers"]
  BY <1>1, <1>2 DEF Kinds, boot
<1>5. GoodBoots(disk'["boot"]) /\ Last(disk'["boot"]) = boot
  BY <1>2, <1>3, <1>4, WriteGood
<1>6. Kinds'
  BY <1>1, <1>2, <1>4 DEF Kinds
<1>7. RecordsAreThere'
  BY <1>3, <1>5 DEF RecordsAreThere, Now
<1>8. BlockIsStored'
  BY <1>4 DEF BlockIsStored, Now
<1> QED
  BY <1>6, <1>7, <1>8 DEF BInv
LEMMA NothingLoadedBInv ==
  ASSUME BInv, NothingLoaded
  PROVE  BInv'
<1> DEFINE new == [boot |-> SaveLastRound(Now("boot"), 0)]
<1>1. /\ phase' = "up" /\ current' = Genesis /\ lastRound' = 0
      /\ disk' = Write({"boot"}, new)
  BY DEF NothingLoaded
<1>2. Genesis \in Blocks /\ RoundOf[Genesis] = 0
  BY BlockAssumption
<1>3. new["boot"] = SaveLastRound(Now("boot"), RoundOf[Genesis])
  BY <1>2
<1> HIDE DEF new
<1> QED
  BY <1>1, <1>2, <1>3, LoadingDone

LEMMA CleanUpBInv ==
  ASSUME BInv, CleanUp
  PROVE  BInv'
<1>1. /\ phase = "loaded" /\ phase' = "up" /\ current' = current /\ lastRound' = round
      /\ \E i, m : LET new == [index |-> i, metas |-> m,
                               boot |-> SaveLastRound(Now("boot"), round)]
                   IN  disk' = Write(DOMAIN new, new)
  BY DEF CleanUp
<1>2. PICK i, m : LET new == [index |-> i, metas |-> m,
                              boot |-> SaveLastRound(Now("boot"), round)]
                  IN  disk' = Write(DOMAIN new, new)
  BY <1>1
<1> DEFINE new == [index |-> i, metas |-> m, boot |-> SaveLastRound(Now("boot"), round)]
<1>3. GoodBoot(Now("boot")) /\ OnChain(Now("boot"), round)
  BY <1>1, LastIsGood DEF BInv, RecordsAreThere, Now
<1>4. round # 0 /\ current = Now("boot").records[round].block /\ current \in Blocks
  BY <1>1 DEF BInv, Kinds, RecordsAreThere, Record
<1>5. current # Genesis /\ RoundOf[current] = round /\ HasChain(Now("boot"), current)
  BY <1>3, <1>4, ChainFromRound
<1>6. current \in Now("states") /\ current \in Now("headers")
  BY <1>1, <1>5 DEF BInv, BlockIsStored
<1>7. DOMAIN new = {"index", "metas", "boot"}
      /\ new["boot"] = SaveLastRound(Now("boot"), RoundOf[current])
  BY <1>5
<1>8. disk' = Write(DOMAIN new, new)
  BY <1>2
<1> HIDE DEF new
<1> QED
  BY <1>1, <1>4, <1>5, <1>6, <1>7, <1>8, LoadingDone

-----------------------------------------------------------------------------
(* The theorems *)

LEMMA LoadStepBInv ==
  ASSUME BInv, LoadStep
  PROVE  BInv'
<1>1. CASE SkipLaterRound
  BY <1>1, TryBeforeBInv DEF SkipLaterRound
<1>2. CASE HeaderNotApplied
  BY <1>2, TryBeforeBInv DEF HeaderNotApplied
<1>3. CASE RecordsNotApplied
  BY <1>3, TryBeforeBInv DEF RecordsNotApplied, Applicable
<1>4. CASE RoundLoaded \/ NothingLoaded \/ CleanUp
  BY <1>4, RoundLoadedBInv, NothingLoadedBInv, CleanUpBInv
<1> QED
  BY <1>1, <1>2, <1>3, <1>4 DEF LoadStep

LEMMA StepBInv == BInv /\ [Next]_vars => BInv'
<1> SUFFICES ASSUME BInv, [Next]_vars PROVE BInv'
  OBVIOUS
<1>1. CASE \E b \in Blocks : CommitBlock(b) \/ CommitFails(b)
  BY <1>1, CommitBInv, CommitFailsBInv
<1>2. CASE RollBack \/ Crash \/ LoadStep
  BY <1>2, RollBackBInv, CrashBInv, LoadStepBInv
<1>3. CASE \/ \E b \in NotarizedByMeta : ReceivedSelfNotarized(b)
           \/ setFinalCheckpoint \/ UNCHANGED vars
  BY <1>3, TrackerBInv
<1> QED
  BY <1>1, <1>2, <1>3 DEF Next

LEMMA BInvHolds == Spec => []BInv
  BY InitBInv, StepBInv, PTL DEF Spec

(* From whatever value of the unit a crash leaves, the bootstrap records   *)
(* lead from the highest round back to genesis along one chain, block by   *)
(* block, after any commits, rollbacks and restarts (saveBootStorer,       *)
(* bootStorer.Put, SaveLastRound).                                         *)
THEOREM RecordsLeadBack == Spec => []RecordsFollowTheChain
<1>1. ASSUME NEW boot, GoodBoot(boot)
      PROVE  LET Reached == {r \in Rounds :
                               /\ boot.highest # 0
                               /\ boot.records[r] # NoRecord
                               /\ boot.records[boot.highest] # NoRecord
                               /\ boot.records[r].block \in
                                    Ancestors[boot.records[boot.highest].block]}
             IN  /\ boot.highest # 0 => boot.records[boot.highest] # NoRecord
                 /\ \A r \in Reached :
                      LET rec == boot.records[r]
                          before == boot.records[rec.lastRound]
                      IN  IF rec.lastRound = 0 THEN Prev[rec.block] = Genesis
                                               ELSE before.block = Prev[rec.block]
  <2>1. boot.highest # 0 => boot.records[boot.highest] # NoRecord
    BY <1>1 DEF GoodBoot
  <2>2. ASSUME NEW r \in Rounds, boot.highest # 0, boot.records[r] # NoRecord,
               boot.records[r].block \in Ancestors[boot.records[boot.highest].block]
        PROVE  IF boot.records[r].lastRound = 0
               THEN Prev[boot.records[r].block] = Genesis
               ELSE boot.records[boot.records[r].lastRound].block
                      = Prev[boot.records[r].block]
    <3>1. OnChain(boot, r) /\ r # 0
      BY <1>1, <2>2, NoRecordOfGenesis DEF OnChain
    <3> DEFINE b == boot.records[r].block
    <3>2. /\ b \in Blocks /\ boot.records[r].lastRound = RoundOf[Prev[b]]
          /\ Prev[b] # Genesis => boot.records[RoundOf[Prev[b]]].block = Prev[b]
      BY <1>1, <3>1, ChainFromRound
    <3>3. Prev[b] \in Blocks
      BY <3>2, BlockFacts
    <3>4. RoundOf[Prev[b]] = 0 <=> Prev[b] = Genesis
      BY <3>3, BlockFacts
    <3> QED
      BY <3>2, <3>4
  <2> QED
    BY <2>1, <2>2
<1>2. BInv => RecordsFollowTheChain
  BY <1>1 DEF BInv, RecordsAreThere, GoodBoots, RecordsFollowTheChain
<1> QED
  BY <1>2, BInvHolds, PTL

(* A node that is up finds the record of its block under the highest       *)
(* round, and under their rounds those of all the blocks before it; the    *)
(* header and the state of its block are stored (the part of               *)
(* RestartFindsTheBlock that does not depend on the fork detector).        *)
THEOREM CurrentBlockIsRecorded ==
  Spec => [](phase = "up" /\ current # Genesis =>
               /\ Now("boot").records[Now("boot").highest].block = current
               /\ \A b \in Ancestors[current] \ {Genesis} :
                    Now("boot").records[RoundOf[b]].block = b
               /\ current \in Now("headers") \cap Now("states"))
<1>1. BInv => (phase = "up" /\ current # Genesis =>
                 /\ Now("boot").records[Now("boot").highest].block = current
                 /\ \A b \in Ancestors[current] \ {Genesis} :
                      Now("boot").records[RoundOf[b]].block = b
                 /\ current \in Now("headers") \cap Now("states"))
  BY DEF BInv, RecordsAreThere, BlockIsStored, EndsAt, HasChain
<1> QED
  BY <1>1, BInvHolds, PTL

(* Every iteration of loadBlocks that does not end the loop goes on with   *)
(* an earlier round, so that there is an end to them (LoadingEnds).        *)
THEOREM LoadingGoesBack ==
  Spec => [][LoadStep /\ phase' = "loading" => round' < round]_vars
<1>1. ASSUME BInv, LoadStep, phase' = "loading" PROVE round' < round
  <2>1. phase = "loading" /\ HasRecord /\ TryBefore
    BY <1>1 DEF LoadStep, SkipLaterRound, HeaderNotApplied, RecordsNotApplied,
         RoundLoaded, NothingLoaded, CleanUp, Applicable
  <2>2. round' = Record.lastRound
    BY <2>1 DEF TryBefore
  <2> QED
    BY <1>1, <2>1, <2>2, RoundFacts
<1>2. BInv /\ [Next]_vars => [LoadStep /\ phase' = "loading" => round' < round]_vars
  BY <1>1
<1> QED
  BY <1>2, BInvHolds, PTL DEF Spec
============================================================================
