--------------------------- MODULE EventStartProofs ---------------------------
(***************************************************************************)
(* The first range of EventDiscovery, for every set of authors and every   *)
(* range size: what the loop of submit_latest_ethereum_block finds in the  *)
(* votes of a supermajority.                                               *)
(***************************************************************************)
EXTENDS EventDiscovery, TLAPS, FiniteSetTheorems, WellFoundedInduction

\* Among block numbers one is the lowest.
LEMMA LowestBlock ==
    ASSUME NEW B \in SUBSET Nat, B # {}
    PROVE  \E b \in B : \A c \in B : b <= c
<1>1. \E b \in B : \A c \in B : ~(<<c, b>> \in OpToRel(<, Nat))
  BY NatLessThanWellFounded, WFMin
<1>2. OpToRel(<, Nat) = {ss \in Nat \X Nat : ss[1] < ss[2]}
  BY DEF OpToRel
<1>3. PICK b \in B : \A c \in B : <<c, b>> \notin {ss \in Nat \X Nat : ss[1] < ss[2]}
  BY <1>1, <1>2
<1>4. ASSUME NEW c \in B PROVE b <= c
  <2>1. b \in Nat /\ c \in Nat /\ <<c, b>> \in Nat \X Nat
    OBVIOUS
  <2>2. ~(c < b)
    BY <1>3, <2>1
  <2> QED BY <2>1, <2>2
<1> QED BY <1>4

\* Of finitely many votes one names the highest block: one above which the fewest
\* votes lie has none above it.
LEMMA HighestVote ==
    ASSUME NEW V, IsFiniteSet(V), V # {}, \A v \in V : v.block \in Nat
    PROVE  \E w \in V : \A v \in V : v.block <= w.block
<1> DEFINE above(w) == {v \in V : v.block > w.block}
           counts == {Cardinality(above(w)) : w \in V}
<1>1. \A w \in V : IsFiniteSet(above(w)) /\ Cardinality(above(w)) \in Nat
  BY FS_Subset, FS_CardinalityType
<1>2. counts \subseteq Nat /\ counts # {}
  BY <1>1
<1> HIDE DEF counts
<1>4. PICK k \in counts : \A m \in counts : k <= m
  BY <1>2, LowestBlock
<1>5. PICK w \in V : k = Cardinality(above(w))
  BY DEF counts
<1>6. ASSUME NEW v \in V, v.block > w.block PROVE FALSE
  <2>1. above(v) \subseteq above(w) /\ v \in above(w) /\ v \notin above(v)
    BY <1>6
  <2>2. Cardinality(above(v)) < Cardinality(above(w))
    <3> HIDE DEF above
    <3>1. IsFiniteSet(above(w)) /\ above(v) \subseteq above(w) /\ above(v) # above(w)
      BY <1>1, <2>1
    <3>2. /\ Cardinality(above(v)) <= Cardinality(above(w))
          /\ Cardinality(above(v)) # Cardinality(above(w))
      BY <3>1, FS_Subset
    <3>3. Cardinality(above(v)) \in Nat /\ Cardinality(above(w)) \in Nat
      BY <1>1
    <3> QED BY <3>2, <3>3
  <2>3. Cardinality(above(v)) \in counts
    BY DEF counts
  <2>4. Cardinality(above(w)) <= Cardinality(above(v))
    BY <1>4, <1>5, <2>3
  <2>5. Cardinality(above(v)) \in Nat /\ Cardinality(above(w)) \in Nat
    BY <1>1
  <2> HIDE DEF above
  <2> QED BY <2>2, <2>4, <2>5
<1> QED BY <1>6

\* A third of the authors is at least one and at most two thirds, except that a
\* single author has no supermajority to wait for.
LEMMA Quorums ==
    ASSUME NEW n \in Nat, n > 0
    PROVE  /\ required_for(n) \in Nat /\ required_for_supermajority(n) \in Nat
           /\ required_for(n) > 0
           /\ required_for_supermajority(n) >= required_for(n) \/ required_for(n) = 1
BY DEF required_for, required_for_supermajority

LEMMA RoundedDown ==
    ASSUME NEW c \in Nat
    PROVE  c - (c % RangeSize) \in Nat /\ (c - (c % RangeSize)) % RangeSize = 0
<1> DEFINE q == c \div RangeSize
           m == (RangeSize * q) % RangeSize
           p == (RangeSize * q) \div RangeSize
<1>1. RangeSize \in Nat /\ RangeSize > 0 /\ q \in Nat /\ c % RangeSize \in 0..(RangeSize - 1)
      /\ c = RangeSize * q + (c % RangeSize)
  BY RangeSizeAssumption
<1>2. c - (c % RangeSize) = RangeSize * q /\ RangeSize * q \in Nat
  BY <1>1
<1> HIDE DEF q
<1>3. m \in 0..(RangeSize - 1) /\ p \in Nat /\ RangeSize * q = RangeSize * p + m
  BY <1>1, <1>2
<1> HIDE DEF m, p
<1>4. RangeSize * (q - p) = m
  BY <1>1, <1>3
<1>5. q - p < 1
  <2>1. ASSUME q - p >= 1 PROVE RangeSize * (q - p) >= RangeSize
    BY <1>1, <1>3, <2>1
  <2> QED BY <1>1, <1>3, <1>4, <2>1
<1>6. q - p > -1
  <2>1. ASSUME q - p <= -1 PROVE RangeSize * (q - p) <= -RangeSize
    BY <1>1, <1>3, <2>1
  <2> QED BY <1>1, <1>3, <1>4, <2>1
<1>7. q = p
  BY <1>1, <1>3, <1>5, <1>6
<1>8. m = 0
  BY <1>1, <1>3, <1>7
<1> QED BY <1>2, <1>8 DEF m

StartBlock(b) == b \in Nat /\ b % RangeSize = 0
StartInv ==
    /\ IsFiniteSet(validators)
    /\ IsFiniteSet(blockVotes) /\ \A v \in blockVotes : StartBlock(v.block)
    /\ StartSupported

\* The loop of submit_latest_ethereum_block always finds a block, and at most as
\* many votes lie below it as the supermajority has to spare over a quorum.
LEMMA SelectedRange ==
    ASSUME IsFiniteSet(validators), validators # {}, NEW V, IsFiniteSet(V), V # {},
           \A v \in V : StartBlock(v.block), Cardinality(V) >= get_supermajority_quorum
    PROVE  /\ selected_range(V).length = RangeSize
           /\ StartBlock(selected_range(V).start_block)
           /\ support(selected_range(V), V).voters >= get_quorum
<1> DEFINE n == Cardinality(validators)
           upto(b) == {v \in V : v.block <= b}
           remaining(b) == SaturatingSub(get_supermajority_quorum, Cardinality(upto(b)))
           low == {v.block : v \in {w \in V : remaining(w.block) < get_quorum}}
           first == CHOOSE b \in low : \A c \in low : b <= c
           below == {v \in V : v.block < first}
           reached == {v \in V : v.block >= first}
<1>0. \A v \in V : v.block \in Nat
  BY DEF StartBlock
<1>1. n \in Nat /\ n > 0
  BY FS_CardinalityType, FS_EmptySet
<1>2. /\ get_quorum \in Nat /\ get_supermajority_quorum \in Nat /\ get_quorum > 0
      /\ get_supermajority_quorum >= get_quorum \/ get_quorum = 1
  BY <1>1, Quorums DEF get_quorum, get_supermajority_quorum
<1>3. \A b : IsFiniteSet(upto(b)) /\ Cardinality(upto(b)) \in Nat
  BY FS_Subset, FS_CardinalityType
<1>4. Cardinality(V) \in Nat /\ Cardinality(V) > 0
  BY FS_CardinalityType, FS_EmptySet
<1>5. low # {} /\ low \subseteq Nat
  <2>1. PICK w \in V : \A v \in V : v.block <= w.block
    BY <1>0, HighestVote
  <2>2. upto(w.block) = V
    BY <2>1
  <2>3. remaining(w.block) = 0
    <3>1. ~(get_supermajority_quorum > Cardinality(V))
      BY <1>2, <1>4
    <3>2. remaining(w.block) = SaturatingSub(get_supermajority_quorum, Cardinality(V))
      BY <2>2
    <3> QED BY <3>1, <3>2 DEF SaturatingSub
  <2>4. w \in {x \in V : remaining(x.block) < get_quorum}
    BY <1>2, <2>3
  <2> QED BY <1>0, <2>4
<1>6. first \in low /\ \A c \in low : first <= c
  <2> HIDE DEF low
  <2>1. \E b \in low : \A c \in low : b <= c
    BY <1>5, LowestBlock
  <2> QED BY <2>1
<1>7. selected_range(V) = [start_block |-> first, length |-> RangeSize]
  BY <1>5 DEF selected_range
<1>8. StartBlock(first)
  BY <1>6
<1> HIDE DEF first
<1>9. V = below \cup reached /\ below \cap reached = {} /\ first \in Nat
  BY <1>0, <1>8 DEF StartBlock
<1>10. /\ IsFiniteSet(below) /\ IsFiniteSet(reached)
       /\ Cardinality(below) \in Nat /\ Cardinality(reached) \in Nat
  BY FS_Subset, FS_CardinalityType
<1>11. Cardinality(V) = Cardinality(below) + Cardinality(reached)
  <2> HIDE DEF below, reached
  <2>1. Cardinality(below \cup reached) =
            Cardinality(below) + Cardinality(reached) - Cardinality(below \cap reached)
    BY <1>10, FS_Union
  <2>2. Cardinality(below \cap reached) = 0
    BY <1>9, FS_EmptySet
  <2> QED BY <1>9, <1>10, <2>1, <2>2
<1>12. Cardinality(reached) >= get_quorum
  <2>1. CASE below = {}
    <3>1. Cardinality(below) = 0
      BY <2>1, FS_EmptySet
    <3> QED BY <1>2, <1>4, <1>10, <1>11, <3>1
  <2>2. CASE below # {}
    <3>1. \A v \in below : v.block \in Nat
      BY <1>0
    <3>2. PICK w \in below : \A v \in below : v.block <= w.block
      BY <1>10, <2>2, <3>1, HighestVote
    <3>3. below = upto(w.block)
      BY <1>0, <1>9, <3>2
    <3>4. w.block \notin low
      BY <1>0, <1>6, <1>9, <3>2
    <3>5. ~(remaining(w.block) < get_quorum)
      BY <3>4
    <3>6. get_supermajority_quorum - Cardinality(below) >= get_quorum
      BY <1>2, <1>10, <3>3, <3>5 DEF SaturatingSub
    <3> QED BY <1>2, <1>4, <1>10, <1>11, <3>6
  <2> QED BY <2>1, <2>2
<1>13. support(selected_range(V), V).voters = Cardinality(reached)
  BY <1>7 DEF support
<1> QED BY <1>7, <1>8, <1>12, <1>13

LEMMA StartStep == StartInv /\ [Next]_vars => StartInv'
<1> SUFFICES ASSUME StartInv, [Next]_vars PROVE StartInv'
  OBVIOUS
<1>1. ASSUME UNCHANGED <<blockVotes, started>>, IsFiniteSet(validators')
      PROVE  StartInv'
  BY <1>1 DEF StartInv, StartSupported
<1>2. ASSUME NEW author \in Accounts, NEW b \in SeenBlocks,
             submit_latest_ethereum_block(author, b)
      PROVE  StartInv'
  <2> DEFINE vote == [author |-> author, block |-> compute_start_block(b)]
             votes == blockVotes \cup {vote}
  <2>1. StartBlock(compute_start_block(b))
    <3>1. SaturatingSub(b, 5 * RangeSize) \in Nat
      BY SeenBlocksAssumption, RangeSizeAssumption DEF SaturatingSub
    <3> QED BY <3>1, RoundedDown DEF compute_start_block, StartBlock
  <2>2. \A v \in votes : StartBlock(v.block)
    BY <2>1 DEF StartInv
  <2>3. IsFiniteSet(votes) /\ votes # {}
    BY FS_AddElement DEF StartInv
  <2>4. IsFiniteSet(validators') /\ IsFiniteSet(validators) /\ validators # {}
    BY <1>2 DEF submit_latest_ethereum_block, StartInv
  <2>5. CASE Cardinality(votes) >= get_supermajority_quorum
    <3>1. blockVotes' = {} /\ started' = Some(support(selected_range(votes), votes))
      BY <1>2, <2>5 DEF submit_latest_ethereum_block
    <3> HIDE DEF votes
    <3>2. /\ selected_range(votes).length = RangeSize
          /\ StartBlock(selected_range(votes).start_block)
          /\ support(selected_range(votes), votes).voters >= get_quorum
      BY <2>2, <2>3, <2>4, <2>5, SelectedRange
    <3> DEFINE s == support(selected_range(votes), votes)
    <3>3. s.range = selected_range(votes) /\ s.quorum = get_quorum
      BY DEF support
    <3> HIDE DEF s
    <3>4. DOMAIN started' = {1} /\ started'[1] = s
      BY <3>1 DEF Some, s
    <3>5. StartSupported'
      BY <3>2, <3>3, <3>4 DEF StartSupported, StartBlock, s
    <3>6. IsFiniteSet(blockVotes')
      BY <3>1, FS_EmptySet
    <3> QED BY <2>4, <3>1, <3>5, <3>6 DEF StartInv
  <2>6. CASE ~(Cardinality(votes) >= get_supermajority_quorum)
    <3>1. blockVotes' = votes /\ started' = started
      BY <1>2, <2>6 DEF submit_latest_ethereum_block
    <3> HIDE DEF votes
    <3> QED BY <2>2, <2>3, <2>4, <3>1 DEF StartInv, StartSupported
  <2> QED BY <2>5, <2>6
<1>3. ASSUME NEW author, NEW p, submit_ethereum_events(author, p) PROVE StartInv'
  BY <1>1, <1>3 DEF submit_ethereum_events, StartInv
<1>4. CASE on_idle
  BY <1>1, <1>4 DEF on_idle, StartInv
<1>5. ASSUME NEW tx, QueueAdditionalEthereumEvent(tx) PROVE StartInv'
  BY <1>1, <1>5 DEF QueueAdditionalEthereumEvent, StartInv
<1>6. CASE RestartEventDiscoveryOnRange
  BY <1>1, <1>6 DEF RestartEventDiscoveryOnRange, StartInv
<1>7. ASSUME NEW i, SetEthBridgeInstance(i) PROVE StartInv'
  BY <1>1, <1>7 DEF SetEthBridgeInstance, StartInv
<1>8. ASSUME NEW vs \in ValidatorSets, NewSession(vs) PROVE StartInv'
  BY <1>1, <1>8, FiniteSetsAssumption DEF NewSession
<1>9. CASE UNCHANGED vars
  BY <1>1, <1>9 DEF vars, StartInv
<1> QED
  BY <1>2, <1>3, <1>4, <1>5, <1>6, <1>7, <1>8, <1>9 DEF Next

\* Whatever blocks the authors report and however the set of authors changes while
\* they do: the first range is a full one on a multiple of the range size, and a
\* quorum of the votes had reached its start (submit_latest_ethereum_block).
THEOREM StartIsSupported == Spec => []StartSupported
<1>1. Init => StartInv
  BY FiniteSetsAssumption, FS_EmptySet DEF Init, StartInv, StartSupported, None
<1>2. StartInv => StartSupported
  BY DEF StartInv
<1> QED BY <1>1, <1>2, StartStep, PTL DEF Spec
================================================================================
