--------------------------- MODULE WatchtowerProofs ---------------------------
(***************************************************************************)
(* Theorems about what pallet-watchtower keeps of its proposals, the root  *)
(* that pallet-summary-watchtower asks about, and the verdicts, for every  *)
(* set of references and nodes, every threshold and every length of the    *)
(* ring.                                                                   *)
(***************************************************************************)
EXTENDS WatchtowerLineProofs, FiniteSetTheorems

Zero == [in_favors |-> 0, againsts |-> 0]
Tallies == [in_favors : Nat, againsts : Nat]
ProposalType == [duration : Nat, left : Int] \cup {NoProposal}

\* What is kept of each proposal, given the proposals, statuses, voters, votes and
\* the list of those to remove.
Kept(ps, st, vs, vt, rm) ==
    \A s \in Refs :
        /\ ps[s] = NoProposal =>
              /\ st[s] \in Outcomes \cup {"Unknown"} /\ s \notin rm
              /\ vs[s] = {} /\ vt[s] = Zero
        /\ ps[s] # NoProposal => st[s] # "Unknown" /\ (st[s] \in Outcomes <=> s \in rm)

RecordTypes ==
    /\ minVotingPeriod \in Nat
    /\ proposals \in [Refs -> ProposalType]
    /\ votes \in [Refs -> Tallies]
    /\ DOMAIN voters = Refs /\ voters = [r \in Refs |-> voters[r]]
    /\ \A r \in Refs : IsFiniteSet(voters[r])
    /\ toRemove \subseteq Refs
    /\ towers \subseteq Nodes

RecordsInv ==
    /\ RecordTypes
    /\ Kept(proposals, status, voters, votes, toRemove)
    /\ TallyMatchesVoters

\* A step that closes proposal r changes no other outcome, and no other proposal
\* stops being open or becomes so (finalise_voting).
LEMMA CloseStatuses ==
    ASSUME LineInv, NEW r \in Refs, NEW result \in Outcomes, Closes(r, result)
    PROVE  /\ status'[r] = result
           /\ \A s \in Refs : s # r =>
                 /\ status'[s] \in Outcomes <=> status[s] \in Outcomes
                 /\ status'[s] = "Unknown" <=> status[s] = "Unknown"
                 /\ status'[s] \in {"Queued", "Active"} <=> status[s] \in {"Queued", "Active"}
                 /\ status[s] \in Outcomes => status'[s] = status[s]
<1>1. CASE r \in InternalRefs
  <2>1. /\ status'[r] = result
        /\ dequeued # NoRef => status[dequeued] = "Queued" /\ status'[dequeued] = "Active"
        /\ \A s \in Refs : s # r /\ s # dequeued => status'[s] = status[s]
    BY <1>1, CloseInternal
  <2>2. \A s \in Refs : s # NoRef
    BY WatchtowerAssumption
  <2> QED BY <2>1, <2>2 DEF Outcomes
<1>2. CASE r \notin InternalRefs
  BY <1>2 DEF Closes, CloseVoting, LineInv
<1> QED BY <1>1, <1>2

\* Activating the next proposal sets its end and removes no proposal.
LEMMA NextActiveKeeps ==
    ASSUME RecordTypes, NEW r
    PROVE  /\ withNextActive(r) \in [Refs -> ProposalType]
           /\ \A s \in Refs : withNextActive(r)[s] = NoProposal <=> proposals[s] = NoProposal
<1> DEFINE d == dequeued
<1>1. CASE r \in InternalRefs /\ d # NoRef /\ Exists(d) /\ d \in Refs
  <2>1. withNextActive(r) = [proposals EXCEPT ![d].left = proposals[d].duration]
    BY <1>1 DEF withNextActive
  <2>2. proposals[d] \in [duration : Nat, left : Int]
    BY <1>1 DEF RecordTypes, ProposalType, Exists
  <2>3. [proposals[d] EXCEPT !.left = proposals[d].duration] \in [duration : Nat, left : Int]
    BY <2>2
  <2>4. \A x \in [duration : Nat, left : Int] : x # NoProposal
    BY DEF NoProposal, None
  <2>5. proposals \in [Refs -> ProposalType]
    BY DEF RecordTypes
  <2>6. /\ DOMAIN withNextActive(r) = Refs /\ withNextActive(r) = [s \in Refs |-> withNextActive(r)[s]]
        /\ \A s \in Refs \ {d} : withNextActive(r)[s] = proposals[s]
    BY <2>1, <2>5
  <2>7. withNextActive(r)[d] \in [duration : Nat, left : Int]
    BY <1>1, <2>1, <2>3, <2>5
  <2>8. \A s \in Refs : withNextActive(r)[s] \in ProposalType
    BY <2>5, <2>6, <2>7 DEF ProposalType
  <2>9. withNextActive(r) \in [Refs -> ProposalType]
    BY <2>6, <2>8
  <2>10. \A s \in Refs : withNextActive(r)[s] = NoProposal <=> proposals[s] = NoProposal
    BY <2>2, <2>4, <2>6, <2>7
  <2> QED BY <2>9, <2>10
<1>2. CASE ~(r \in InternalRefs /\ d # NoRef /\ Exists(d))
  BY <1>2 DEF withNextActive, RecordTypes
<1>3. CASE r \in InternalRefs /\ d # NoRef /\ Exists(d) /\ d \notin Refs
  <2>1. withNextActive(r) = [proposals EXCEPT ![d].left = proposals[d].duration]
    BY <1>3 DEF withNextActive
  <2>2. proposals \in [Refs -> ProposalType]
    BY DEF RecordTypes
  <2>3. withNextActive(r) = proposals
    BY <1>3, <2>1, <2>2
  <2> QED BY <2>2, <2>3
<1> QED BY <1>1, <1>2, <1>3

\* What is kept when proposal r, which is still there, is closed.
LEMMA CloseKeeps ==
    ASSUME LineInv, RecordTypes, NEW r \in Refs, NEW result \in Outcomes, Closes(r, result),
           Exists(r), NEW vs, NEW vt, \A s \in Refs : s # r => vs[s] = voters[s] /\ vt[s] = votes[s],
           Kept(proposals, status, voters, votes, toRemove)
    PROVE  Kept(withNextActive(r), status', vs, vt, toRemove \cup {r})
<1>1. /\ status'[r] = result
      /\ \A s \in Refs : s # r =>
            /\ status'[s] \in Outcomes <=> status[s] \in Outcomes
            /\ status'[s] = "Unknown" <=> status[s] = "Unknown"
  BY CloseStatuses
<1>2. \A s \in Refs : withNextActive(r)[s] = NoProposal <=> proposals[s] = NoProposal
  BY NextActiveKeeps
<1>3. result # "Unknown"
  BY DEF Outcomes
<1> QED BY <1>1, <1>2, <1>3 DEF Kept, Exists

\* The weight of a vote is a number (get_watchtower_voting_weight).
LEMMA WeightIsNat ==
    ASSUME towers \subseteq Nodes, NEW who, NEW r
    PROVE  vote_weight(who, r) \in Nat /\ Cardinality(towers) \in Nat
<1>1. IsFiniteSet(towers) /\ IsFiniteSet({n \in towers : OwnerOf[n] = who})
  BY FS_Subset, SummaryWatchtowerAssumption
<1> QED BY <1>1, FS_CardinalityType DEF vote_weight, get_watchtower_voting_weight

\* One more voter counts once more (process_vote, on an internal proposal).
LEMMA OneMoreVoter ==
    ASSUME NEW V, IsFiniteSet(V), NEW who, NEW f \in BOOLEAN, \A v \in V : v.who # who
    PROVE  LET x == [who |-> who, in_favor |-> f]
           IN /\ IsFiniteSet(V \cup {x})
              /\ Cardinality({v \in V \cup {x} : v.in_favor}) =
                    Cardinality({v \in V : v.in_favor}) + (IF f THEN 1 ELSE 0)
              /\ Cardinality({v \in V \cup {x} : ~v.in_favor}) =
                    Cardinality({v \in V : ~v.in_favor}) + (IF f THEN 0 ELSE 1)
<1> DEFINE x == [who |-> who, in_favor |-> f]
           F == {v \in V : v.in_favor}
           A == {v \in V : ~v.in_favor}
<1>1. x \notin V /\ x.in_favor = f
  OBVIOUS
<1>2. IsFiniteSet(F) /\ IsFiniteSet(A) /\ IsFiniteSet(V \cup {x})
  BY FS_Subset, FS_AddElement
<1>3. Cardinality(F) \in Nat /\ Cardinality(A) \in Nat
  BY <1>2, FS_CardinalityType
<1>4. CASE f
  <2>1. {v \in V \cup {x} : v.in_favor} = F \cup {x} /\ {v \in V \cup {x} : ~v.in_favor} = A
    BY <1>1, <1>4
  <2>2. x \notin F
    BY <1>1
  <2>3. Cardinality(F \cup {x}) = Cardinality(F) + 1
    BY <1>2, <2>2, FS_AddElement
  <2>4. Cardinality({v \in V \cup {x} : v.in_favor}) = Cardinality(F) + 1
        /\ Cardinality({v \in V \cup {x} : ~v.in_favor}) = Cardinality(A) + 0
    <3>1. Cardinality(A) = Cardinality(A) + 0
      BY <1>3
    <3> HIDE DEF F, A
    <3> QED BY <2>1, <2>3, <3>1, Zenon
  <2> QED BY <1>2, <1>4, <2>4
<1>5. CASE ~f
  <2>1. {v \in V \cup {x} : v.in_favor} = F /\ {v \in V \cup {x} : ~v.in_favor} = A \cup {x}
    BY <1>1, <1>5
  <2>2. x \notin A
    BY <1>1
  <2>3. Cardinality(A \cup {x}) = Cardinality(A) + 1
    BY <1>2, <2>2, FS_AddElement
  <2>4. Cardinality({v \in V \cup {x} : v.in_favor}) = Cardinality(F) + 0
        /\ Cardinality({v \in V \cup {x} : ~v.in_favor}) = Cardinality(A) + 1
    <3>1. Cardinality(F) = Cardinality(F) + 0
      BY <1>3
    <3> HIDE DEF F, A
    <3> QED BY <2>1, <2>3, <3>1, Zenon
  <2> QED BY <1>2, <1>5, <2>4
<1> QED BY <1>4, <1>5

\* add_proposal.
LEMMA AdmitKeepsRecords ==
    ASSUME LineInv, RecordsInv, NEW r \in Refs, NEW d \in Durations \cup {None}, add_proposal(r, d)
    PROVE  RecordsInv'
<1> USE WatchtowerAssumption
<1>1. /\ status[r] = "Unknown" /\ DOMAIN status = Refs /\ DOMAIN status' = Refs
      /\ status'[r] \in {"Queued", "Active"}
      /\ \A s \in Refs : s # r => status'[s] = status[s]
  BY DEF add_proposal, LineInv
<1>2. UNCHANGED <<minVotingPeriod, votes, voters, toRemove, towers>>
  BY DEF add_proposal
<1>3. to_proposal(d) \in Nat
  BY DEF add_proposal, is_valid, to_proposal, None, RecordsInv, RecordTypes
<1>4. PICK x \in [duration : Nat, left : Int] : proposals' = [proposals EXCEPT ![r] = x]
  <2> DEFINE x == [duration |-> to_proposal(d),
                   left |-> IF r \in InternalRefs /\ activeInternal # NoRef
                            THEN None ELSE to_proposal(d)]
  <2>1. x \in [duration : Nat, left : Int] /\ proposals' = [proposals EXCEPT ![r] = x]
    BY <1>3 DEF add_proposal, None
  <2> QED BY <2>1
<1>5. x # NoProposal
  BY DEF NoProposal, None
<1>6. RecordTypes'
  BY <1>2, <1>4 DEF RecordsInv, RecordTypes, ProposalType
<1>7. proposals[r] = NoProposal /\ votes[r] = Zero /\ voters[r] = {} /\ r \notin toRemove
  BY <1>1 DEF RecordsInv, Kept
<1>8. Kept(proposals', status', voters', votes', toRemove')
  <2>1. "Queued" \notin Outcomes /\ "Active" \notin Outcomes
    BY DEF Outcomes
  <2>2. proposals'[r] = x /\ \A s \in Refs : s # r => proposals'[s] = proposals[s]
    BY <1>4 DEF RecordsInv, RecordTypes
  <2> SUFFICES ASSUME NEW s \in Refs
               PROVE  /\ proposals'[s] = NoProposal =>
                            /\ status'[s] \in Outcomes \cup {"Unknown"} /\ s \notin toRemove'
                            /\ voters'[s] = {} /\ votes'[s] = Zero
                      /\ proposals'[s] # NoProposal =>
                            status'[s] # "Unknown" /\ (status'[s] \in Outcomes <=> s \in toRemove')
    BY DEF Kept
  <2>3. CASE s = r
    BY <1>1, <1>2, <1>5, <1>7, <2>1, <2>2, <2>3
  <2>4. CASE s # r
    BY <1>1, <1>2, <2>2, <2>4 DEF RecordsInv, Kept
  <2> QED BY <2>3, <2>4
<1>9. TallyMatchesVoters'
  <2>1. {v \in voters[r] : v.in_favor} = {} /\ {v \in voters[r] : ~v.in_favor} = {}
    BY <1>7
  <2>2. /\ votes[r].in_favors = Cardinality({v \in voters[r] : v.in_favor})
        /\ votes[r].againsts = Cardinality({v \in voters[r] : ~v.in_favor})
    <3>1. Cardinality({}) = 0
      BY FS_EmptySet
    <3>2. votes[r].in_favors = 0 /\ votes[r].againsts = 0
      BY <1>7 DEF Zero
    <3> QED BY <2>1, <3>1, <3>2
  <2> SUFFICES ASSUME NEW s \in InternalRefs, status'[s] \in {"Queued", "Active"}
               PROVE  /\ votes'[s].in_favors = Cardinality({v \in voters'[s] : v.in_favor})
                      /\ votes'[s].againsts = Cardinality({v \in voters'[s] : ~v.in_favor})
    BY DEF TallyMatchesVoters
  <2>3. CASE s = r
    BY <1>2, <2>2, <2>3
  <2>4. CASE s # r
    BY <1>1, <1>2, <2>4 DEF RecordsInv, TallyMatchesVoters, Refs
  <2> QED BY <2>3, <2>4
<1> QED BY <1>6, <1>8, <1>9 DEF RecordsInv, Kept

\* What finalise_voting leaves, after a vote on proposal r or none.
LEMMA FinaliseKeepsRecords ==
    ASSUME LineInv, RecordsInv, NEW r \in Refs, NEW result \in Outcomes,
           Closes(r, result), Exists(r), finalise_voting(r, result),
           UNCHANGED <<minVotingPeriod, towers>>,
           votes' \in [Refs -> Tallies], DOMAIN voters' = Refs,
           voters' = [s \in Refs |-> voters'[s]], IsFiniteSet(voters'[r]),
           \A s \in Refs : s # r => voters'[s] = voters[s] /\ votes'[s] = votes[s]
    PROVE  RecordsInv'
<1>1. proposals' = withNextActive(r) /\ toRemove' = toRemove \cup {r}
  BY DEF finalise_voting
<1>2. Kept(withNextActive(r), status', voters', votes', toRemove \cup {r})
  BY CloseKeeps DEF RecordsInv
<1>3. Kept(proposals, status, voters, votes, toRemove)'
  BY <1>1, <1>2 DEF Kept
<1>4. RecordTypes'
  BY <1>1, NextActiveKeeps DEF RecordsInv, RecordTypes
<1>5. TallyMatchesVoters'
  <2>1. /\ status'[r] = result
        /\ \A s \in Refs : s # r => (status'[s] \in {"Queued", "Active"}
                                       <=> status[s] \in {"Queued", "Active"})
    BY CloseStatuses
  <2>2. result \notin {"Queued", "Active"}
    BY DEF Outcomes
  <2> QED BY <2>1, <2>2 DEF RecordsInv, TallyMatchesVoters, Refs
<1> QED BY <1>3, <1>4, <1>5 DEF RecordsInv

\* vote.rs, process_vote.
LEMMA VoteKeepsRecords ==
    ASSUME LineInv, RecordsInv, NEW who, NEW r \in Refs, NEW f \in BOOLEAN, process_vote(who, r, f)
    PROVE  RecordsInv'
<1>0. /\ Exists(r) /\ status[r] = "Active" /\ UNCHANGED <<minVotingPeriod, tail, externalRef, towers>>
  BY DEF process_vote
<1>1. ASSUME NEW result \in Outcomes, finalise_voting(r, result) PROVE Closes(r, result)
  BY <1>0, <1>1 DEF Closes, finalise_voting
<1>2. CASE proposal_expired(r)
  <2>1. finalise_voting(r, get_vote_result_on_expiry(r)) /\ UNCHANGED <<votes, voters>>
    BY <1>2 DEF process_vote, finalise_expired_voting
  <2>2. votes' \in [Refs -> Tallies] /\ DOMAIN voters' = Refs
        /\ voters' = [s \in Refs |-> voters'[s]] /\ IsFiniteSet(voters'[r])
    BY <2>1 DEF RecordsInv, RecordTypes
  <2> QED BY <1>0, <1>1, <2>1, <2>2, ResultIsOutcome, FinaliseKeepsRecords
<1>3. CASE ~proposal_expired(r)
  <2> DEFINE w == vote_weight(who, r)
             x == [who |-> who, in_favor |-> f]
             tally == IF f THEN [votes[r] EXCEPT !.in_favors = @ + w]
                           ELSE [votes[r] EXCEPT !.againsts = @ + w]
             result == threshold_achieved(tally)
  <2>1. /\ \A v \in voters[r] : v.who # who
        /\ w > 0
        /\ voters' = [voters EXCEPT ![r] = @ \cup {x}]
        /\ votes' = [votes EXCEPT ![r] = tally]
        /\ IF result # NoRef
           THEN finalise_voting(r, result)
           ELSE UNCHANGED <<proposals, status, activeInternal, queue, head, toRemove, completed>>
    BY <1>3 DEF process_vote
  <2>2. w \in Nat
    BY WeightIsNat DEF RecordsInv, RecordTypes
  <2>3. votes[r] \in Tallies
    BY DEF RecordsInv, RecordTypes
  <2>4. tally \in Tallies
    BY <2>2, <2>3 DEF Tallies
  <2>5. IsFiniteSet(voters[r]) /\ IsFiniteSet(voters[r] \cup {x})
    BY FS_AddElement DEF RecordsInv, RecordTypes
  <2> HIDE DEF w, x, tally, result
  <2>6. /\ votes' \in [Refs -> Tallies] /\ DOMAIN voters' = Refs
        /\ voters' = [s \in Refs |-> voters'[s]] /\ IsFiniteSet(voters'[r])
        /\ voters'[r] = voters[r] \cup {x} /\ votes'[r] = tally
        /\ \A s \in Refs : s # r => voters'[s] = voters[s] /\ votes'[s] = votes[s]
    BY <2>1, <2>4, <2>5 DEF RecordsInv, RecordTypes
  <2>7. CASE result # NoRef
    <3>1. result \in Outcomes
      BY <2>7, ResultIsOutcome DEF result
    <3> QED BY <1>0, <1>1, <2>1, <2>6, <2>7, <3>1, FinaliseKeepsRecords
  <2>8. CASE result = NoRef
    <3>1. UNCHANGED <<proposals, status, toRemove>>
      BY <2>1, <2>8
    <3>2. RecordTypes'
      BY <1>0, <2>6, <3>1 DEF RecordsInv, RecordTypes
    <3>3. Kept(proposals, status, voters, votes, toRemove)'
      BY <1>0, <2>6, <3>1 DEF RecordsInv, Kept, Exists
    <3>4. TallyMatchesVoters'
      <4> SUFFICES ASSUME NEW s \in InternalRefs, status'[s] \in {"Queued", "Active"}
                   PROVE  /\ votes'[s].in_favors = Cardinality({v \in voters'[s] : v.in_favor})
                          /\ votes'[s].againsts = Cardinality({v \in voters'[s] : ~v.in_favor})
        BY DEF TallyMatchesVoters
      <4>1. /\ votes[s].in_favors = Cardinality({v \in voters[s] : v.in_favor})
            /\ votes[s].againsts = Cardinality({v \in voters[s] : ~v.in_favor})
        BY <3>1 DEF RecordsInv, TallyMatchesVoters
      <4>2. CASE s = r
        <5>1. w = 1
          BY <2>1, <4>2 DEF w, vote_weight
        <5>2. /\ tally.in_favors = votes[r].in_favors + (IF f THEN 1 ELSE 0)
              /\ tally.againsts = votes[r].againsts + (IF f THEN 0 ELSE 1)
          BY <2>3, <5>1 DEF tally, Tallies
        <5>3. /\ Cardinality({v \in voters[r] \cup {x} : v.in_favor}) =
                    Cardinality({v \in voters[r] : v.in_favor}) + (IF f THEN 1 ELSE 0)
              /\ Cardinality({v \in voters[r] \cup {x} : ~v.in_favor}) =
                    Cardinality({v \in voters[r] : ~v.in_favor}) + (IF f THEN 0 ELSE 1)
          BY <2>1, <2>5, OneMoreVoter DEF x
        <5> QED BY <2>6, <4>1, <4>2, <5>2, <5>3
      <4>3. CASE s # r
        BY <2>6, <4>1, <4>3 DEF Refs
      <4> QED BY <4>2, <4>3
    <3> QED BY <3>2, <3>3, <3>4 DEF RecordsInv
  <2> QED BY <2>7, <2>8
<1> QED BY <1>2, <1>3

LEMMA FinalisedKeepsRecords ==
    ASSUME LineInv, RecordsInv, NEW r \in Refs, finalise_proposal(r)
    PROVE  RecordsInv'
<1>1. /\ Exists(r) /\ finalise_voting(r, get_vote_result_on_expiry(r))
      /\ Closes(r, get_vote_result_on_expiry(r))
      /\ UNCHANGED <<minVotingPeriod, votes, voters, towers>>
  BY DEF finalise_proposal, finalise_expired_voting, finalise_voting, Closes
<1>2. votes' \in [Refs -> Tallies] /\ DOMAIN voters' = Refs
      /\ voters' = [s \in Refs |-> voters'[s]] /\ IsFiniteSet(voters'[r])
  BY <1>1 DEF RecordsInv, RecordTypes
<1> QED BY <1>1, <1>2, ResultIsOutcome, FinaliseKeepsRecords

\* cleanup_proposals forgets voters of a closed proposal, and then the proposal.
LEMMA CleanKeepsRecords ==
    ASSUME RecordTypes, NEW ps \in [Refs -> ProposalType], NEW rm \in SUBSET Refs,
           Kept(ps, status', voters, votes, rm),
           NEW p \in rm, NEW gone \in SUBSET voters[p], NEW rest, Clean(p, gone, rest, ps, rm),
           UNCHANGED <<minVotingPeriod, towers>>
    PROVE  /\ RecordTypes' /\ Kept(proposals, status, voters, votes, toRemove)'
           /\ \A s \in Refs : status'[s] \in {"Queued", "Active"} =>
                 voters'[s] = voters[s] /\ votes'[s] = votes[s]
<1>0. /\ p \in Refs /\ voters' = [voters EXCEPT ![p] = @ \ gone] /\ IsFiniteSet(voters[p] \ gone)
  BY FS_Subset DEF Clean, RecordTypes
<1>1. /\ DOMAIN voters' = Refs /\ voters' = [r \in Refs |-> voters'[r]]
      /\ \A s \in Refs : IsFiniteSet(voters'[s])
      /\ voters'[p] = voters[p] \ gone
      /\ \A s \in Refs : s # p => voters'[s] = voters[s]
  BY <1>0 DEF RecordTypes
<1>2. ps[p] # NoProposal /\ status'[p] \in Outcomes
  BY <1>0 DEF Kept
<1>3. status'[p] \notin {"Queued", "Active"} /\ status'[p] # "Unknown"
  BY <1>2 DEF Outcomes
<1>4. CASE rest /\ voters[p] = gone
  <2>1. /\ proposals' = [ps EXCEPT ![p] = NoProposal] /\ votes' = [votes EXCEPT ![p] = Zero]
        /\ toRemove' = rm \ {p}
    BY <1>4 DEF Clean, Zero
  <2>2. NoProposal \in ProposalType /\ Zero \in Tallies
    BY DEF ProposalType, Zero, Tallies
  <2>3. /\ proposals'[p] = NoProposal /\ \A s \in Refs : s # p => proposals'[s] = ps[s]
        /\ votes'[p] = Zero /\ \A s \in Refs : s # p => votes'[s] = votes[s]
        /\ proposals' \in [Refs -> ProposalType] /\ votes' \in [Refs -> Tallies]
        /\ toRemove' \subseteq Refs
    BY <1>0, <2>1, <2>2 DEF RecordTypes
  <2>4. RecordTypes'
    BY <1>1, <2>3 DEF RecordTypes
  <2>5. voters'[p] = {}
    BY <1>1, <1>4
  <2>6. Kept(proposals, status, voters, votes, toRemove)'
    BY <1>1, <1>2, <2>1, <2>3, <2>5 DEF Kept
  <2> QED BY <1>1, <1>3, <2>3, <2>4, <2>6
<1>5. CASE ~(rest /\ voters[p] = gone)
  <2>1. proposals' = ps /\ toRemove' = rm /\ votes' = votes
    BY <1>5 DEF Clean
  <2>2. RecordTypes'
    BY <1>1, <2>1 DEF RecordTypes
  <2>3. Kept(proposals, status, voters, votes, toRemove)'
    BY <1>1, <1>2, <2>1 DEF Kept
  <2> QED BY <1>1, <1>3, <2>1, <2>2, <2>3
<1> QED BY <1>4, <1>5

\* The proposal that is next in line is still there.
LEMMA NextIsThere ==
    ASSUME LineInv, RecordsInv, NEW r \in Refs, dequeue
    PROVE  CanClose(r)
<1> SUFFICES ASSUME dequeued # NoRef PROVE Exists(dequeued)
  BY DEF CanClose
<1>1. /\ head \in Nat /\ tail \in Nat /\ head < tail
      /\ dequeued = queue[slot(head)] /\ dequeued \in InternalRefs
  BY Dequeued DEF LineInv, RingInv
<1>2. head \in head..(tail - 1)
  BY <1>1
<1>3. status[dequeued] = "Queued"
  BY <1>1, <1>2 DEF LineInv
<1>4. "Queued" \notin Outcomes \cup {"Unknown"}
  BY DEF Outcomes
<1> QED BY <1>1, <1>3, <1>4 DEF RecordsInv, Kept, Exists, Refs

LEMMA IdleKeepsRecords ==
    ASSUME LineInv, RecordsInv, NEW spare \in BOOLEAN, on_idle(spare)
    PROVE  RecordsInv'
<1> DEFINE r == activeInternal
           ps == IF expiredActive THEN withNextActive(r) ELSE proposals
           rm == IF expiredActive /\ CanClose(r) THEN toRemove \cup {r} ELSE toRemove
<1>1. /\ IF expiredActive THEN CloseVoting(r, "Expired")
         ELSE UNCHANGED <<completed, status, activeInternal, queue, head>>
      /\ \/ \E p \in rm, rest \in {spare, TRUE} :
              \E gone \in IF spare THEN {voters[p]} ELSE SUBSET voters[p] :
                 Clean(p, gone, rest, ps, rm)
         \/ proposals' = ps /\ toRemove' = rm /\ UNCHANGED <<votes, voters>>
      /\ UNCHANGED <<minVotingPeriod, tail, externalRef, towers>>
  BY DEF on_idle
<1>2. /\ ps \in [Refs -> ProposalType] /\ rm \subseteq Refs
      /\ Kept(ps, status', voters, votes, rm)
      /\ \A s \in Refs : status'[s] \in {"Queued", "Active"} => status[s] \in {"Queued", "Active"}
  <2>1. CASE expiredActive
    <3>1. /\ r \in InternalRefs /\ r \in Refs /\ Exists(r) /\ status[r] = "Active"
      BY <2>1 DEF expiredActive, LineInv, Refs
    <3>2. "Expired" \in Outcomes /\ Closes(r, "Expired") /\ dequeue
      BY <1>1, <2>1, <3>1 DEF Closes, CloseVoting, Outcomes
    <3>3. CanClose(r)
      BY <3>1, <3>2, NextIsThere
    <3>4. ps = withNextActive(r) /\ rm = toRemove \cup {r}
      BY <2>1, <3>3
    <3>5. Kept(withNextActive(r), status', voters, votes, toRemove \cup {r})
      BY <3>1, <3>2, CloseKeeps DEF RecordsInv
    <3>6. withNextActive(r) \in [Refs -> ProposalType]
      BY NextActiveKeeps DEF RecordsInv
    <3>7. \A s \in Refs : status'[s] \in {"Queued", "Active"} => status[s] \in {"Queued", "Active"}
      <4>1. /\ status'[r] = "Expired"
            /\ \A s \in Refs : s # r => (status'[s] \in {"Queued", "Active"}
                                           <=> status[s] \in {"Queued", "Active"})
        BY <3>1, <3>2, CloseStatuses
      <4> QED BY <4>1
    <3> QED BY <3>1, <3>4, <3>5, <3>6, <3>7 DEF RecordsInv, RecordTypes
  <2>2. CASE ~expiredActive
    <3>1. ps = proposals /\ rm = toRemove /\ status' = status
      BY <1>1, <2>2
    <3> QED BY <3>1 DEF RecordsInv, RecordTypes
  <2> QED BY <2>1, <2>2
<1> HIDE DEF ps, rm
<1>3. /\ RecordTypes' /\ Kept(proposals, status, voters, votes, toRemove)'
      /\ \A s \in Refs : status'[s] \in {"Queued", "Active"} =>
            voters'[s] = voters[s] /\ votes'[s] = votes[s]
  <2>1. CASE proposals' = ps /\ toRemove' = rm /\ UNCHANGED <<votes, voters>>
    <3>1. RecordTypes'
      BY <1>1, <1>2, <2>1 DEF RecordsInv, RecordTypes
    <3>2. Kept(proposals, status, voters, votes, toRemove)'
      BY <1>2, <2>1 DEF Kept
    <3> QED BY <2>1, <3>1, <3>2
  <2>2. ASSUME NEW p \in rm, NEW rest \in {spare, TRUE},
               NEW gone \in (IF spare THEN {voters[p]} ELSE SUBSET voters[p]),
               Clean(p, gone, rest, ps, rm)
        PROVE  /\ RecordTypes' /\ Kept(proposals, status, voters, votes, toRemove)'
               /\ \A s \in Refs : status'[s] \in {"Queued", "Active"} =>
                     voters'[s] = voters[s] /\ votes'[s] = votes[s]
    <3>1. gone \in SUBSET voters[p] /\ rm \in SUBSET Refs
      BY <1>2, <2>2
    <3> QED BY <1>1, <1>2, <2>2, <3>1, CleanKeepsRecords DEF RecordsInv
  <2> QED BY <1>1, <2>1, <2>2
<1>4. TallyMatchesVoters'
  BY <1>2, <1>3 DEF RecordsInv, TallyMatchesVoters, Refs
<1> QED BY <1>3, <1>4 DEF RecordsInv

-----------------------------------------------------------------------------
LEMMA StepKeepsRecords ==
    ASSUME LineInv, WorkersInv, RecordsInv, [Next]_vars
    PROVE  RecordsInv'
<1> USE DEF Refs
<1>1. CASE Submit
  BY <1>1, AdmitKeepsRecords DEF Submit, submit_external_proposal,
     signed_submit_external_proposal, submit_proposal
<1>2. CASE OwnersVote
  BY <1>2, VoteKeepsRecords DEF OwnersVote, vote, signed_vote
<1>3. CASE Finalise
  BY <1>3, FinalisedKeepsRecords DEF Finalise
<1>4. CASE Idle
  BY <1>4, IdleKeepsRecords DEF Idle
<1>5. CASE Administer
  <2>1. /\ UNCHANGED <<proposals, status, votes, voters, toRemove>>
        /\ minVotingPeriod' \in Nat /\ towers' \subseteq Nodes
    BY <1>5, WatchtowerAssumption, SummaryWatchtowerAssumption
       DEF Administer, NodesChange, set_admin_config, RecordsInv, RecordTypes
  <2>2. RecordTypes'
    BY <2>1 DEF RecordsInv, RecordTypes
  <2> QED BY <2>1, <2>2 DEF RecordsInv, Kept, TallyMatchesVoters
<1>6. ASSUME NEW v \in pool, Included(v) PROVE RecordsInv'
  <2>1. process_vote(v.node, v.ref, v.in_favor)
    BY <1>6 DEF Included, unsigned_vote
  <2>2. v.ref \in Refs /\ v.in_favor \in BOOLEAN
    BY SummaryWatchtowerAssumption DEF WorkersInv
  <2> QED BY <2>1, <2>2, VoteKeepsRecords
<1>7. CASE SwNewBlock
  <2>1. /\ UNCHANGED <<minVotingPeriod, status, votes, voters, toRemove, towers>>
        /\ proposals' = [r \in Refs |-> IF proposals[r].left > 0
                                        THEN [proposals[r] EXCEPT !.left = @ - 1]
                                        ELSE proposals[r]]
    BY <1>7 DEF SwNewBlock, WtNewBlock
  <2>2. ASSUME NEW r \in Refs
        PROVE  proposals'[r] \in ProposalType
               /\ (proposals'[r] = NoProposal <=> proposals[r] = NoProposal)
    <3>1. CASE proposals[r] = NoProposal
      BY <2>1, <3>1 DEF NoProposal, None, ProposalType
    <3>2. CASE proposals[r] \in [duration : Nat, left : Int]
      BY <2>1, <3>2 DEF NoProposal, None, ProposalType
    <3> QED BY <3>1, <3>2 DEF RecordsInv, RecordTypes, ProposalType
  <2>3. RecordTypes'
    BY <2>1, <2>2 DEF RecordsInv, RecordTypes
  <2>4. Kept(proposals, status, voters, votes, toRemove)'
    BY <2>1, <2>2 DEF RecordsInv, Kept
  <2> QED BY <2>1, <2>3, <2>4 DEF RecordsInv, TallyMatchesVoters
<1>8. CASE (\E n \in Nodes : offchain_worker(n)) \/ UNCHANGED vars
  <2>1. UNCHANGED <<minVotingPeriod, proposals, status, votes, voters, toRemove, towers>>
    BY <1>8 DEF offchain_worker, wtVars, vars
  <2> QED BY <2>1 DEF RecordsInv, RecordTypes, Kept, TallyMatchesVoters
<1> QED BY <1>1, <1>2, <1>3, <1>4, <1>5, <1>6, <1>7, <1>8 DEF Next, WtStep

LEMMA RecordsStayConsistent == Spec => []RecordsInv
<1>1. Init => RecordsInv
  <2> SUFFICES ASSUME Init PROVE RecordsInv
    OBVIOUS
  <2>1. /\ minVotingPeriod \in VotingPeriods /\ towers = Nodes /\ toRemove = {}
        /\ proposals = [r \in Refs |-> NoProposal] /\ status = [r \in Refs |-> "Unknown"]
        /\ votes = [r \in Refs |-> Zero] /\ voters = [r \in Refs |-> {}]
    BY DEF Init, WtInit, Zero
  <2>2. IsFiniteSet({})
    BY FS_EmptySet
  <2>3. RecordTypes
    BY <2>1, <2>2, WatchtowerAssumption DEF RecordTypes, ProposalType, Tallies, Zero
  <2>4. Kept(proposals, status, voters, votes, toRemove)
    BY <2>1 DEF Kept
  <2>5. TallyMatchesVoters
    BY <2>1 DEF TallyMatchesVoters, Refs
  <2> QED BY <2>3, <2>4, <2>5 DEF RecordsInv
<1> QED BY <1>1, StepKeepsRecords, LineStaysConsistent, WorkersVoteOnRoots, PTL DEF Spec

-----------------------------------------------------------------------------
\* The nodes are asked about a root exactly while its proposal is active
\* (on_voting_completed, on_proposal_submitted).
RootInv ==
    /\ rootInfo # NoRef => rootInfo = activeInternal
    /\ activeInternal \in RootRefs => rootInfo = activeInternal

\* What the hooks make of a step with one of the three shapes.
LEMMA HooksFollow ==
    ASSUME LineInv, ToldOnce, CompletedType, WorkersInv, RootInv, LineShape, Hooks
    PROVE  RootInv'
<1> USE WatchtowerAssumption, SummaryWatchtowerAssumption DEF Refs
<1>0. rootInfo' = LET kept == IF rootInfo # NoRef /\ Completed(rootInfo) THEN NoRef ELSE rootInfo
                      new == {r \in RootRefs : Activated(r)}
                  IN IF new = {} THEN kept ELSE CHOOSE r \in new : TRUE
  BY DEF Hooks, process_new_proposal, on_voting_completed
<1>1. ASSUME NEW r \in Refs, Admits(r) PROVE RootInv'
  <2>1. /\ completed' = completed /\ status[r] = "Unknown"
        /\ \A s \in Refs : s # r => status'[s] = status[s]
    BY <1>1 DEF Admits, LineInv
  <2>2. \A s : ~Completed(s)
    BY <2>1 DEF Completed
  <2>3. CASE r \in InternalRefs /\ activeInternal = NoRef
    <3>1. activeInternal' = r /\ status'[r] = "Active" /\ rootInfo = NoRef
      BY <1>1, <2>3 DEF Admits, LineInv, RootInv
    <3>2. {s \in RootRefs : Activated(s)} = {r} \cap RootRefs
      BY <2>1, <3>1 DEF Activated
    <3>3. rootInfo' = IF r \in RootRefs THEN r ELSE NoRef
      BY <1>0, <2>2, <3>1, <3>2
    <3> QED BY <3>1, <3>3 DEF RootInv
  <2>4. CASE ~(r \in InternalRefs /\ activeInternal = NoRef)
    <3>1. activeInternal' = activeInternal /\ (r \in InternalRefs => status'[r] = "Queued")
      BY <1>1, <2>4 DEF Admits, LineInv
    <3>2. {s \in RootRefs : Activated(s)} = {}
      BY <2>1, <3>1 DEF Activated
    <3>3. rootInfo' = rootInfo
      BY <1>0, <2>2, <3>2
    <3> QED BY <3>1, <3>3 DEF RootInv
  <2> QED BY <2>3, <2>4
<1>2. ASSUME NEW r \in Refs, NEW result \in Outcomes, Closes(r, result) PROVE RootInv'
  <2>1. /\ completed' = [completed EXCEPT ![r] = Append(completed[r], result)]
        /\ status[r] = "Active"
    BY <1>2 DEF Closes, CloseVoting
  <2>2. CASE r \notin InternalRefs
    <3>1. activeInternal' = activeInternal /\ \A s \in InternalRefs : status'[s] = status[s]
      BY <1>2, <2>2 DEF Closes, CloseVoting, LineInv
    <3>2. {s \in RootRefs : Activated(s)} = {}
      BY <3>1 DEF Activated
    <3>3. rootInfo # NoRef => ~Completed(rootInfo)
      BY <2>1, <2>2 DEF Completed, WorkersInv
    <3>4. rootInfo' = rootInfo
      BY <1>0, <3>2, <3>3
    <3> QED BY <3>1, <3>4 DEF RootInv
  <2>3. CASE r \in InternalRefs
    <3>1. /\ activeInternal = r /\ activeInternal' = dequeued
          /\ dequeued # NoRef => /\ dequeued \in InternalRefs /\ dequeued # r
                                 /\ status[dequeued] = "Queued" /\ status'[dequeued] = "Active"
          /\ status'[r] = result
          /\ \A s \in Refs : s # r /\ s # dequeued => status'[s] = status[s]
      BY <1>2, <2>3, CloseInternal
    <3>2. {s \in RootRefs : Activated(s)} = {dequeued} \cap RootRefs
      BY <2>1, <3>1 DEF Activated, Outcomes
    <3>3. completed[r] = <<>>
      BY <2>1 DEF ToldOnce, Outcomes
    <3>4. Append(completed[r], result) # completed[r]
      BY <3>3
    <3>5. Completed(r)
      BY <2>1, <3>4 DEF Completed, CompletedType
    <3>6. rootInfo' = IF dequeued \in RootRefs THEN dequeued ELSE NoRef
      <4>1. rootInfo = NoRef \/ rootInfo = r
        BY <3>1 DEF RootInv
      <4> QED BY <1>0, <3>2, <3>5, <4>1
    <3> QED BY <3>1, <3>6 DEF RootInv
  <2> QED BY <2>2, <2>3
<1>3. CASE UNCHANGED lineVars
  <2>1. /\ activeInternal' = activeInternal /\ \A s : ~Completed(s)
        /\ {s \in RootRefs : Activated(s)} = {}
    BY <1>3 DEF lineVars, Completed, Activated
  <2> QED BY <1>0, <2>1 DEF RootInv
<1> QED BY <1>1, <1>2, <1>3 DEF LineShape

\* The line, the tallies, what is left to clean up and the root that nodes verify
\* agree between any two steps of the two pallets (add_proposal, process_vote,
\* finalise_voting, on_idle and the hooks).
THEOREM PalletsStayInAgreement == Spec => []PalletsAgree
<1>1. Init => RootInv
  <2> SUFFICES ASSUME Init PROVE RootInv
    OBVIOUS
  <2>1. rootInfo = NoRef /\ activeInternal = NoRef
    BY DEF Init, WtInit, SwInit
  <2> QED BY <2>1, WatchtowerAssumption, SummaryWatchtowerAssumption DEF RootInv, Refs
<1>2. ASSUME LineInv, ToldOnce, CompletedType, WorkersInv, RootInv, [Next]_vars
      PROVE  RootInv'
  <2>1. CASE WtStep
    BY <1>2, <2>1, StepShape, HooksFollow DEF WtStep
  <2>2. CASE (\E n \in Nodes : offchain_worker(n)) \/ SwNewBlock \/ UNCHANGED vars
    <3>1. UNCHANGED <<rootInfo, activeInternal>>
      BY <2>2 DEF offchain_worker, wtVars, SwNewBlock, WtNewBlock, vars
    <3> QED BY <1>2, <3>1 DEF RootInv
  <2> QED BY <1>2, <2>1, <2>2 DEF Next
<1>3. Spec => []RootInv
  BY <1>1, <1>2, LineStaysConsistent, OutcomesOnRecord, WorkersVoteOnRoots, PTL DEF Spec
<1>4. ASSUME LineInv, RecordsInv PROVE NothingLeftBehind
  <2> SUFFICES ASSUME NEW r \in externalRef
               PROVE  /\ ~Exists(r) => /\ status[r] \in Outcomes
                                       /\ voters[r] = {} /\ r \notin toRemove
                                       /\ votes[r] = Zero
                      /\ Exists(r) => (status[r] \in Outcomes <=> r \in toRemove)
    BY DEF NothingLeftBehind, Zero
  <2>1. r \in Refs /\ status[r] # "Unknown"
    BY <1>4 DEF LineInv
  <2> QED BY <1>4, <2>1 DEF RecordsInv, Kept, Exists
<1>5. ASSUME LineIsConsistent, LineInv, RecordsInv, RootInv PROVE PalletsAgree
  BY <1>4, <1>5 DEF PalletsAgree, RecordsInv, RootInv
<1> QED BY <1>3, <1>5, LineConsistent, LineStaysConsistent, RecordsStayConsistent, PTL

-----------------------------------------------------------------------------
\* Votes on roots, counted or on their way, say what the root recomputes to.
VotesHonest(vt) ==
    \A r \in RootRefs : /\ vt[r].in_favors > 0 => r \in GoodRoots
                        /\ vt[r].againsts > 0 => r \notin GoodRoots

HonestInv ==
    /\ VotesHonest(votes)
    /\ \A v \in pool : v.in_favor <=> v.ref \in GoodRoots
    /\ VerdictIsHonest

\* A threshold above zero is not reached by no votes (threshold_achieved).
LEMMA VerdictNeedsVotes ==
    ASSUME Threshold > 0, towers \subseteq Nodes, NEW t \in Tallies,
           threshold_achieved(t) # NoRef
    PROVE  /\ threshold_achieved(t) = "Passed" => t.in_favors > 0
           /\ threshold_achieved(t) = "Failed" => t.againsts > 0
<1>1. Cardinality(towers) \in Nat
  BY WeightIsNat
<1>2. Cardinality(towers) # 0
  BY DEF threshold_achieved
<1>3. Threshold * Cardinality(towers) \in Nat /\ Threshold * Cardinality(towers) >= 1
  <2>1. ASSUME NEW m \in Nat, NEW n \in Nat, m > 0, n # 0 PROVE m * n \in Nat /\ m * n >= 1
    BY <2>1
  <2>2. Threshold \in Nat
    BY WatchtowerAssumption
  <2> QED BY <1>1, <1>2, <2>1, <2>2
<1>4. min_votes >= 1 /\ min_votes \in Nat
  <2>1. ASSUME NEW m \in Nat, m >= 1 PROVE (m + 99) \div 100 >= 1 /\ (m + 99) \div 100 \in Nat
    BY <2>1
  <2> QED BY <1>3, <2>1 DEF min_votes
<1> QED BY <1>2, <1>4 DEF threshold_achieved, Tallies

\* Closing proposal r with an honest result keeps all verdicts honest.
LEMMA CloseHonestly ==
    ASSUME LineInv, VerdictIsHonest, NEW r \in Refs, NEW result \in Outcomes, Closes(r, result),
           r \in RootRefs => /\ result = "Passed" => r \in GoodRoots
                             /\ result = "Failed" => r \notin GoodRoots
    PROVE  VerdictIsHonest'
<1>1. /\ status'[r] = result
      /\ \A s \in Refs : s # r => /\ status'[s] \in Outcomes <=> status[s] \in Outcomes
                                  /\ status[s] \in Outcomes => status'[s] = status[s]
  BY CloseStatuses
<1>2. RootRefs \subseteq Refs /\ "Passed" \in Outcomes /\ "Failed" \in Outcomes
  BY SummaryWatchtowerAssumption DEF Refs, Outcomes
<1> QED BY <1>1, <1>2 DEF VerdictIsHonest

\* A vote on a root that counts says what the root recomputes to.
VoteIsHonest(who, r, f) ==
    r \in RootRefs /\ vote_weight(who, r) > 0 => (f <=> r \in GoodRoots)

LEMMA VoteHonestly ==
    ASSUME Threshold > 0, LineInv, RecordsInv, VotesHonest(votes), VerdictIsHonest,
           NEW who, NEW r \in Refs, NEW f \in BOOLEAN, process_vote(who, r, f),
           VoteIsHonest(who, r, f)
    PROVE  VotesHonest(votes') /\ VerdictIsHonest'
<1> USE DEF VoteIsHonest
<1>0. /\ status[r] = "Active" /\ UNCHANGED <<tail, externalRef>>
  BY DEF process_vote
<1>1. ASSUME NEW result \in Outcomes, finalise_voting(r, result) PROVE Closes(r, result)
  BY <1>0, <1>1 DEF Closes, finalise_voting
<1>2. CASE proposal_expired(r)
  <2>1. finalise_voting(r, get_vote_result_on_expiry(r)) /\ UNCHANGED votes
    BY <1>2 DEF process_vote, finalise_expired_voting
  <2>2. r \in RootRefs => get_vote_result_on_expiry(r) = "Expired"
    BY SummaryWatchtowerAssumption DEF get_vote_result_on_expiry
  <2> QED BY <1>1, <2>1, <2>2, ResultIsOutcome, CloseHonestly
<1>3. CASE ~proposal_expired(r)
  <2> DEFINE w == vote_weight(who, r)
             tally == IF f THEN [votes[r] EXCEPT !.in_favors = @ + w]
                           ELSE [votes[r] EXCEPT !.againsts = @ + w]
             result == threshold_achieved(tally)
  <2>1. /\ w > 0
        /\ votes' = [votes EXCEPT ![r] = tally]
        /\ IF result # NoRef THEN finalise_voting(r, result) ELSE UNCHANGED status
    BY <1>3 DEF process_vote
  <2>2. w \in Nat /\ towers \subseteq Nodes
    BY WeightIsNat DEF RecordsInv, RecordTypes
  <2>3. votes[r] \in Tallies /\ votes \in [Refs -> Tallies]
    BY DEF RecordsInv, RecordTypes
  <2>4. tally \in Tallies
    BY <2>2, <2>3 DEF Tallies
  <2>5. r \in RootRefs => /\ tally.in_favors > 0 => r \in GoodRoots
                          /\ tally.againsts > 0 => r \notin GoodRoots
    <3>1. CASE f
      BY <2>1, <2>2, <2>3, <3>1 DEF VotesHonest, Tallies
    <3>2. CASE ~f
      BY <2>1, <2>2, <2>3, <3>2 DEF VotesHonest, Tallies
    <3> QED BY <3>1, <3>2
  <2> HIDE DEF w, tally, result
  <2>6. VotesHonest(votes')
    <3>1. votes'[r] = tally /\ \A s \in Refs : s # r => votes'[s] = votes[s]
      BY <2>1, <2>3
    <3>2. RootRefs \subseteq Refs
      BY SummaryWatchtowerAssumption DEF Refs
    <3> QED BY <2>5, <3>1, <3>2 DEF VotesHonest
  <2>7. CASE result # NoRef
    <3>1. result \in Outcomes
      BY <2>7, ResultIsOutcome DEF result
    <3>2. /\ result = "Passed" => tally.in_favors > 0
          /\ result = "Failed" => tally.againsts > 0
      BY <2>2, <2>4, <2>7, VerdictNeedsVotes DEF result
    <3> QED BY <1>1, <2>1, <2>5, <2>6, <2>7, <3>1, <3>2, CloseHonestly
  <2>8. CASE result = NoRef
    BY <2>1, <2>6, <2>8 DEF VerdictIsHonest
  <2> QED BY <2>7, <2>8
<1> QED BY <1>2, <1>3

\* When nodes vote with their workers only and some votes are needed, a root is
\* never decided against what it recomputes to: whatever the sizes of the sets of
\* nodes, their changes, late and repeated votes (offchain_worker, the pool,
\* threshold_achieved, cleanup_proposals).
THEOREM VerdictsAreHonest ==
    ASSUME Owners \cap Nodes = {}, Threshold > 0
    PROVE  Spec => []VerdictIsHonest
<1> USE WatchtowerAssumption, SummaryWatchtowerAssumption DEF Refs
<1>1. Init => HonestInv
  <2> SUFFICES ASSUME Init PROVE HonestInv
    OBVIOUS
  <2>1. /\ pool = {} /\ status = [r \in Refs |-> "Unknown"]
        /\ votes = [r \in Refs |-> [in_favors |-> 0, againsts |-> 0]]
    BY DEF Init, WtInit, SwInit
  <2> QED BY <2>1 DEF HonestInv, VotesHonest, VerdictIsHonest
<1>2. ASSUME LineInv, WorkersInv, RecordsInv, HonestInv, [Next]_vars PROVE HonestInv'
  <2>0. VotesHonest(votes) /\ VerdictIsHonest /\ \A v \in pool : v.in_favor <=> v.ref \in GoodRoots
    BY <1>2 DEF HonestInv
  <2>1. SUFFICES /\ VotesHonest(votes') /\ VerdictIsHonest'
                 /\ \A v \in pool' : v.in_favor <=> v.ref \in GoodRoots
    BY DEF HonestInv, VotesHonest
  <2>2. \A v \in pool' : v.in_favor <=> v.ref \in GoodRoots
    <3>1. ASSUME NEW n \in Nodes, offchain_worker(n), NEW v \in pool'
          PROVE  v.in_favor <=> v.ref \in GoodRoots
      <4> DEFINE x == [node |-> n, ref |-> rootInfo, in_favor |-> validate_root(rootInfo)]
      <4>1. v \in pool \/ v = x
        BY <3>1 DEF offchain_worker, submit_vote
      <4>2. x.in_favor = validate_root(rootInfo) /\ x.ref = rootInfo
        OBVIOUS
      <4>3. validate_root(rootInfo) <=> rootInfo \in GoodRoots
        BY DEF validate_root
      <4> HIDE DEF x
      <4> QED BY <2>0, <4>1, <4>2, <4>3, Zenon
    <3>2. CASE WtStep
      BY <2>0, <3>2 DEF WtStep, Included
    <3>3. CASE SwNewBlock \/ UNCHANGED vars
      BY <2>0, <3>3 DEF SwNewBlock, vars
    <3> QED BY <1>2, <3>1, <3>2, <3>3 DEF Next
  <2>3. CASE Submit
    <3>1. PICK r \in Refs : \E d : add_proposal(r, d)
      BY <2>3 DEF Submit, submit_external_proposal, signed_submit_external_proposal,
         submit_proposal
    <3>2. votes' = votes
      BY <3>1 DEF add_proposal
    <3>3. \A s \in Refs : status'[s] = status[s] \/ status'[s] \in {"Queued", "Active"}
      BY <1>2, <3>1 DEF add_proposal, LineInv
    <3> QED BY <2>0, <2>2, <3>2, <3>3 DEF VerdictIsHonest
  <2>4. CASE OwnersVote
    <3>1. PICK who \in Owners, r \in Refs, f \in BOOLEAN : process_vote(who, r, f)
      BY <2>4 DEF OwnersVote, vote, signed_vote
    <3>2. r \in RootRefs => ~(vote_weight(who, r) > 0)
      BY <1>2 DEF vote_weight, RecordsInv, RecordTypes
    <3>3. VoteIsHonest(who, r, f)
      BY <3>2, Zenon DEF VoteIsHonest
    <3>4. VotesHonest(votes') /\ VerdictIsHonest'
      BY <1>2, <2>0, <3>1, <3>3, VoteHonestly
    <3> QED BY <2>2, <3>4
  <2>5. CASE Finalise
    <3>1. PICK r \in Refs : finalise_proposal(r)
      BY <2>5 DEF Finalise
    <3>2. Closes(r, get_vote_result_on_expiry(r)) /\ votes' = votes
      BY <3>1 DEF finalise_proposal, finalise_expired_voting, finalise_voting, Closes
    <3>3. r \in RootRefs => get_vote_result_on_expiry(r) = "Expired"
      BY DEF get_vote_result_on_expiry
    <3> QED BY <1>2, <2>0, <2>2, <3>2, <3>3, ResultIsOutcome, CloseHonestly
  <2>6. CASE Idle
    <3>1. PICK spare \in BOOLEAN : on_idle(spare)
      BY <2>6 DEF Idle
    <3>2. VotesHonest(votes')
      <4>1. votes' = votes \/ \E p : votes' = [votes EXCEPT ![p] = Zero]
        BY <3>1 DEF on_idle, Clean, Zero
      <4>2. \A s \in RootRefs : votes'[s] = votes[s] \/ votes'[s] = Zero
        BY <1>2, <4>1 DEF RecordsInv, RecordTypes
      <4> QED BY <2>0, <4>2 DEF VotesHonest, Zero
    <3>3. VerdictIsHonest'
      <4>1. CASE expiredActive
        <5>1. /\ CloseVoting(activeInternal, "Expired") /\ UNCHANGED <<tail, externalRef>>
              /\ activeInternal \in InternalRefs /\ status[activeInternal] = "Active"
          BY <1>2, <3>1, <4>1 DEF on_idle, expiredActive, LineInv
        <5>2. Closes(activeInternal, "Expired") /\ "Expired" \in Outcomes
          BY <5>1 DEF Closes, Outcomes
        <5> QED BY <1>2, <2>0, <5>1, <5>2, CloseHonestly
      <4>2. CASE ~expiredActive
        BY <2>0, <3>1, <4>2 DEF on_idle, VerdictIsHonest
      <4> QED BY <4>1, <4>2
    <3> QED BY <2>2, <3>2, <3>3
  <2>7. ASSUME NEW v \in pool, Included(v) PROVE VotesHonest(votes') /\ VerdictIsHonest'
    <3>1. process_vote(v.node, v.ref, v.in_favor)
      BY <2>7 DEF Included, unsigned_vote
    <3>2. v.ref \in Refs /\ v.in_favor \in BOOLEAN
      BY <1>2 DEF WorkersInv
    <3>3. VoteIsHonest(v.node, v.ref, v.in_favor)
      BY <2>0 DEF VoteIsHonest
    <3> QED BY <1>2, <2>0, <3>1, <3>2, <3>3, VoteHonestly
  <2>8. CASE Administer \/ (\E n \in Nodes : offchain_worker(n)) \/ SwNewBlock \/ UNCHANGED vars
    <3>1. UNCHANGED <<votes, status>>
      BY <2>8 DEF Administer, NodesChange, set_admin_config, offchain_worker, wtVars, SwNewBlock,
         WtNewBlock, vars
    <3> QED BY <2>0, <2>2, <3>1 DEF VerdictIsHonest
  <2> QED BY <1>2, <2>2, <2>3, <2>4, <2>5, <2>6, <2>7, <2>8 DEF Next, WtStep
<1>3. HonestInv => VerdictIsHonest
  BY DEF HonestInv
<1> QED BY <1>1, <1>2, <1>3, LineStaysConsistent, WorkersVoteOnRoots, RecordsStayConsistent, PTL
        DEF Spec
================================================================================
