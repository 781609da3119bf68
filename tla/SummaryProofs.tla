----------------------------- MODULE SummaryProofs -----------------------------
(***************************************************************************)
(* Theorems about the roots of pallet-summary, for every set of authors,   *)
(* every number of roots and every period.                                 *)
(***************************************************************************)
EXTENDS Summary, TLAPS

Voter == UNION ValidatorSets
Root == [from : Nat, to : Nat, hash : Hashes, added_by : Voter, is_validated : BOOLEAN,
         is_finalised : BOOLEAN, tx_id : Nat]
Thresholds == {required_for(Cardinality(vs)) : vs \in ValidatorSets}
Ballot == [ayes : SUBSET Voter, nays : SUBSET Voter, threshold : Thresholds,
           end_of_voting_period : Nat]
ExternalStatuses == {"None", "ValidationInProgress", "PendingAdminReview", "Accepted"}

TypeInv ==
    /\ now \in Nat /\ nextBlockToProcess \in Nat /\ moved \in BOOLEAN
    /\ schedulePeriod \in Nat \ {0} /\ votingPeriod \in Nat
    /\ validators \in ValidatorSets
    /\ config \in [auto : BOOLEAN, external : BOOLEAN]
    /\ roots \in Seq(Root)
    /\ votes \in Seq(Ballot) /\ Len(votes) = Len(roots)
    /\ externalStatus \in Seq(ExternalStatuses) /\ Len(externalStatus) = Len(roots)
    /\ pendingApproval \subseteq 1..Len(roots)
    /\ externalRef \subseteq 1..Len(roots) /\ adminReviews \subseteq 1..Len(roots)
    /\ published \in Seq(Nat) /\ anchorRoots \in Seq(Nat) /\ answered \in Seq(BOOLEAN)

-----------------------------------------------------------------------------
\* Lists: their entries, and what appending, joining and replacing do to them.
LEMMA LenIsNat ==
    ASSUME NEW S, NEW s \in Seq(S)
    PROVE  Len(s) \in Nat /\ DOMAIN s = 1..Len(s) /\ s \in [1..Len(s) -> S]
OBVIOUS

LEMMA EntryOf ==
    ASSUME NEW S, NEW s \in Seq(S), NEW i \in 1..Len(s)
    PROVE  s[i] \in S
OBVIOUS

LEMMA Appended ==
    ASSUME NEW S, NEW s \in Seq(S), NEW x \in S
    PROVE  /\ Append(s, x) \in Seq(S) /\ Len(Append(s, x)) = Len(s) + 1
           /\ Append(s, x)[Len(s) + 1] = x
           /\ \A i \in 1..Len(s) : Append(s, x)[i] = s[i]
OBVIOUS

LEMMA Joined ==
    ASSUME NEW S, NEW s \in Seq(S), NEW t \in Seq(S)
    PROVE  /\ s \o t \in Seq(S) /\ Len(s \o t) = Len(s) + Len(t)
           /\ \A i \in 1..Len(s) : (s \o t)[i] = s[i]
           /\ \A i \in (Len(s) + 1)..(Len(s) + Len(t)) : (s \o t)[i] = t[i - Len(s)]
OBVIOUS

LEMMA EmptyList == Len(<<>>) = 0 /\ \A S : <<>> \in Seq(S)
OBVIOUS

LEMMA ReplaceEntry ==
    ASSUME NEW S, NEW s \in Seq(S), NEW i \in 1..Len(s), NEW x \in S
    PROVE  /\ [s EXCEPT ![i] = x] \in Seq(S)
           /\ Len([s EXCEPT ![i] = x]) = Len(s)
           /\ [s EXCEPT ![i] = x][i] = x
           /\ \A j \in 1..Len(s) : j # i => [s EXCEPT ![i] = x][j] = s[j]
<1>1. s \in [1..Len(s) -> S] /\ Len(s) \in Nat
  BY LenIsNat
<1>2. [s EXCEPT ![i] = x] \in [1..Len(s) -> S]
  BY <1>1
<1>3. [s EXCEPT ![i] = x] \in Seq(S) /\ Len([s EXCEPT ![i] = x]) = Len(s)
  BY <1>1, <1>2
<1> QED BY <1>1, <1>3

\* What the steps that hand a root over or note an answer leave of it.
Unmoved(r, q) ==
    /\ q \in Root /\ q.from = r.from /\ q.to = r.to /\ q.hash = r.hash
    /\ q.added_by = r.added_by /\ q.is_validated = r.is_validated

\* process_accepted_root touches the transaction of its root, and nothing else of
\* any root.
LEMMA HandOver ==
    ASSUME NEW rs \in Seq(Root), NEW c \in 1..Len(rs), published \in Seq(Nat),
           anchorRoots \in Seq(Nat), process_accepted_root(c, rs)
    PROVE  /\ published' \in Seq(Nat) /\ anchorRoots' \in Seq(Nat)
           /\ roots' \in Seq(Root) /\ Len(roots') = Len(rs)
           /\ \A d \in 1..Len(rs) : Unmoved(rs[d], roots'[d]) /\ (d # c => roots'[d] = rs[d])
           /\ roots'[c] = rs[c] \/ roots'[c] = [rs[c] EXCEPT !.tx_id = Len(published) + 1]
<1>0. \A d \in 1..Len(rs) : rs[d] \in Root
  BY EntryOf
<1>3. published' \in Seq(Nat) /\ anchorRoots' \in Seq(Nat)
  <2>1. c \in Nat
    BY LenIsNat
  <2>2. Append(published, c) \in Seq(Nat) /\ Append(anchorRoots, c) \in Seq(Nat)
    BY <2>1, Appended
  <2> QED BY <2>2, Zenon DEF process_accepted_root, send_root_to_ethereum, outVars
<1>1. CASE roots' = rs
  BY <1>0, <1>1, <1>3 DEF Unmoved
<1>2. CASE roots' = [rs EXCEPT ![c].tx_id = Len(published) + 1]
  <2> DEFINE x == [rs[c] EXCEPT !.tx_id = Len(published) + 1]
  <2>1. Len(published) + 1 \in Nat
    BY LenIsNat
  <2>2. x \in Root /\ Unmoved(rs[c], x)
    BY <1>0, <2>1, Zenon DEF Root, Unmoved
  <2>3. roots' = [rs EXCEPT ![c] = x]
    BY <1>2
  <2> HIDE DEF x
  <2>4. /\ roots' \in Seq(Root) /\ Len(roots') = Len(rs) /\ roots'[c] = x
        /\ \A j \in 1..Len(rs) : j # c => roots'[j] = rs[j]
    BY <2>2, <2>3, ReplaceEntry
  <2>5. \A d \in 1..Len(rs) : Unmoved(rs[d], rs[d])
    BY <1>0 DEF Unmoved
  <2> QED BY <1>3, <2>2, <2>4, <2>5 DEF x
<1> QED BY <1>1, <1>2, <1>3 DEF process_accepted_root, send_root_to_ethereum
-----------------------------------------------------------------------------
\* What end_voting does to the roots: it rejects c and keeps them, or approves c
\* and moves NextBlockToProcess behind its range.
SameRoots ==
    /\ roots' \in Seq(Root) /\ Len(roots') = Len(roots)
    /\ \A d \in 1..Len(roots) : Unmoved(roots[d], roots'[d])
Approved(c) ==
    /\ ~roots[c].is_validated
    /\ roots' \in Seq(Root) /\ Len(roots') = Len(roots)
    /\ \A d \in 1..Len(roots) : d # c => Unmoved(roots[d], roots'[d])
    /\ roots'[c].from = roots[c].from /\ roots'[c].to = roots[c].to
    /\ roots'[c].hash = roots[c].hash /\ roots'[c].added_by = roots[c].added_by
    /\ roots'[c].is_validated
    /\ nextBlockToProcess' = roots[c].to + 1
Ended(c) ==
    /\ c \in pendingApproval /\ pendingApproval' = pendingApproval \ {c}
    /\ Approved(c) \/ (SameRoots /\ UNCHANGED nextBlockToProcess)

LEMMA RootsStay ==
    ASSUME roots \in Seq(Root), UNCHANGED roots PROVE SameRoots
<1>1. \A d \in 1..Len(roots) : roots[d] \in Root
  BY EntryOf
<1> QED BY <1>1 DEF SameRoots, Unmoved

LEMMA ValidatedRoot ==
    ASSUME roots \in Seq(Root), NEW c \in 1..Len(roots)
    PROVE  /\ Validated(c) \in Seq(Root) /\ Len(Validated(c)) = Len(roots)
           /\ \A d \in 1..Len(roots) : d # c => Validated(c)[d] = roots[d]
           /\ Validated(c)[c] = [roots[c] EXCEPT !.is_validated = TRUE]
<1> DEFINE x == [roots[c] EXCEPT !.is_validated = TRUE]
<1>1. roots[c] \in Root
  BY EntryOf
<1>2. x \in Root
  BY <1>1, Zenon DEF Root
<1>3. Validated(c) = [roots EXCEPT ![c] = x]
  BY DEF Validated
<1> HIDE DEF x
<1>4. /\ Validated(c) \in Seq(Root) /\ Len(Validated(c)) = Len(roots)
      /\ Validated(c)[c] = x
      /\ \A d \in 1..Len(roots) : d # c => Validated(c)[d] = roots[d]
  BY <1>2, <1>3, ReplaceEntry
<1> QED BY <1>4 DEF x

LEMMA EndVoting ==
    ASSUME TypeInv, NEW c \in pendingApproval, NEW vs, end_voting(c, vs)
    PROVE  /\ Ended(c)
           /\ published' \in Seq(Nat) /\ anchorRoots' \in Seq(Nat)
           /\ externalStatus' \in Seq(ExternalStatuses)
           /\ Len(externalStatus') = Len(externalStatus)
           /\ externalRef' \subseteq 1..Len(roots) /\ adminReviews' \subseteq 1..Len(roots)
<1>0. c \in 1..Len(roots) /\ roots[c] \in Root /\ ~roots[c].is_validated
  BY EntryOf DEF TypeInv, end_voting, is_valid
<1>1. CASE ~is_approved(vs[c])
  <2>1. UNCHANGED <<roots, nextBlockToProcess>> /\ UNCHANGED outVars /\ UNCHANGED extVars
    BY <1>1 DEF end_voting
  <2> QED BY <2>1, RootsStay DEF TypeInv, Ended, end_voting, outVars, extVars
<1>2. CASE is_approved(vs[c])
  <2>1. nextBlockToProcess' = roots[c].to + 1 /\ pendingApproval' = pendingApproval \ {c}
    BY <1>2 DEF end_voting
  <2>2. \A d \in 1..Len(roots) : roots[d] \in Root
    BY EntryOf DEF TypeInv
  <2>3. /\ Validated(c)[c] \in Root
        /\ Validated(c)[c].from = roots[c].from /\ Validated(c)[c].to = roots[c].to
        /\ Validated(c)[c].hash = roots[c].hash
        /\ Validated(c)[c].added_by = roots[c].added_by
        /\ Validated(c)[c].is_validated = TRUE
    <3>1. Validated(c)[c] = [roots[c] EXCEPT !.is_validated = TRUE]
      BY <1>0, ValidatedRoot DEF TypeInv
    <3> QED BY <1>0, <3>1, Zenon DEF Root
  <2>4. UNCHANGED extVars \/ submit_root_for_external_validation(c)
    BY <1>2 DEF end_voting
  <2>5. /\ externalStatus' \in Seq(ExternalStatuses)
        /\ Len(externalStatus') = Len(externalStatus)
        /\ externalRef' \subseteq 1..Len(roots) /\ adminReviews' \subseteq 1..Len(roots)
    <3>1. CASE UNCHANGED extVars
      BY <3>1 DEF extVars, TypeInv
    <3>2. CASE submit_root_for_external_validation(c)
      <4>1. /\ externalStatus' = [externalStatus EXCEPT ![c] = "ValidationInProgress"]
            /\ externalRef' = externalRef \cup {c} /\ adminReviews' = adminReviews
        BY <3>2 DEF submit_root_for_external_validation
      <4>2. "ValidationInProgress" \in ExternalStatuses
        BY DEF ExternalStatuses
      <4> QED BY <1>0, <4>1, <4>2, ReplaceEntry DEF TypeInv
    <3> QED BY <2>4, <3>1, <3>2
  <2>6. CASE roots' = Validated(c) /\ UNCHANGED outVars
    <3>1. Approved(c)
      BY <1>0, <2>1, <2>2, <2>3, <2>6, ValidatedRoot, Zenon DEF Approved, Unmoved, TypeInv
    <3> QED BY <2>1, <2>5, <2>6, <3>1 DEF Ended, outVars, TypeInv
  <2>7. CASE process_accepted_root(c, Validated(c))
    <3>1. /\ published' \in Seq(Nat) /\ anchorRoots' \in Seq(Nat)
          /\ roots' \in Seq(Root) /\ Len(roots') = Len(roots)
          /\ \A d \in 1..Len(roots) : Unmoved(Validated(c)[d], roots'[d])
      BY <1>0, <2>7, ValidatedRoot, HandOver, Zenon DEF TypeInv
    <3>2. \A d \in 1..Len(roots) : d # c => Unmoved(roots[d], roots'[d])
      BY <1>0, <3>1, ValidatedRoot, Zenon DEF TypeInv
    <3>3. /\ roots'[c].from = roots[c].from /\ roots'[c].to = roots[c].to
          /\ roots'[c].hash = roots[c].hash /\ roots'[c].added_by = roots[c].added_by
          /\ roots'[c].is_validated = TRUE
      BY <1>0, <2>3, <3>1 DEF Unmoved
    <3>4. Approved(c)
      BY <1>0, <2>1, <3>1, <3>2, <3>3 DEF Approved
    <3> QED BY <2>1, <2>5, <3>1, <3>4 DEF Ended
  <2> QED BY <1>2, <2>6, <2>7 DEF end_voting
<1> QED BY <1>1, <1>2
-----------------------------------------------------------------------------
\* The shapes of a step.  A vote changes the ballot of one pending root and may
\* end the voting; an idle step leaves the roots and all that is said of them.
Ballots(c, vs) ==
    /\ vs \in Seq(Ballot) /\ Len(vs) = Len(votes)
    /\ \A d \in 1..Len(votes) : d # c => vs[d] = votes[d]
    /\ \/ vs[c] = votes[c]
       \/ \E a \in Voter : /\ a \in Honest => roots[c].hash # "bad"
                           /\ vs[c] = [votes[c] EXCEPT !.ayes = @ \cup {a}]
       \/ \E a \in Voter : /\ a \in Honest => roots[c].hash = "bad"
                           /\ vs[c] = [votes[c] EXCEPT !.nays = @ \cup {a}]
Voted(c, vs) ==
    /\ Ballots(c, vs) /\ VotingUnchanged /\ votes' = vs
    /\ \/ end_voting(c, vs)
       \/ /\ UNCHANGED <<roots, pendingApproval, nextBlockToProcess>> /\ offences' = {}
          /\ UNCHANGED outVars /\ UNCHANGED extVars
Idle ==
    /\ UNCHANGED <<config, nextBlockToProcess, schedulePeriod, moved, answered, agreed>>
    /\ UNCHANGED rootVars /\ UNCHANGED extVars /\ UNCHANGED outVars
    /\ now' \in Nat /\ votingPeriod' \in Nat /\ validators' \in ValidatorSets
    /\ \A o \in offences' : o[2] \in {"NoSummaryCreated", "SlotNotAdvanced"}
Recorded ==
    \E a \in Voter, h \in Hashes : /\ a \in Honest => h # "bad"
                                   /\ record_summary_calculation(a, h)
Shape ==
    \/ Recorded \/ Idle
    \/ \E c \in pendingApproval, vs \in Seq(Ballot) : Voted(c, vs)
    \/ \E s \in SchedulePeriods, v \in VotingPeriods : set_periods(s, v)
    \/ \E c \in Counters, accepted \in BOOLEAN : admin_resolve_challenge(c, accepted)
    \/ \E c \in Counters, r \in {"Passed", "Failed", "Expired"}, fails \in BOOLEAN :
          on_voting_completed(c, r, fails)
    \/ \E ok \in BOOLEAN : process_result(ok)

LEMMA VotesCast ==
    ASSUME TypeInv, NEW a, NEW c \in pendingApproval, validate_vote(a, c)
    PROVE  /\ (a \in Honest => roots[c].hash # "bad")
                => Ballots(c, [votes EXCEPT ![c].ayes = @ \cup {a}])
           /\ (a \in Honest => roots[c].hash = "bad")
                => Ballots(c, [votes EXCEPT ![c].nays = @ \cup {a}])
<1>1. c \in 1..Len(votes) /\ votes[c] \in Ballot
  BY EntryOf DEF TypeInv
<1>2. a \in Voter
  BY DEF TypeInv, validate_vote, IsValidator, Voter
<1>3. (a \in Honest => roots[c].hash # "bad")
          => Ballots(c, [votes EXCEPT ![c].ayes = @ \cup {a}])
  <2> DEFINE x == [votes[c] EXCEPT !.ayes = @ \cup {a}]
             vs == [votes EXCEPT ![c].ayes = @ \cup {a}]
  <2>1. x \in Ballot
    BY <1>1, <1>2 DEF Ballot
  <2>2. vs = [votes EXCEPT ![c] = x]
    OBVIOUS
  <2>3. /\ vs \in Seq(Ballot) /\ Len(vs) = Len(votes) /\ vs[c] = x
        /\ \A d \in 1..Len(votes) : d # c => vs[d] = votes[d]
    <3> HIDE DEF x, vs
    <3> QED BY <1>1, <2>1, <2>2, ReplaceEntry DEF TypeInv
  <2> HIDE DEF vs
  <2>4. (a \in Honest => roots[c].hash # "bad") => Ballots(c, vs)
    BY <1>2, <2>3, Zenon DEF Ballots
  <2> QED BY <2>4 DEF vs
<1>4. (a \in Honest => roots[c].hash = "bad")
          => Ballots(c, [votes EXCEPT ![c].nays = @ \cup {a}])
  <2> DEFINE x == [votes[c] EXCEPT !.nays = @ \cup {a}]
             vs == [votes EXCEPT ![c].nays = @ \cup {a}]
  <2>1. x \in Ballot
    BY <1>1, <1>2 DEF Ballot
  <2>2. vs = [votes EXCEPT ![c] = x]
    OBVIOUS
  <2>3. /\ vs \in Seq(Ballot) /\ Len(vs) = Len(votes) /\ vs[c] = x
        /\ \A d \in 1..Len(votes) : d # c => vs[d] = votes[d]
    <3> HIDE DEF x, vs
    <3> QED BY <1>1, <2>1, <2>2, ReplaceEntry DEF TypeInv
  <2> HIDE DEF vs
  <2>4. (a \in Honest => roots[c].hash = "bad") => Ballots(c, vs)
    BY <1>2, <2>3, Zenon DEF Ballots
  <2> QED BY <2>4 DEF vs
<1> QED BY <1>3, <1>4

LEMMA EndedByVote ==
    ASSUME TypeInv, NEW c \in pendingApproval, NEW vs, Ballots(c, vs),
           VotingUnchanged, end_voting_if_outcome_reached(c, vs)
    PROVE  Voted(c, vs)
<1>1. CASE has_outcome(vs[c])
  BY <1>1 DEF end_voting_if_outcome_reached, Voted, end_voting
<1>2. CASE ~has_outcome(vs[c])
  BY <1>2 DEF end_voting_if_outcome_reached, Voted
<1> QED BY <1>1, <1>2

LEMMA AuthoredShape ==
    ASSUME TypeInv, NEW a, Authored(a)
    PROVE  Shape
<1> USE DEF Shape
<1>1. ASSUME NEW h \in Hashes, a \in Honest => process_summary_if_required(h),
             record_summary_calculation(a, h)
      PROVE  Shape
  <2>1. a \in Voter
    BY <1>1 DEF record_summary_calculation, record_summary_validate_unsigned, IsValidator,
       TypeInv, Voter
  <2>2. a \in Honest => h # "bad"
    BY <1>1 DEF process_summary_if_required, process_summary
  <2> QED BY <1>1, <2>1, <2>2 DEF Recorded
<1>2. ASSUME NEW c \in pendingApproval, a \in Honest => cast_votes_if_required(c, TRUE),
             approve_root(a, c)
      PROVE  Shape
  <2>1. Ballots(c, [votes EXCEPT ![c].ayes = @ \cup {a}])
    BY <1>2, VotesCast, Zenon DEF cast_votes_if_required, approve_root, process_approve_vote
  <2>2. Voted(c, [votes EXCEPT ![c].ayes = @ \cup {a}])
    BY <1>2, <2>1, EndedByVote DEF approve_root, process_approve_vote
  <2> QED BY <2>1, <2>2, Zenon DEF Ballots
<1>3. ASSUME NEW c \in pendingApproval, a \in Honest => cast_votes_if_required(c, FALSE),
             reject_root(a, c)
      PROVE  Shape
  <2>1. Ballots(c, [votes EXCEPT ![c].nays = @ \cup {a}])
    BY <1>3, VotesCast, Zenon DEF cast_votes_if_required, reject_root, process_reject_vote
  <2>2. Voted(c, [votes EXCEPT ![c].nays = @ \cup {a}])
    BY <1>3, <2>1, EndedByVote DEF reject_root, process_reject_vote
  <2> QED BY <2>1, <2>2, Zenon DEF Ballots
<1>4. ASSUME NEW c \in pendingApproval, end_voting_period(a, c)
      PROVE  Shape
  <2>1. Ballots(c, votes)
    BY DEF Ballots, TypeInv
  <2>2. votes' = votes
    BY <1>4 DEF end_voting_period, end_voting
  <2>3. Voted(c, votes)
    BY <1>4, <2>1, <2>2 DEF Voted, end_voting_period
  <2> QED BY <2>3 DEF TypeInv
<1>5. ASSUME NEW reported, update_slot_number(a, reported),
             \A o \in reported : o[2] = "SlotNotAdvanced"
      PROVE  Shape
  <2>1. \A o \in offences' : o[2] \in {"NoSummaryCreated", "SlotNotAdvanced"}
    BY <1>5 DEF update_slot_number, register_offence_if_no_summary_created_in_slot, Report
  <2> QED BY <1>5, <2>1 DEF update_slot_number, Idle, TypeInv, adminVars
<1>6. CASE advance_slot(a)
  BY <1>5, <1>6 DEF advance_slot
<1>7. ASSUME NEW s, NEW b, add_challenge(a, s, b)
      PROVE  Shape
  <2>1. \A o \in Report({b}, "SlotNotAdvanced", s) : o[2] = "SlotNotAdvanced"
    BY DEF Report
  <2> QED BY <1>5, <1>7, <2>1, Zenon DEF add_challenge
<1> HIDE DEF Shape
<1> QED BY <1>1, <1>2, <1>3, <1>4, <1>6, <1>7, Zenon DEF Authored

LEMMA StepShape ==
    ASSUME TypeInv, [Next]_vars
    PROVE  Shape \/ UNCHANGED vars
<1>1. CASE \E a \in Online : Authored(a)
  BY <1>1, AuthoredShape
<1>2. ASSUME NEW v \in VotingPeriods, set_admin_config_voting_period(v)
      PROVE  Idle
  BY <1>2, SummaryAssumption
     DEF set_admin_config_voting_period, AdminUnchanged, Idle, TypeInv, rootVars, extVars, outVars
<1>3. CASE set_admin_config_threshold
  BY <1>3 DEF set_admin_config_threshold, AdminUnchanged, Idle, TypeInv, Shape
<1>4. ASSUME NEW vs \in ValidatorSets, SessionChange(vs)
      PROVE  Idle
  BY <1>4 DEF SessionChange, Idle, TypeInv, adminVars
<1>5. CASE NewBlock
  BY <1>5 DEF NewBlock, Idle, TypeInv, adminVars, Shape
<1> QED BY <1>1, <1>2, <1>3, <1>4, <1>5 DEF Next, Shape

\* Types.
LEMMA TargetBlock ==
    ASSUME TypeInv
    PROVE  get_target_block \in Nat /\ get_target_block >= nextBlockToProcess
BY DEF TypeInv, get_target_block

LEMMA NewRecord ==
    ASSUME TypeInv, NEW a \in Voter, NEW h \in Hashes, record_summary_calculation(a, h)
    PROVE  \E r \in Root, b \in Ballot :
              /\ r.from = nextBlockToProcess /\ r.to = get_target_block /\ r.hash = h
              /\ r.added_by = a /\ ~r.is_validated /\ ~r.is_finalised /\ r.tx_id = NoTx
              /\ b.ayes = {} /\ b.nays = {}
              /\ b.threshold = required_for(Cardinality(validators))
              /\ roots' = Append(roots, r) /\ votes' = Append(votes, b)
              /\ externalStatus' = Append(externalStatus, "None")
<1> DEFINE r == [from |-> nextBlockToProcess, to |-> get_target_block, hash |-> h,
                 added_by |-> a, is_validated |-> FALSE, is_finalised |-> FALSE,
                 tx_id |-> NoTx]
           b == [ayes |-> {}, nays |-> {},
                 threshold |-> required_for(Cardinality(validators)),
                 end_of_voting_period |-> now + votingPeriod]
<1>1. roots' = Append(roots, r) /\ votes' = Append(votes, b)
      /\ externalStatus' = Append(externalStatus, "None")
  BY DEF record_summary_calculation
<1>2. r \in Root
  BY TargetBlock DEF Root, NoTx, TypeInv
<1>3. required_for(Cardinality(validators)) \in Thresholds
  BY DEF TypeInv, Thresholds
<1>4. b \in Ballot
  BY <1>3 DEF Ballot, TypeInv
<1>5. /\ r.from = nextBlockToProcess /\ r.to = get_target_block /\ r.hash = h
      /\ r.added_by = a /\ ~r.is_validated /\ ~r.is_finalised /\ r.tx_id = NoTx
      /\ b.ayes = {} /\ b.nays = {}
      /\ b.threshold = required_for(Cardinality(validators))
  OBVIOUS
<1> HIDE DEF r, b
<1> QED BY <1>1, <1>2, <1>4, <1>5

\* The new root stands behind the others, with an empty ballot and no status.
NewEntry(a, h, r, b) ==
    /\ r.hash = h /\ r.added_by = a /\ ~r.is_validated /\ ~r.is_finalised /\ r.tx_id = NoTx
    /\ b.ayes = {} /\ b.nays = {}
    /\ Len(roots') = Len(roots) + 1 /\ roots'[Len(roots) + 1] = r
    /\ votes'[Len(roots) + 1] = b /\ externalStatus'[Len(roots) + 1] = "None"
    /\ \A c \in 1..Len(roots) : /\ roots'[c] = roots[c] /\ votes'[c] = votes[c]
                                /\ externalStatus'[c] = externalStatus[c]
LEMMA NewEntries ==
    ASSUME TypeInv, NEW a \in Voter, NEW h \in Hashes, record_summary_calculation(a, h)
    PROVE  \E r \in Root, b \in Ballot : NewEntry(a, h, r, b)
<1>1. PICK r \in Root, b \in Ballot :
              /\ r.from = nextBlockToProcess /\ r.to = get_target_block /\ r.hash = h
              /\ r.added_by = a /\ ~r.is_validated /\ ~r.is_finalised /\ r.tx_id = NoTx
              /\ b.ayes = {} /\ b.nays = {}
              /\ b.threshold = required_for(Cardinality(validators))
              /\ roots' = Append(roots, r) /\ votes' = Append(votes, b)
              /\ externalStatus' = Append(externalStatus, "None")
  BY NewRecord, Zenon
<1>2. /\ roots \in Seq(Root) /\ votes \in Seq(Ballot) /\ Len(votes) = Len(roots)
      /\ externalStatus \in Seq(ExternalStatuses) /\ Len(externalStatus) = Len(roots)
      /\ "None" \in ExternalStatuses
  BY DEF TypeInv, ExternalStatuses
<1>3. /\ Len(roots') = Len(roots) + 1 /\ roots'[Len(roots) + 1] = r
      /\ \A c \in 1..Len(roots) : roots'[c] = roots[c]
  BY <1>1, <1>2, Appended
<1>4. votes'[Len(roots) + 1] = b /\ \A c \in 1..Len(roots) : votes'[c] = votes[c]
  BY <1>1, <1>2, Appended
<1>5. /\ externalStatus'[Len(roots) + 1] = "None"
      /\ \A c \in 1..Len(roots) : externalStatus'[c] = externalStatus[c]
  BY <1>1, <1>2, Appended
<1>6. NewEntry(a, h, r, b)
  BY <1>1, <1>3, <1>4, <1>5, Zenon DEF NewEntry
<1> QED BY <1>6

LEMMA ResultShape ==
    ASSUME TypeInv, NEW ok \in BOOLEAN, process_result(ok)
    PROVE  SameRoots /\ answered' = Append(answered, ok) /\ answered' \in Seq(BOOLEAN)
<1>1. answered' = Append(answered, ok) /\ Append(answered, ok) \in Seq(BOOLEAN)
  BY Appended DEF TypeInv, process_result
<1>2. CASE UNCHANGED roots
  BY <1>1, <1>2, RootsStay DEF TypeInv
<1>3. ASSUME NEW K, roots' = [c \in Counters |-> IF <<Len(answered) + 1, c>> \in K
                            THEN [roots[c] EXCEPT !.is_finalised = TRUE] ELSE roots[c]]
      PROVE  SameRoots
  <2>1. Counters = 1..Len(roots) /\ Len(roots) \in Nat
    BY LenIsNat DEF Counters, TypeInv
  <2>2. \A c \in 1..Len(roots) : roots[c] \in Root
    BY EntryOf DEF TypeInv
  <2>3. \A c \in 1..Len(roots) : Unmoved(roots[c], roots'[c]) /\ roots'[c] \in Root
    BY <1>3, <2>1, <2>2, Zenon DEF Unmoved, Root
  <2>4. roots' \in [1..Len(roots) -> Root]
    BY <1>3, <2>1, <2>3
  <2>5. roots' \in Seq(Root) /\ Len(roots') = Len(roots)
    BY <2>1, <2>4
  <2> QED BY <2>3, <2>5 DEF SameRoots
<1> QED BY <1>1, <1>2, <1>3, Zenon DEF process_result

LEMMA HandedOver ==
    ASSUME TypeInv, NEW c \in 1..Len(roots), process_accepted_root(c, roots)
    PROVE  SameRoots /\ published' \in Seq(Nat) /\ anchorRoots' \in Seq(Nat)
BY HandOver, Zenon DEF TypeInv, SameRoots

\* What the watchtowers and the admin change.
LEMMA ReviewShape ==
    ASSUME TypeInv, NEW c \in Counters,
           \/ \E accepted \in BOOLEAN : admin_resolve_challenge(c, accepted)
           \/ \E r \in {"Passed", "Failed", "Expired"}, fails \in BOOLEAN :
                 on_voting_completed(c, r, fails)
    PROVE  /\ SameRoots /\ published' \in Seq(Nat) /\ anchorRoots' \in Seq(Nat)
           /\ externalStatus' \in Seq(ExternalStatuses)
           /\ Len(externalStatus') = Len(externalStatus)
           /\ externalRef' \subseteq 1..Len(roots) /\ adminReviews' \subseteq 1..Len(roots)
           /\ ExternalUnchanged
<1>0. c \in 1..Len(roots)
  BY LenIsNat DEF Counters, TypeInv
<1>1. \/ process_accepted_root(c, roots)
      \/ UNCHANGED roots /\ UNCHANGED outVars
  BY DEF admin_resolve_challenge, on_voting_completed
<1>2. SameRoots /\ published' \in Seq(Nat) /\ anchorRoots' \in Seq(Nat)
  BY <1>0, <1>1, HandedOver, RootsStay DEF TypeInv, outVars
<1>3. \E x \in ExternalStatuses : externalStatus' = [externalStatus EXCEPT ![c] = x]
  BY DEF admin_resolve_challenge, on_voting_completed, cleanup_external_validation_data,
     setup_root_for_admin_review, ExternalStatuses
<1>4. externalRef' \subseteq externalRef /\ adminReviews' \subseteq adminReviews \cup {c}
  BY DEF admin_resolve_challenge, on_voting_completed, cleanup_external_validation_data,
     setup_root_for_admin_review
<1>5. externalStatus' \in Seq(ExternalStatuses) /\ Len(externalStatus') = Len(externalStatus)
  BY <1>0, <1>3, ReplaceEntry DEF TypeInv
<1> QED BY <1>0, <1>2, <1>4, <1>5 DEF admin_resolve_challenge, on_voting_completed, TypeInv

LEMMA TypesKept ==
    ASSUME TypeInv, Shape \/ UNCHANGED vars
    PROVE  TypeInv'
<1>1. CASE Recorded
  <2>1. PICK a \in Voter, h \in Hashes : record_summary_calculation(a, h)
    BY <1>1 DEF Recorded
  <2>2. PICK r \in Root, b \in Ballot :
           /\ roots' = Append(roots, r) /\ votes' = Append(votes, b)
           /\ externalStatus' = Append(externalStatus, "None")
    BY <2>1, NewRecord
  <2>3. "None" \in ExternalStatuses
    BY DEF ExternalStatuses
  <2>4. /\ roots' \in Seq(Root) /\ Len(roots') = Len(roots) + 1
        /\ votes' \in Seq(Ballot) /\ Len(votes') = Len(votes) + 1
        /\ externalStatus' \in Seq(ExternalStatuses)
        /\ Len(externalStatus') = Len(externalStatus) + 1
    BY <2>2, <2>3, Appended DEF TypeInv
  <2>5. Len(roots) \in Nat
    BY LenIsNat DEF TypeInv
  <2>6. /\ pendingApproval' = pendingApproval \cup {Len(roots) + 1}
        /\ UNCHANGED <<externalRef, adminReviews>>
    BY <2>1 DEF record_summary_calculation
  <2>7. /\ pendingApproval' \subseteq 1..Len(roots')
        /\ externalRef' \subseteq 1..Len(roots') /\ adminReviews' \subseteq 1..Len(roots')
    <3>1. 1..Len(roots) \subseteq 1..Len(roots') /\ Len(roots) + 1 \in 1..Len(roots')
      BY <2>4, <2>5
    <3> QED BY <2>6, <3>1, Zenon DEF TypeInv
  <2> QED BY <2>1, <2>4, <2>7 DEF TypeInv, record_summary_calculation, outVars, adminVars
<1>2. CASE Idle
  BY <1>2 DEF Idle, TypeInv, rootVars, extVars, outVars
<1>3. ASSUME NEW c \in pendingApproval, NEW vs, Voted(c, vs)
      PROVE  TypeInv'
  <2>1. votes' \in Seq(Ballot) /\ Len(votes') = Len(votes)
    BY <1>3 DEF Voted, Ballots
  <2>2. CASE end_voting(c, vs)
    <3>1. /\ Ended(c) /\ published' \in Seq(Nat) /\ anchorRoots' \in Seq(Nat)
          /\ externalStatus' \in Seq(ExternalStatuses)
          /\ Len(externalStatus') = Len(externalStatus)
          /\ externalRef' \subseteq 1..Len(roots) /\ adminReviews' \subseteq 1..Len(roots)
      BY <2>2, EndVoting
    <3>2. roots' \in Seq(Root) /\ Len(roots') = Len(roots)
      BY <3>1 DEF Ended, Approved, SameRoots
    <3>3. roots[c].to \in Nat
      <4>1. roots[c] \in Root
        BY EntryOf DEF TypeInv
      <4> QED BY <4>1 DEF Root
    <3>4. nextBlockToProcess' \in Nat /\ pendingApproval' \subseteq 1..Len(roots)
      <4>1. nextBlockToProcess \in Nat /\ pendingApproval \subseteq 1..Len(roots)
        BY DEF TypeInv
      <4>2. nextBlockToProcess' \in {nextBlockToProcess, roots[c].to + 1}
        BY <3>1 DEF Ended, Approved
      <4>3. pendingApproval' \subseteq pendingApproval
        BY <3>1 DEF Ended, Approved
      <4> QED BY <3>3, <4>1, <4>2, <4>3
    <3> QED BY <1>3, <2>1, <3>1, <3>2, <3>4 DEF Voted, VotingUnchanged, TypeInv, adminVars
  <2>3. CASE /\ UNCHANGED <<roots, pendingApproval, nextBlockToProcess>>
             /\ UNCHANGED outVars /\ UNCHANGED extVars
    BY <1>3, <2>1, <2>3 DEF Voted, VotingUnchanged, TypeInv, adminVars, outVars, extVars
  <2> QED BY <1>3, <2>2, <2>3 DEF Voted
<1>4. ASSUME NEW s \in SchedulePeriods, NEW v \in VotingPeriods, set_periods(s, v)
      PROVE  TypeInv'
  BY <1>4, SummaryAssumption
     DEF set_periods, AdminUnchanged, TypeInv, rootVars, extVars, outVars
<1>5. ASSUME NEW c \in Counters,
             \/ \E accepted \in BOOLEAN : admin_resolve_challenge(c, accepted)
             \/ \E r \in {"Passed", "Failed", "Expired"}, fails \in BOOLEAN :
                   on_voting_completed(c, r, fails)
      PROVE  TypeInv'
  BY <1>5, ReviewShape, Zenon DEF TypeInv, ExternalUnchanged, SameRoots, adminVars
<1>6. ASSUME NEW ok \in BOOLEAN, process_result(ok)
      PROVE  TypeInv'
  BY <1>6, ResultShape, Zenon DEF TypeInv, process_result, SameRoots, extVars, adminVars
<1>7. CASE UNCHANGED vars
  BY <1>7 DEF vars, TypeInv
<1> QED BY <1>1, <1>2, <1>3, <1>4, <1>5, <1>6, <1>7 DEF Shape

LEMMA TypesHold == Spec => []TypeInv
<1>1. ASSUME Init PROVE TypeInv
  <2>1. /\ roots \in Seq(Root) /\ votes \in Seq(Ballot)
        /\ externalStatus \in Seq(ExternalStatuses) /\ published \in Seq(Nat)
        /\ anchorRoots \in Seq(Nat) /\ answered \in Seq(BOOLEAN)
        /\ Len(roots) = 0 /\ Len(votes) = 0 /\ Len(externalStatus) = 0
    BY <1>1, EmptyList DEF Init
  <2>2. /\ now \in Nat /\ nextBlockToProcess \in Nat /\ moved \in BOOLEAN
        /\ schedulePeriod \in Nat \ {0} /\ votingPeriod \in Nat
        /\ validators \in ValidatorSets /\ config \in [auto : BOOLEAN, external : BOOLEAN]
        /\ pendingApproval = {} /\ externalRef = {} /\ adminReviews = {}
    BY <1>1, SummaryAssumption, Zenon DEF Init
  <2> QED BY <2>1, <2>2 DEF TypeInv
<1>2. TypeInv /\ [Next]_vars => TypeInv'
  BY StepShape, TypesKept
<1> QED BY <1>1, <1>2, PTL DEF Spec

-----------------------------------------------------------------------------
\* Ranges.  As long as no period was changed under it, there is one root voted
\* on and it starts where the approved ones end.
OnePending ==
    \A c \in pendingApproval :
        /\ ~roots[c].is_validated
        /\ roots[c].from = nextBlockToProcess /\ roots[c].to = get_target_block
        /\ \A d \in pendingApproval : d = c
DoneBelow ==
    \A c \in 1..Len(roots) : roots[c].is_validated => roots[c].to < nextBlockToProcess
DoneApart ==
    \A c, d \in 1..Len(roots) :
        roots[c].is_validated /\ roots[d].is_validated /\ c # d =>
            roots[c].to < roots[d].from \/ roots[d].to < roots[c].from
AllDone ==
    \A b \in Nat : b < nextBlockToProcess =>
        \E c \in 1..Len(roots) :
            roots[c].is_validated /\ roots[c].from <= b /\ b <= roots[c].to
CoverInv == ~moved => OnePending /\ DoneBelow /\ DoneApart /\ AllDone

CoverShape ==
    \/ /\ SameRoots /\ UNCHANGED <<pendingApproval, nextBlockToProcess>>
       /\ moved' = (moved \/ (pendingApproval # {} /\ schedulePeriod' # schedulePeriod))
    \/ /\ \E c \in pendingApproval : Ended(c)
       /\ UNCHANGED <<schedulePeriod, moved>>
    \/ /\ \E r \in Root : /\ r.from = nextBlockToProcess /\ r.to = get_target_block
                          /\ ~r.is_validated /\ roots' = Append(roots, r)
       /\ summary_is_neither_pending_nor_approved(nextBlockToProcess, get_target_block)
       /\ pendingApproval' = pendingApproval \cup {Len(roots) + 1}
       /\ UNCHANGED <<nextBlockToProcess, schedulePeriod, moved>>

LEMMA StepCovers ==
    ASSUME TypeInv, Shape \/ UNCHANGED vars
    PROVE  CoverShape
<1>0. moved \in BOOLEAN /\ roots \in Seq(Root)
  BY DEF TypeInv
<1>1. CASE Recorded
  <2>1. PICK a \in Voter, h \in Hashes : record_summary_calculation(a, h)
    BY <1>1 DEF Recorded
  <2>2. \E r \in Root : /\ r.from = nextBlockToProcess /\ r.to = get_target_block
                        /\ ~r.is_validated /\ roots' = Append(roots, r)
    BY <2>1, NewRecord
  <2> QED BY <2>1, <2>2 DEF CoverShape, record_summary_calculation, adminVars
<1>2. CASE Idle
  BY <1>0, <1>2, RootsStay DEF Idle, CoverShape, rootVars
<1>3. ASSUME NEW c \in pendingApproval, NEW vs, Voted(c, vs)
      PROVE  CoverShape
  <2>1. UNCHANGED <<schedulePeriod, moved>>
    BY <1>3 DEF Voted, VotingUnchanged, adminVars
  <2>2. CASE end_voting(c, vs)
    BY <2>1, <2>2, EndVoting DEF CoverShape
  <2>3. CASE UNCHANGED <<roots, pendingApproval, nextBlockToProcess>>
    BY <1>0, <2>1, <2>3, RootsStay DEF CoverShape
  <2> QED BY <1>3, <2>2, <2>3 DEF Voted
<1>4. ASSUME NEW s, NEW v, set_periods(s, v)
      PROVE  CoverShape
  BY <1>0, <1>4, RootsStay DEF set_periods, AdminUnchanged, rootVars, CoverShape
<1>5. ASSUME SameRoots,
             UNCHANGED <<pendingApproval, nextBlockToProcess, schedulePeriod, moved>>
      PROVE  CoverShape
  BY <1>0, <1>5 DEF CoverShape
<1>6. ASSUME NEW c \in Counters,
             \/ \E accepted \in BOOLEAN : admin_resolve_challenge(c, accepted)
             \/ \E r \in {"Passed", "Failed", "Expired"}, fails \in BOOLEAN :
                   on_voting_completed(c, r, fails)
      PROVE  CoverShape
  BY <1>5, <1>6, ReviewShape DEF ExternalUnchanged, adminVars
<1>7. ASSUME NEW ok \in BOOLEAN, process_result(ok)
      PROVE  CoverShape
  BY <1>5, <1>7, ResultShape DEF process_result, adminVars
<1>8. CASE UNCHANGED vars
  BY <1>0, <1>5, <1>8, RootsStay DEF vars
<1> QED BY <1>1, <1>2, <1>3, <1>4, <1>6, <1>7, <1>8 DEF Shape

LEMMA CoverKept ==
    ASSUME TypeInv, CoverInv, CoverShape
    PROVE  CoverInv'
<1> SUFFICES ASSUME ~moved' PROVE (OnePending /\ DoneBelow /\ DoneApart /\ AllDone)'
  BY DEF CoverInv
<1>1. ~moved /\ OnePending /\ DoneBelow /\ DoneApart /\ AllDone
  <2>1. ~moved
    BY DEF CoverShape, TypeInv
  <2> QED BY <2>1 DEF CoverInv
<1>2. /\ \A c \in 1..Len(roots) : /\ roots[c] \in Root
                                  /\ roots[c].from \in Nat /\ roots[c].to \in Nat
                                  /\ roots[c].is_validated \in BOOLEAN
      /\ pendingApproval \subseteq 1..Len(roots) /\ nextBlockToProcess \in Nat
      /\ Len(roots) \in Nat
  <2>1. \A c \in 1..Len(roots) : roots[c] \in Root
    BY EntryOf DEF TypeInv
  <2> QED BY <2>1, LenIsNat, Zenon DEF TypeInv, Root
<1>3. ASSUME SameRoots, UNCHANGED <<pendingApproval, nextBlockToProcess>>,
             pendingApproval # {} => schedulePeriod' = schedulePeriod
      PROVE  (OnePending /\ DoneBelow /\ DoneApart /\ AllDone)'
  <2>1. pendingApproval # {} => get_target_block' = get_target_block
    BY <1>3 DEF get_target_block
  <2>2. /\ Len(roots') = Len(roots)
        /\ \A c \in 1..Len(roots) : /\ roots'[c].from = roots[c].from
                                    /\ roots'[c].to = roots[c].to
                                    /\ roots'[c].is_validated = roots[c].is_validated
    BY <1>3 DEF SameRoots, Unmoved
  <2>3. OnePending'
    BY <1>1, <1>2, <1>3, <2>1, <2>2 DEF OnePending
  <2> QED BY <1>1, <1>2, <1>3, <2>2, <2>3, Zenon DEF DoneBelow, DoneApart, AllDone
<1>4. ASSUME NEW c \in pendingApproval, Ended(c), UNCHANGED schedulePeriod
      PROVE  (OnePending /\ DoneBelow /\ DoneApart /\ AllDone)'
  <2>1. pendingApproval' = {}
    BY <1>1, <1>4 DEF OnePending, Ended
  <2>2. CASE SameRoots /\ UNCHANGED nextBlockToProcess
    <3>1. /\ Len(roots') = Len(roots)
          /\ \A d \in 1..Len(roots) : /\ roots'[d].from = roots[d].from
                                      /\ roots'[d].to = roots[d].to
                                      /\ roots'[d].is_validated = roots[d].is_validated
      BY <2>2 DEF SameRoots, Unmoved
    <3> QED BY <1>1, <1>2, <2>1, <2>2, <3>1, Zenon DEF OnePending, DoneBelow, DoneApart, AllDone
  <2>3. CASE Approved(c)
    <3>1. /\ Len(roots') = Len(roots)
          /\ \A d \in 1..Len(roots) : /\ roots'[d].from = roots[d].from
                                      /\ roots'[d].to = roots[d].to
          /\ \A d \in 1..Len(roots) : d # c => roots'[d].is_validated = roots[d].is_validated
          /\ roots'[c].is_validated
          /\ nextBlockToProcess' = roots[c].to + 1
      BY <2>3 DEF Approved, Unmoved
    <3>2. /\ roots[c].from = nextBlockToProcess /\ roots[c].to >= nextBlockToProcess
          /\ c \in 1..Len(roots)
      BY <1>1, <1>2, TargetBlock DEF OnePending
    <3>3. DoneBelow'
      <4> SUFFICES ASSUME NEW d \in 1..Len(roots), roots'[d].is_validated
                   PROVE  roots'[d].to < nextBlockToProcess'
        BY <3>1 DEF DoneBelow
      <4>1. CASE d = c
        BY <1>2, <3>1, <3>2, <4>1
      <4>2. CASE d # c
        BY <1>1, <1>2, <3>1, <3>2, <4>2 DEF DoneBelow
      <4> QED BY <4>1, <4>2
    <3>4. DoneApart'
      <4> SUFFICES ASSUME NEW d \in 1..Len(roots), NEW e \in 1..Len(roots), d # e,
                          roots'[d].is_validated, roots'[e].is_validated
                   PROVE  roots[d].to < roots[e].from \/ roots[e].to < roots[d].from
        BY <3>1 DEF DoneApart
      <4>1. CASE d # c /\ e # c
        BY <1>1, <3>1, <4>1 DEF DoneApart
      <4>2. CASE d = c \/ e = c
        BY <1>1, <1>2, <3>1, <3>2, <4>2, Zenon DEF DoneBelow
      <4> QED BY <4>1, <4>2
    <3>5. AllDone'
      <4> SUFFICES ASSUME NEW b \in Nat, b < nextBlockToProcess'
                   PROVE  \E d \in 1..Len(roots) : /\ roots'[d].is_validated
                                                   /\ roots[d].from <= b /\ b <= roots[d].to
        BY <3>1 DEF AllDone
      <4>1. CASE b < nextBlockToProcess
        <5>1. PICK d \in 1..Len(roots) :
                 roots[d].is_validated /\ roots[d].from <= b /\ b <= roots[d].to
          BY <1>1, <4>1 DEF AllDone
        <5>2. d # c
          BY <1>1, <5>1 DEF OnePending
        <5>3. roots'[d].is_validated
          BY <3>1, <5>1, <5>2
        <5> QED BY <5>1, <5>3
      <4>2. CASE ~(b < nextBlockToProcess)
        BY <1>2, <3>1, <3>2, <4>2
      <4> QED BY <4>1, <4>2
    <3> QED BY <2>1, <3>3, <3>4, <3>5 DEF OnePending
  <2> QED BY <1>4, <2>2, <2>3 DEF Ended
<1>5. ASSUME NEW r \in Root, r.from = nextBlockToProcess, r.to = get_target_block,
             ~r.is_validated, roots' = Append(roots, r),
             summary_is_neither_pending_nor_approved(nextBlockToProcess, get_target_block),
             pendingApproval' = pendingApproval \cup {Len(roots) + 1},
             UNCHANGED <<nextBlockToProcess, schedulePeriod>>
      PROVE  (OnePending /\ DoneBelow /\ DoneApart /\ AllDone)'
  <2>1. /\ Len(roots') = Len(roots) + 1 /\ roots'[Len(roots) + 1] = r
        /\ \A c \in 1..Len(roots) : roots'[c] = roots[c]
    <3>1. roots \in Seq(Root)
      BY DEF TypeInv
    <3> QED BY <1>5, <3>1, Appended
  <2>2. pendingApproval = {}
    <3> SUFFICES ASSUME NEW c \in pendingApproval PROVE FALSE
      OBVIOUS
    <3>1. c \in Counters
      BY <1>2, LenIsNat DEF Counters, TypeInv
    <3> QED BY <1>1, <1>5, <3>1 DEF OnePending, summary_is_neither_pending_nor_approved
  <2>3. get_target_block' = get_target_block
    BY <1>5 DEF get_target_block
  <2>4. OnePending'
    BY <1>5, <2>1, <2>2, <2>3 DEF OnePending
  <2>5. \A c \in 1..Len(roots') : roots'[c].is_validated =>
            c \in 1..Len(roots) /\ roots'[c] = roots[c]
    BY <1>2, <1>5, <2>1
  <2>6. \A c \in 1..Len(roots) : c \in 1..Len(roots')
    BY <1>2, <2>1
  <2> QED BY <1>1, <1>5, <2>1, <2>4, <2>5, <2>6, Zenon DEF DoneBelow, DoneApart, AllDone
<1> QED BY <1>1, <1>3, <1>4, <1>5, Zenon DEF CoverShape

\* The ranges of the approved roots follow each other without gap or overlap up
\* to NextBlockToProcess (record_summary_calculation, end_voting, set_periods).
THEOREM BlocksAreCoveredOnce == Spec => []BlocksCoveredOnce
<1>1. ASSUME Init PROVE CoverInv
  <2>1. Len(roots) = 0 /\ pendingApproval = {} /\ nextBlockToProcess = 0
    BY <1>1 DEF Init
  <2> QED BY <2>1 DEF CoverInv, OnePending, DoneBelow, DoneApart, AllDone
<1>2. TypeInv /\ CoverInv /\ [Next]_vars => CoverInv'
  BY StepShape, StepCovers, CoverKept
<1>3. ASSUME TypeInv, CoverInv PROVE BlocksCoveredOnce
  <2> SUFFICES ASSUME ~moved
               PROVE  LET done == {c \in Counters : roots[c].is_validated}
                          covers(c) == roots[c].from..roots[c].to
                      IN /\ \A c, d \in done : c # d => covers(c) \cap covers(d) = {}
                         /\ UNION {covers(c) : c \in done} = 0..(nextBlockToProcess - 1)
    BY DEF BlocksCoveredOnce
  <2> DEFINE done == {c \in Counters : roots[c].is_validated}
             covers(c) == roots[c].from..roots[c].to
  <2>1. DoneBelow /\ DoneApart /\ AllDone
    BY <1>3 DEF CoverInv
  <2>2. Counters = 1..Len(roots) /\ nextBlockToProcess \in Nat
    BY <1>3, LenIsNat DEF Counters, TypeInv
  <2>3. \A c \in 1..Len(roots) : roots[c].from \in Nat /\ roots[c].to \in Nat
    <3>1. \A c \in 1..Len(roots) : roots[c] \in Root
      BY <1>3, EntryOf DEF TypeInv
    <3> QED BY <3>1 DEF Root
  <2>4. \A c, d \in done : c # d => covers(c) \cap covers(d) = {}
    BY <2>1, <2>2, <2>3 DEF DoneApart
  <2>5. \A c \in done : covers(c) \subseteq 0..(nextBlockToProcess - 1)
    BY <2>1, <2>2, <2>3 DEF DoneBelow
  <2>6. \A b \in 0..(nextBlockToProcess - 1) : \E c \in done : b \in covers(c)
    BY <2>1, <2>2, <2>3 DEF AllDone
  <2> HIDE DEF done, covers
  <2>7. UNION {covers(c) : c \in done} = 0..(nextBlockToProcess - 1)
    BY <2>5, <2>6, Zenon
  <2> QED BY <2>4, <2>7, Zenon DEF done, covers
<1> QED BY <1>1, <1>2, <1>3, TypesHold, PTL DEF Spec

-----------------------------------------------------------------------------
\* Votes.  An honest author votes as the root recomputes, and enough votes to
\* decide are never all dishonest: for finitely many authors, fewer are dishonest
\* than any session needs.
HonestVotes ==
    \A c \in 1..Len(roots) :
        /\ \A a \in votes[c].ayes : a \in Honest => roots[c].hash # "bad"
        /\ \A a \in votes[c].nays : a \in Honest => roots[c].hash = "bad"
        /\ roots[c].added_by \in Honest => roots[c].hash # "bad"
FewDishonest ==
    \A t \in Thresholds, S \in SUBSET Voter : Cardinality(S) >= t => S \cap Honest # {}

\* A ballot of vs is as honest as the ballots it is made from.
LEMMA BallotsHonest ==
    ASSUME TypeInv, HonestVotes, NEW c \in pendingApproval, NEW vs, Ballots(c, vs)
    PROVE  \A d \in 1..Len(roots) :
              /\ \A a \in vs[d].ayes : a \in Honest => roots[d].hash # "bad"
              /\ \A a \in vs[d].nays : a \in Honest => roots[d].hash = "bad"
<1> SUFFICES ASSUME NEW d \in 1..Len(roots)
             PROVE  /\ \A a \in vs[d].ayes : a \in Honest => roots[d].hash # "bad"
                    /\ \A a \in vs[d].nays : a \in Honest => roots[d].hash = "bad"
        OBVIOUS
<1>1. votes[d] \in Ballot
  BY EntryOf DEF TypeInv
<1>2. CASE vs[d] = votes[d]
  BY <1>2 DEF HonestVotes
<1>3. ASSUME NEW b \in Voter, d = c, b \in Honest => roots[c].hash # "bad",
             vs[c] = [votes[c] EXCEPT !.ayes = @ \cup {b}]
      PROVE  /\ \A a \in vs[d].ayes : a \in Honest => roots[d].hash # "bad"
             /\ \A a \in vs[d].nays : a \in Honest => roots[d].hash = "bad"
  <2>1. /\ vs[d].ayes = votes[d].ayes \cup {b} /\ vs[d].nays = votes[d].nays
    BY <1>1, <1>3 DEF Ballot
  <2> QED BY <1>3, <2>1 DEF HonestVotes
<1>4. ASSUME NEW b \in Voter, d = c, b \in Honest => roots[c].hash = "bad",
             vs[c] = [votes[c] EXCEPT !.nays = @ \cup {b}]
      PROVE  /\ \A a \in vs[d].ayes : a \in Honest => roots[d].hash # "bad"
             /\ \A a \in vs[d].nays : a \in Honest => roots[d].hash = "bad"
  <2>1. /\ vs[d].nays = votes[d].nays \cup {b} /\ vs[d].ayes = votes[d].ayes
    BY <1>1, <1>4 DEF Ballot
  <2> QED BY <1>4, <2>1 DEF HonestVotes
<1>5. d # c => vs[d] = votes[d]
  BY DEF Ballots, TypeInv
<1> QED BY <1>2, <1>3, <1>4, <1>5, Zenon DEF Ballots

LEMMA HonestVotesKept ==
    ASSUME TypeInv, HonestVotes, Shape \/ UNCHANGED vars
    PROVE  HonestVotes'
<1>0. Len(roots) \in Nat /\ Len(votes) = Len(roots)
  BY LenIsNat DEF TypeInv
<1>1. CASE Recorded
  <2>1. PICK a \in Voter, h \in Hashes : /\ a \in Honest => h # "bad"
                                         /\ record_summary_calculation(a, h)
    BY <1>1 DEF Recorded
  <2>2. PICK r \in Root, b \in Ballot : NewEntry(a, h, r, b)
    BY <2>1, NewEntries
  <2>3. /\ r.hash = h /\ r.added_by = a /\ b.ayes = {} /\ b.nays = {}
        /\ Len(roots') = Len(roots) + 1 /\ roots'[Len(roots) + 1] = r
        /\ votes'[Len(roots) + 1] = b
        /\ \A c \in 1..Len(roots) : roots'[c] = roots[c] /\ votes'[c] = votes[c]
    BY <2>2, Zenon DEF NewEntry
  <2> SUFFICES ASSUME NEW c \in 1..Len(roots')
               PROVE  /\ \A d \in votes'[c].ayes : d \in Honest => roots'[c].hash # "bad"
                      /\ \A d \in votes'[c].nays : d \in Honest => roots'[c].hash = "bad"
                      /\ roots'[c].added_by \in Honest => roots'[c].hash # "bad"
    BY DEF HonestVotes
  <2>6. CASE c = Len(roots) + 1
    BY <2>1, <2>3, <2>6, Zenon
  <2>7. CASE c \in 1..Len(roots)
    BY <2>3, <2>7, Zenon DEF HonestVotes
  <2>8. c = Len(roots) + 1 \/ c \in 1..Len(roots)
    <3>1. c \in 1..(Len(roots) + 1)
      BY <2>3
    <3> HIDE DEF HonestVotes
    <3> QED BY <1>0, <3>1
  <2> QED BY <2>6, <2>7, <2>8
<1>2. ASSUME SameRoots, votes' = votes
      PROVE  HonestVotes'
  BY <1>2 DEF HonestVotes, SameRoots, Unmoved
<1>3. ASSUME NEW c \in pendingApproval, NEW vs, Voted(c, vs)
      PROVE  HonestVotes'
  <2>1. /\ Len(roots') = Len(roots)
        /\ \A d \in 1..Len(roots) : roots'[d].hash = roots[d].hash
                                    /\ roots'[d].added_by = roots[d].added_by
    <3>1. CASE end_voting(c, vs)
      BY <3>1, EndVoting, Zenon DEF Ended, Approved, SameRoots, Unmoved
    <3> QED BY <1>3, <3>1 DEF Voted
  <2>2. votes' = vs /\ Ballots(c, vs)
    BY <1>3 DEF Voted
  <2>3. \A d \in 1..Len(roots) : roots[d].added_by \in Honest => roots[d].hash # "bad"
    BY DEF HonestVotes
  <2>4. \A d \in 1..Len(roots) :
            /\ \A a \in vs[d].ayes : a \in Honest => roots[d].hash # "bad"
            /\ \A a \in vs[d].nays : a \in Honest => roots[d].hash = "bad"
    BY <2>2, BallotsHonest
  <2> SUFFICES ASSUME NEW d \in 1..Len(roots')
               PROVE  /\ \A a \in votes'[d].ayes : a \in Honest => roots'[d].hash # "bad"
                      /\ \A a \in votes'[d].nays : a \in Honest => roots'[d].hash = "bad"
                      /\ roots'[d].added_by \in Honest => roots'[d].hash # "bad"
    BY DEF HonestVotes
  <2>5. d \in 1..Len(roots) /\ votes'[d] = vs[d]
    BY <2>1, <2>2
  <2>6. roots'[d].hash = roots[d].hash /\ roots'[d].added_by = roots[d].added_by
    BY <2>1, <2>5
  <2>8. /\ \A a \in votes'[d].ayes : a \in Honest => roots'[d].hash # "bad"
        /\ \A a \in votes'[d].nays : a \in Honest => roots'[d].hash = "bad"
    BY <2>4, <2>5, <2>6, Zenon
  <2> QED BY <2>3, <2>5, <2>6, <2>8, Zenon
<1>4. ASSUME UNCHANGED roots PROVE SameRoots
  BY <1>4, RootsStay DEF TypeInv
<1>5. CASE Idle \/ UNCHANGED vars
  BY <1>2, <1>4, <1>5 DEF Idle, vars, rootVars
<1>6. ASSUME NEW s, NEW v, set_periods(s, v)
      PROVE  HonestVotes'
  BY <1>2, <1>4, <1>6 DEF set_periods, AdminUnchanged, rootVars
<1>7. ASSUME NEW c \in Counters,
             \/ \E accepted \in BOOLEAN : admin_resolve_challenge(c, accepted)
             \/ \E r \in {"Passed", "Failed", "Expired"}, fails \in BOOLEAN :
                   on_voting_completed(c, r, fails)
      PROVE  HonestVotes'
  BY <1>2, <1>7, ReviewShape DEF ExternalUnchanged
<1>8. ASSUME NEW ok \in BOOLEAN, process_result(ok)
      PROVE  HonestVotes'
  BY <1>2, <1>8, ResultShape DEF process_result
<1> QED BY <1>1, <1>3, <1>5, <1>6, <1>7, <1>8 DEF Shape

LEMMA BlameOnEnd ==
    ASSUME FewDishonest, TypeInv, HonestVotes, NEW c \in pendingApproval, NEW vs,
           Voted(c, vs), end_voting(c, vs)
    PROVE  HonestBlamedOnlyBySilence'
<1> SUFFICES ASSUME NEW o \in offences', o[1] \in Honest
             PROVE  o[2] # "RejectedValidRoot" /\ ~has_outcome(votes'[o[3]])
  BY Zenon DEF HonestBlamedOnlyBySilence, has_outcome
<1>0. c \in 1..Len(roots) /\ vs[c] \in Ballot /\ votes' = vs /\ Ballots(c, vs)
  BY EntryOf, Zenon DEF Voted, Ballots, TypeInv
<1>1. /\ \A a \in vs[c].ayes : a \in Honest => roots[c].hash # "bad"
      /\ \A a \in vs[c].nays : a \in Honest => roots[c].hash = "bad"
  BY <1>0, BallotsHonest, Zenon
<1>2. vs[c].ayes \in SUBSET Voter /\ vs[c].nays \in SUBSET Voter /\ vs[c].threshold \in Thresholds
  BY <1>0, Zenon DEF Ballot
<1>3. is_approved(vs[c]) => roots[c].hash # "bad"
  <2>1. ASSUME is_approved(vs[c]) PROVE \E a \in vs[c].ayes : a \in Honest
    BY <1>2, <2>1 DEF is_approved, FewDishonest
  <2> QED BY <1>1, <2>1, Zenon
<1>4. Cardinality(vs[c].nays) >= vs[c].threshold => roots[c].hash = "bad"
  <2>1. ASSUME Cardinality(vs[c].nays) >= vs[c].threshold
        PROVE  \E a \in vs[c].nays : a \in Honest
    BY <1>2, <2>1 DEF FewDishonest
  <2> QED BY <1>1, <2>1
<1>5. CASE is_approved(vs[c])
  <2>1. offences' = Report(vs[c].nays, "RejectedValidRoot", c)
    BY <1>5, Zenon DEF end_voting, reports_on_approval
  <2>2. o[1] \in vs[c].nays
    BY <2>1 DEF Report
  <2> QED BY <1>1, <1>3, <1>5, <2>2
<1>6. CASE ~is_approved(vs[c])
  <2>1. offences' = Report({roots[c].added_by}, "CreatedInvalidRoot", c)
                        \cup Report(vs[c].ayes, "ApprovedInvalidRoot", c)
    BY <1>6, Zenon DEF end_voting, reports_on_rejection
  <2>2. /\ o[2] # "RejectedValidRoot" /\ o[3] = c
        /\ o[1] = roots[c].added_by \/ o[1] \in vs[c].ayes
    <3>1. \/ o = <<roots[c].added_by, "CreatedInvalidRoot", c>>
          \/ \E a \in vs[c].ayes : o = <<a, "ApprovedInvalidRoot", c>>
      BY <2>1, Zenon DEF Report
    <3>2. CASE o = <<roots[c].added_by, "CreatedInvalidRoot", c>>
      BY <3>2
    <3>3. ASSUME NEW a \in vs[c].ayes, o = <<a, "ApprovedInvalidRoot", c>>
          PROVE  o[2] # "RejectedValidRoot" /\ o[3] = c /\ o[1] \in vs[c].ayes
      BY <3>3
    <3> QED BY <3>1, <3>2, <3>3
  <2>3. roots[c].hash # "bad"
    BY <1>0, <1>1, <2>2 DEF HonestVotes
  <2> QED BY <1>0, <1>4, <1>6, <2>2, <2>3 DEF has_outcome, is_approved
<1> QED BY <1>5, <1>6

\* With fewer dishonest authors than any session needs, an honest author is
\* reported over a root only when the voting period ran out undecided, and never
\* for a vote against it (end_voting, cast_votes_if_required), whatever sessions
\* change while the root is voted on.
THEOREM BlamedOnlyBySilence ==
    ASSUME FewDishonest
    PROVE  Spec => []HonestBlamedOnlyBySilence
<1>1. ASSUME Init PROVE HonestVotes /\ HonestBlamedOnlyBySilence
  <2>1. Len(roots) = 0 /\ offences = {}
    BY <1>1 DEF Init
  <2> QED BY <2>1 DEF HonestVotes, HonestBlamedOnlyBySilence
<1>2. TypeInv /\ HonestVotes /\ [Next]_vars => HonestVotes'
  BY StepShape, HonestVotesKept
<1>3. ASSUME TypeInv, HonestVotes, HonestBlamedOnlyBySilence, [Next]_vars
      PROVE  HonestBlamedOnlyBySilence'
  <2>1. CASE offences' = {}
    BY <2>1 DEF HonestBlamedOnlyBySilence
  <2>2. CASE Idle
    BY <2>2 DEF Idle, HonestBlamedOnlyBySilence
  <2>3. CASE UNCHANGED vars
    BY <1>3, <2>3, Zenon DEF vars, HonestBlamedOnlyBySilence, has_outcome
  <2>4. ASSUME NEW c \in pendingApproval, NEW vs, Voted(c, vs)
        PROVE  HonestBlamedOnlyBySilence'
    BY <1>3, <2>1, <2>4, BlameOnEnd DEF Voted
  <2>5. CASE Recorded
    BY <2>1, <2>5, Zenon DEF Recorded, record_summary_calculation
  <2>6. CASE Shape
    BY <2>1, <2>2, <2>4, <2>5, <2>6 DEF Shape, set_periods, AdminUnchanged,
       admin_resolve_challenge, on_voting_completed, ExternalUnchanged, process_result
  <2> QED BY <1>3, <2>3, <2>6, StepShape
<1> QED BY <1>1, <1>2, <1>3, TypesHold, PTL DEF Spec

-----------------------------------------------------------------------------
\* The ways out.  What was handed to the bridge or anchored, and what the bridge
\* answered.
Sent(c) == \E i \in 1..Len(published) : published[i] = c
Anchored(c) == \E i \in 1..Len(anchorRoots) : anchorRoots[i] = c
Out(c) == Sent(c) \/ Anchored(c)
Confirmed(tx) == tx \in 1..Len(answered) /\ answered[tx]

Distinct ==
    /\ \A i, j \in 1..Len(published) : published[i] = published[j] => i = j
    /\ \A i, j \in 1..Len(anchorRoots) : anchorRoots[i] = anchorRoots[j] => i = j
    /\ \A i \in 1..Len(published), j \in 1..Len(anchorRoots) : published[i] # anchorRoots[j]
SentByTx ==
    /\ \A i \in 1..Len(published) :
          published[i] \in 1..Len(roots) /\ roots[published[i]].tx_id = i
    /\ \A c \in 1..Len(roots) : roots[c].tx_id # NoTx =>
          roots[c].tx_id \in 1..Len(published) /\ published[roots[c].tx_id] = c
FinalWhenConfirmed ==
    /\ Len(answered) <= Len(published)
    /\ \A c \in 1..Len(roots) : roots[c].is_finalised <=> Confirmed(roots[c].tx_id)
OpenByTx ==
    /\ txIdToRoot \subseteq Nat \X Nat
    /\ \A i, c \in Nat : <<i, c>> \in txIdToRoot <=>
          i \in 1..Len(published) /\ published[i] = c /\ ~Confirmed(i)
OutInv == Distinct /\ SentByTx /\ FinalWhenConfirmed /\ OpenByTx

SameTx(rs) ==
    /\ rs \in Seq(Root) /\ Len(rs) = Len(roots)
    /\ \A d \in 1..Len(roots) : /\ rs[d].tx_id = roots[d].tx_id
                                /\ rs[d].is_finalised = roots[d].is_finalised

LEMMA LengthsAreNat ==
    ASSUME TypeInv
    PROVE  /\ Len(published) \in Nat /\ Len(anchorRoots) \in Nat /\ Len(answered) \in Nat
           /\ Len(roots) \in Nat /\ \A d \in 1..Len(roots) : d \in Nat
           /\ pendingApproval \subseteq 1..Len(roots)
<1>1. /\ Len(published) \in Nat /\ Len(anchorRoots) \in Nat /\ Len(answered) \in Nat
      /\ Len(roots) \in Nat
  BY LenIsNat DEF TypeInv
<1>2. pendingApproval \subseteq 1..Len(roots)
  BY DEF TypeInv
<1> QED BY <1>1, <1>2

LEMMA SameTxFinal ==
    ASSUME FinalWhenConfirmed, SameTx(roots'), UNCHANGED <<published, answered>>
    PROVE  FinalWhenConfirmed'
<1>1. Len(roots') = Len(roots) /\ Len(answered') <= Len(published')
  BY DEF FinalWhenConfirmed, SameTx
<1>2. ASSUME NEW c \in 1..Len(roots)
      PROVE  (roots[c].is_finalised <=> Confirmed(roots[c].tx_id))'
  <2>1. roots'[c].tx_id = roots[c].tx_id /\ roots'[c].is_finalised = roots[c].is_finalised
    BY DEF SameTx
  <2>2. roots[c].is_finalised <=> Confirmed(roots[c].tx_id)
    BY DEF FinalWhenConfirmed
  <2>3. roots'[c].is_finalised <=> Confirmed(roots'[c].tx_id)
    BY <2>1, <2>2, Zenon
  <2> QED BY <2>3 DEF Confirmed
<1> QED BY <1>1, <1>2 DEF FinalWhenConfirmed

LEMMA OutStays ==
    ASSUME TypeInv, OutInv, SameTx(roots'), UNCHANGED outVars, UNCHANGED answered
    PROVE  OutInv'
<1>1. Distinct' /\ OpenByTx'
  BY DEF OutInv, Distinct, OpenByTx, outVars, Confirmed
<1>2. SentByTx'
  BY Zenon DEF OutInv, SentByTx, SameTx, outVars
<1>3. FinalWhenConfirmed'
  BY SameTxFinal DEF OutInv, outVars
<1> QED BY <1>1, <1>2, <1>3 DEF OutInv

LEMMA PublishOnce ==
    ASSUME TypeInv, OutInv, NEW rs, SameTx(rs), NEW c \in 1..Len(roots), ~Out(c),
           send_root_to_ethereum(c, rs), UNCHANGED answered
    PROVE  OutInv' /\ \A d \in Nat : Out(d)' => Out(d) \/ d = c
<1> DEFINE n == Len(published)
           x == [rs[c] EXCEPT !.tx_id = n + 1]
<1>0. n \in Nat /\ Len(answered) \in Nat /\ Len(answered) <= n /\ Len(roots) \in Nat /\ c \in Nat
  BY LengthsAreNat DEF OutInv, FinalWhenConfirmed
<1>1. rs[c] \in Root /\ rs[c].tx_id = roots[c].tx_id /\ rs[c].is_finalised = roots[c].is_finalised
  <2>1. rs \in Seq(Root) /\ Len(rs) = Len(roots)
    BY DEF SameTx
  <2>2. rs[c] \in Root
    BY <2>1, EntryOf
  <2> QED BY <2>2 DEF SameTx
<1>2. x \in Root /\ x.tx_id = n + 1 /\ x.is_finalised = roots[c].is_finalised
  BY <1>0, <1>1 DEF Root
<1>3. /\ published' = Append(published, c) /\ txIdToRoot' = txIdToRoot \cup {<<n + 1, c>>}
      /\ anchorRoots' = anchorRoots /\ roots' = [rs EXCEPT ![c] = x]
  BY DEF send_root_to_ethereum
<1>4. /\ Len(published') = n + 1 /\ published'[n + 1] = c
      /\ \A i \in 1..n : published'[i] = published[i]
  BY <1>0, <1>3, Appended DEF TypeInv
<1> HIDE DEF x
<1>5. /\ Len(roots') = Len(roots) /\ roots'[c] = x
      /\ \A d \in 1..Len(roots) : d # c => roots'[d] = rs[d]
  BY <1>2, <1>3, ReplaceEntry DEF SameTx
<1>6. \A d \in 1..Len(roots) : d # c => /\ roots'[d].tx_id = roots[d].tx_id
                                        /\ roots'[d].is_finalised = roots[d].is_finalised
  BY <1>5 DEF SameTx
<1>7. \A i \in 1..(n + 1) : i = n + 1 \/ i \in 1..n
  BY <1>0
<1>8. \A i \in 1..n : published[i] # c
  BY DEF Out, Sent
<1>9. \A i \in 1..Len(anchorRoots) : anchorRoots[i] # c
  BY DEF Out, Anchored
<1>10. Distinct'
  BY <1>3, <1>4, <1>7, <1>8, <1>9 DEF OutInv, Distinct
<1>11. SentByTx'
  <2>1. ASSUME NEW i \in 1..(n + 1)
        PROVE  published'[i] \in 1..Len(roots) /\ roots'[published'[i]].tx_id = i
    <3>1. CASE i = n + 1
      BY <1>2, <1>4, <1>5, <3>1
    <3>2. CASE i \in 1..n
      BY <1>4, <1>6, <1>8, <3>2 DEF OutInv, SentByTx
    <3> QED BY <1>7, <3>1, <3>2
  <2>2. ASSUME NEW d \in 1..Len(roots), roots'[d].tx_id # NoTx
        PROVE  roots'[d].tx_id \in 1..(n + 1) /\ published'[roots'[d].tx_id] = d
    <3>1. CASE d = c
      BY <1>0, <1>2, <1>4, <1>5, <3>1
    <3>2. CASE d # c
      <4>1. roots[d].tx_id \in 1..n /\ published[roots[d].tx_id] = d
        BY <1>6, <2>2, <3>2 DEF OutInv, SentByTx
      <4> QED BY <1>0, <1>4, <1>6, <3>2, <4>1
    <3> QED BY <3>1, <3>2
  <2> QED BY <1>4, <1>5, <2>1, <2>2 DEF SentByTx
<1>12. FinalWhenConfirmed'
  <2>1. ASSUME NEW d \in 1..Len(roots)
        PROVE  roots'[d].is_finalised <=> Confirmed(roots'[d].tx_id)
    <3>1. CASE d # c
      BY <1>6, <3>1 DEF OutInv, FinalWhenConfirmed
    <3>2. CASE d = c
      <4>1. roots[c].tx_id = NoTx
        BY <1>8 DEF OutInv, SentByTx
      <4>2. ~Confirmed(NoTx) /\ ~Confirmed(n + 1)
        BY <1>0 DEF Confirmed, NoTx
      <4>3. ~roots[c].is_finalised
        BY <4>1, <4>2 DEF OutInv, FinalWhenConfirmed
      <4> QED BY <1>2, <1>5, <3>2, <4>2, <4>3
    <3> QED BY <3>1, <3>2
  <2>2. \A tx : Confirmed(tx)' <=> Confirmed(tx)
    BY DEF Confirmed
  <2>3. Len(answered') <= Len(published')
    BY <1>0, <1>4
  <2> QED BY <1>5, <2>1, <2>2, <2>3, Zenon DEF FinalWhenConfirmed
<1>13. OpenByTx'
  <2>1. \A tx : Confirmed(tx)' <=> Confirmed(tx)
    BY DEF Confirmed
  <2>2. ~Confirmed(n + 1)
    BY <1>0 DEF Confirmed
  <2>3. txIdToRoot' \subseteq Nat \X Nat
    BY <1>0, <1>3 DEF OutInv, OpenByTx
  <2>4. ASSUME NEW i \in Nat, NEW d \in Nat
        PROVE  <<i, d>> \in txIdToRoot' <=>
                  i \in 1..(n + 1) /\ published'[i] = d /\ ~Confirmed(i)
    <3>1. <<i, d>> \in txIdToRoot' <=> <<i, d>> \in txIdToRoot \/ (i = n + 1 /\ d = c)
      BY <1>3
    <3>2. <<i, d>> \in txIdToRoot <=> i \in 1..n /\ published[i] = d /\ ~Confirmed(i)
      BY <2>4 DEF OutInv, OpenByTx
    <3>3. CASE i = n + 1
      BY <1>0, <1>4, <2>2, <3>1, <3>2, <3>3
    <3>4. CASE i # n + 1
      BY <1>0, <1>4, <3>1, <3>2, <3>4
    <3> QED BY <3>3, <3>4
  <2> QED BY <1>4, <2>1, <2>3, <2>4 DEF OpenByTx
<1>14. ASSUME NEW d \in Nat, Out(d)' PROVE Out(d) \/ d = c
  BY <1>3, <1>4, <1>7, <1>14 DEF Out, Sent, Anchored
<1> QED BY <1>10, <1>11, <1>12, <1>13, <1>14 DEF OutInv

LEMMA AnchorOnce ==
    ASSUME TypeInv, OutInv, SameTx(roots'), NEW c \in 1..Len(roots), ~Out(c),
           anchorRoots' = Append(anchorRoots, c), UNCHANGED <<txIdToRoot, published, answered>>
    PROVE  OutInv' /\ \A d \in Nat : Out(d)' => Out(d) \/ d = c
<1> DEFINE n == Len(anchorRoots)
<1>0. n \in Nat /\ c \in Nat
  BY LengthsAreNat
<1>1. /\ Len(anchorRoots') = n + 1 /\ anchorRoots'[n + 1] = c
      /\ \A i \in 1..n : anchorRoots'[i] = anchorRoots[i]
  BY <1>0, Appended DEF TypeInv
<1>2. \A i \in 1..(n + 1) : i = n + 1 \/ i \in 1..n
  BY <1>0
<1>3. /\ \A i \in 1..Len(published) : published[i] # c
      /\ \A i \in 1..n : anchorRoots[i] # c
  BY DEF Out, Sent, Anchored
<1>4. Distinct'
  BY <1>1, <1>2, <1>3 DEF OutInv, Distinct
<1>5. SentByTx' /\ OpenByTx'
  <2>1. OpenByTx'
    BY DEF OutInv, OpenByTx, Confirmed
  <2>2. SentByTx'
    BY DEF OutInv, SentByTx, SameTx
  <2> QED BY <2>1, <2>2
<1>7. FinalWhenConfirmed'
  BY SameTxFinal DEF OutInv
<1>6. ASSUME NEW d \in Nat, Out(d)' PROVE Out(d) \/ d = c
  BY <1>1, <1>2, <1>6 DEF Out, Sent, Anchored
<1> QED BY <1>4, <1>5, <1>6, <1>7 DEF OutInv

LEMMA HandOverOnce ==
    ASSUME TypeInv, OutInv, NEW rs, SameTx(rs), NEW c \in 1..Len(roots), ~Out(c),
           process_accepted_root(c, rs), UNCHANGED answered
    PROVE  OutInv' /\ \A d \in Nat : Out(d)' => Out(d) \/ d = c
<1>1. CASE send_root_to_ethereum(c, rs)
  BY <1>1, PublishOnce
<1>2. CASE anchorRoots' = Append(anchorRoots, c) /\ roots' = rs /\ UNCHANGED <<txIdToRoot, published>>
  BY <1>2, AnchorOnce
<1>3. CASE roots' = rs /\ UNCHANGED outVars
  BY <1>3, OutStays DEF outVars, Out, Sent, Anchored
<1> QED BY <1>1, <1>2, <1>3 DEF process_accepted_root

\* process_result takes the answers in the order of the transactions.
LEMMA AnswerKeepsOut ==
    ASSUME TypeInv, OutInv, NEW ok \in BOOLEAN, process_result(ok)
    PROVE  OutInv'
<1> SUFFICES ASSUME NEW tx, tx = Len(answered) + 1
             PROVE  OutInv'
  OBVIOUS
<1> DEFINE known == {p \in txIdToRoot : p[1] = tx}
           done == published[tx]
<1>0. /\ Len(answered) \in Nat /\ Len(published) \in Nat /\ Len(roots) \in Nat
      /\ tx \in 1..Len(published)
  BY LengthsAreNat, LenIsNat DEF process_result, TypeInv
<1>1. /\ Len(answered') = tx /\ answered'[tx] = ok
      /\ \A i \in 1..Len(answered) : answered'[i] = answered[i]
  BY Appended DEF process_result, TypeInv
<1>2. done \in 1..Len(roots) /\ roots[done].tx_id = tx /\ done \in Nat
  BY <1>0 DEF OutInv, SentByTx
<1>3. ~Confirmed(tx) /\ (Confirmed(tx)' <=> ok)
  BY <1>0, <1>1 DEF Confirmed
<1>4. \A i \in Nat : i # tx => (Confirmed(i)' <=> Confirmed(i))
  BY <1>0, <1>1 DEF Confirmed
<1>5. \A d \in Nat : <<tx, d>> \in txIdToRoot <=> d = done
  BY <1>0, <1>3 DEF OutInv, OpenByTx
<1>6. <<tx, done>> \in known
  BY <1>2, <1>5
<1>7. /\ published' = published /\ anchorRoots' = anchorRoots
      /\ IF ok THEN /\ roots' = [c \in Counters |-> IF <<tx, c>> \in known
                                    THEN [roots[c] EXCEPT !.is_finalised = TRUE] ELSE roots[c]]
                    /\ txIdToRoot' = txIdToRoot \ known
               ELSE UNCHANGED <<roots, txIdToRoot>>
  BY <1>6 DEF process_result
<1>8. Counters = 1..Len(roots) /\ \A c \in 1..Len(roots) : c \in Nat /\ roots[c] \in Root
  BY LenIsNat, EntryOf DEF Counters, TypeInv
<1>9. \A c \in 1..Len(roots) : <<tx, c>> \in known <=> c = done
  BY <1>5, <1>8
<1>10. Len(roots') = Len(roots)
  BY ResultShape DEF SameRoots
<1>11. \A c \in 1..Len(roots) :
          /\ roots'[c].tx_id = roots[c].tx_id
          /\ c # done => roots'[c].is_finalised = roots[c].is_finalised
          /\ c = done => (roots'[c].is_finalised <=> ok)
  <2>1. CASE ok
    <3>1. \A c \in 1..Len(roots) : roots'[c] = IF c = done
                THEN [roots[c] EXCEPT !.is_finalised = TRUE] ELSE roots[c]
      BY <1>7, <1>8, <1>9, <2>1, Zenon
    <3> QED BY <1>8, <2>1, <3>1, Zenon DEF Root
  <2>2. CASE ~ok
    <3>1. ~roots[done].is_finalised
      BY <1>2, <1>3, Zenon DEF OutInv, FinalWhenConfirmed
    <3> QED BY <1>7, <2>2, <3>1
  <2> QED BY <2>1, <2>2, Zenon
<1> HIDE DEF done, known
<1>12. (Distinct /\ SentByTx)'
  BY <1>7, <1>10, <1>11 DEF OutInv, Distinct, SentByTx
<1>13. FinalWhenConfirmed'
  <2>1. ASSUME NEW c \in 1..Len(roots)
        PROVE  roots'[c].is_finalised <=> Confirmed(roots[c].tx_id)'
    <3>1. CASE c = done
      BY <1>2, <1>3, <1>11, <3>1
    <3>2. CASE c # done
      <4>1. roots[c].tx_id \in Nat
        BY <1>8 DEF Root
      <4>2. roots[c].tx_id # tx
        BY <1>0, <3>2 DEF OutInv, SentByTx, NoTx, done
      <4> QED BY <1>4, <1>11, <3>2, <4>1, <4>2 DEF OutInv, FinalWhenConfirmed
    <3> QED BY <3>1, <3>2
  <2> QED BY <1>0, <1>1, <1>7, <1>10, <1>11, <2>1 DEF FinalWhenConfirmed, Confirmed
<1>14. OpenByTx'
  <2>1. txIdToRoot' \subseteq txIdToRoot
    BY <1>7
  <2>2. ASSUME NEW i \in Nat, NEW c \in Nat
        PROVE  <<i, c>> \in txIdToRoot' <=>
                  i \in 1..Len(published) /\ published[i] = c /\ ~Confirmed(i)'
    <3>1. <<i, c>> \in txIdToRoot <=> i \in 1..Len(published) /\ published[i] = c /\ ~Confirmed(i)
      BY <2>2 DEF OutInv, OpenByTx
    <3>2. CASE i = tx
      <4>1. CASE ok
        <5>1. <<i, c>> \notin txIdToRoot'
          BY <1>7, <3>2, <4>1 DEF known
        <5> QED BY <1>3, <3>2, <4>1, <5>1
      <4>2. CASE ~ok
        BY <1>3, <1>7, <3>1, <3>2, <4>2
      <4> QED BY <4>1, <4>2
    <3>3. CASE i # tx
      <4>1. <<i, c>> \in txIdToRoot' <=> <<i, c>> \in txIdToRoot
        BY <1>7, <3>3 DEF known
      <4> QED BY <1>4, <2>2, <3>1, <3>3, <4>1
    <3> QED BY <3>2, <3>3
  <2> QED BY <1>7, <2>1, <2>2 DEF OutInv, OpenByTx
<1> QED BY <1>12, <1>13, <1>14 DEF OutInv

-----------------------------------------------------------------------------
\* Consent and review: who agreed to a root that is out, and which roots are with
\* the watchtowers or the admin.
ConsentInv ==
    /\ \A c \in pendingApproval : ~roots[c].is_validated
    /\ \A c \in 1..Len(roots) : roots[c].is_validated => is_approved(votes[c])
    /\ \A c \in Nat : Out(c) => /\ c \in 1..Len(roots) /\ roots[c].is_validated
                                /\ config.external => c \in agreed
InReview(c) ==
    config.external /\ roots[c].is_validated /\ roots[c].hash # "empty" /\ ~Out(c)
ReviewInv ==
    \A c \in 1..Len(roots) :
        /\ c \in adminReviews <=> externalStatus[c] = "PendingAdminReview"
        /\ c \in externalRef <=> externalStatus[c] # "None"
        /\ externalStatus[c] # "None" => InReview(c)

\* A step that decides nothing about any root.
LEMMA NothingDecided ==
    ASSUME TypeInv, ConsentInv, ReviewInv, SameRoots, pendingApproval' \subseteq pendingApproval,
           \A d \in 1..Len(roots) : roots[d].is_validated => votes'[d] = votes[d],
           UNCHANGED <<config, agreed, published, anchorRoots>>, UNCHANGED extVars
    PROVE  ConsentInv' /\ ReviewInv'
<1>1. Len(roots') = Len(roots) /\ pendingApproval \subseteq 1..Len(roots)
  BY DEF SameRoots, TypeInv
<1>2. \A d \in 1..Len(roots) : /\ roots'[d].is_validated = roots[d].is_validated
                               /\ roots'[d].hash = roots[d].hash
  BY Zenon DEF SameRoots, Unmoved
<1>3. \A d : Out(d)' <=> Out(d)
  BY Zenon DEF Out, Sent, Anchored
<1>4. ASSUME NEW c \in pendingApproval' PROVE ~roots'[c].is_validated
  <2>1. c \in pendingApproval /\ c \in 1..Len(roots)
    BY <1>1
  <2>2. ~roots[c].is_validated
    BY <2>1 DEF ConsentInv
  <2> QED BY <1>2, <2>1, <2>2, Zenon
<1>5. ASSUME NEW c \in 1..Len(roots), roots'[c].is_validated PROVE is_approved(votes'[c])
  <2>1. roots[c].is_validated
    BY <1>2, <1>5, Zenon
  <2>2. is_approved(votes[c]) /\ votes'[c] = votes[c]
    BY <2>1 DEF ConsentInv
  <2> QED BY <2>2, Zenon
<1>6. ASSUME NEW c \in Nat, Out(c)
      PROVE  /\ c \in 1..Len(roots) /\ roots'[c].is_validated
             /\ config'.external => c \in agreed'
  <2>1. c \in 1..Len(roots) /\ roots[c].is_validated /\ (config.external => c \in agreed)
    BY <1>6 DEF ConsentInv
  <2>2. roots'[c].is_validated
    BY <1>2, <2>1, Zenon
  <2> QED BY <2>1, <2>2
<1>7. ConsentInv'
  BY <1>1, <1>3, <1>4, <1>5, <1>6, Zenon DEF ConsentInv, is_approved
<1>8. ASSUME NEW c \in 1..Len(roots), InReview(c) PROVE InReview(c)'
  <2>1. roots'[c].is_validated /\ roots'[c].hash # "empty"
    BY <1>2, <1>8, Zenon DEF InReview
  <2> QED BY <1>3, <1>8, <2>1 DEF InReview
<1>9. ReviewInv'
  BY <1>1, <1>8 DEF ReviewInv, extVars
<1> QED BY <1>7, <1>9

\* A step that approves the root c, hands it over or moves it in the review.
ReviewMoved(c) ==
    /\ \A d \in 1..Len(roots) : d # c =>
          /\ externalStatus'[d] = externalStatus[d]
          /\ d \in adminReviews' <=> d \in adminReviews
          /\ d \in externalRef' <=> d \in externalRef
    /\ c \in adminReviews' <=> externalStatus'[c] = "PendingAdminReview"
    /\ c \in externalRef' <=> externalStatus'[c] # "None"
LEMMA OneDecided ==
    ASSUME TypeInv, ConsentInv, ReviewInv, NEW c \in 1..Len(roots),
           Len(roots') = Len(roots), config' = config, agreed \subseteq agreed',
           \A d \in 1..Len(roots) : d # c => /\ Unmoved(roots[d], roots'[d])
                                             /\ votes'[d] = votes[d],
           roots'[c].is_validated, roots'[c].hash = roots[c].hash, is_approved(votes'[c]),
           pendingApproval' \subseteq pendingApproval \ {c},
           \A d \in Nat : Out(d)' => Out(d) \/ d = c,
           Out(c)' => (config.external => c \in agreed'),
           ReviewMoved(c),
           externalStatus'[c] # "None" => config.external /\ roots[c].hash # "empty" /\ ~Out(c)'
    PROVE  ConsentInv' /\ ReviewInv'
<1>1. pendingApproval \subseteq 1..Len(roots) /\ \A d \in 1..Len(roots) : d \in Nat
  BY LengthsAreNat, Zenon
<1>2. \A d \in 1..Len(roots) : d # c => /\ roots'[d].is_validated = roots[d].is_validated
                                        /\ roots'[d].hash = roots[d].hash
  BY Zenon DEF Unmoved
<1>4. ASSUME NEW d \in pendingApproval' PROVE ~roots'[d].is_validated
  <2>1. d \in pendingApproval /\ d # c /\ d \in 1..Len(roots)
    BY <1>1, Zenon
  <2>2. ~roots[d].is_validated
    BY <2>1, Zenon DEF ConsentInv
  <2> QED BY <1>2, <2>1, <2>2, Zenon
<1>5. ASSUME NEW d \in 1..Len(roots), roots'[d].is_validated PROVE is_approved(votes'[d])
  <2>1. CASE d # c
    <3>1. roots[d].is_validated /\ votes'[d] = votes[d]
      BY <1>2, <1>5, <2>1, Zenon
    <3>2. is_approved(votes[d])
      BY <3>1, Zenon DEF ConsentInv
    <3> QED BY <3>1, <3>2, Zenon
  <2> QED BY <2>1, Zenon
<1>6. ASSUME NEW d \in Nat, Out(d)'
      PROVE  /\ d \in 1..Len(roots) /\ roots'[d].is_validated
             /\ config'.external => d \in agreed'
  <2>1. CASE d # c
    <3>1. d \in 1..Len(roots) /\ roots[d].is_validated /\ (config.external => d \in agreed)
      BY <1>6, <2>1, Zenon DEF ConsentInv
    <3>2. roots'[d].is_validated
      BY <1>2, <2>1, <3>1, Zenon
    <3> QED BY <3>1, <3>2, Zenon
  <2> QED BY <1>6, <2>1, Zenon
<1>7. ConsentInv'
  BY <1>4, <1>5, <1>6, Zenon DEF ConsentInv, is_approved
<1>8. ASSUME NEW d \in 1..Len(roots), d # c, InReview(d) PROVE InReview(d)'
  <2>1. roots'[d].is_validated /\ roots'[d].hash # "empty"
    BY <1>2, <1>8, Zenon DEF InReview
  <2>2. ~Out(d)'
    BY <1>1, <1>8, Zenon DEF InReview
  <2> QED BY <1>8, <2>1, <2>2, Zenon DEF InReview
<1>9. ASSUME externalStatus'[c] # "None" PROVE InReview(c)'
  BY <1>9, Zenon DEF InReview
<1>10. ReviewInv'
  BY <1>8, <1>9, Zenon DEF ReviewInv, ReviewMoved
<1> QED BY <1>7, <1>10

\* record_summary_calculation: the new root is nowhere yet.
LEMMA RecordedIsNew ==
    ASSUME TypeInv, OutInv, ConsentInv, ReviewInv, Recorded
    PROVE  OutInv' /\ ConsentInv' /\ ReviewInv'
<1> DEFINE n == Len(roots)
<1>0. PICK a \in Voter, h \in Hashes : record_summary_calculation(a, h)
  BY DEF Recorded
<1>0a. PICK r \in Root, b \in Ballot : NewEntry(a, h, r, b)
  BY <1>0, NewEntries
<1>1. /\ ~r.is_validated /\ ~r.is_finalised /\ r.tx_id = NoTx
      /\ Len(roots') = n + 1 /\ roots'[n + 1] = r /\ externalStatus'[n + 1] = "None"
      /\ \A c \in 1..n : /\ roots'[c] = roots[c] /\ votes'[c] = votes[c]
                         /\ externalStatus'[c] = externalStatus[c]
  BY <1>0a, Zenon DEF NewEntry
<1>2. /\ UNCHANGED <<config, answered, agreed>> /\ UNCHANGED outVars
      /\ adminReviews' = adminReviews /\ externalRef' = externalRef
      /\ pendingApproval' = pendingApproval \cup {n + 1}
  BY <1>0, Zenon DEF record_summary_calculation
<1>3. n \in Nat /\ n + 1 \notin 1..n /\ pendingApproval \subseteq 1..n
  BY LengthsAreNat DEF TypeInv
<1>4. /\ Len(roots') = n + 1 /\ roots'[n + 1] = r /\ externalStatus'[n + 1] = "None"
      /\ \A c \in 1..n : /\ roots'[c] = roots[c] /\ votes'[c] = votes[c]
                         /\ externalStatus'[c] = externalStatus[c]
  BY <1>1, Zenon
<1>5. \A c \in 1..(n + 1) : c = n + 1 \/ c \in 1..n
  BY <1>3
<1>5a. \A c \in 1..n : c \in 1..(n + 1)
  BY <1>3
<1>6. \A c : (Out(c)' <=> Out(c)) /\ (Confirmed(c)' <=> Confirmed(c))
  BY <1>2 DEF Out, Sent, Anchored, Confirmed, outVars
<1>7. ~Out(n + 1)
  BY <1>3 DEF ConsentInv
<1>8. Distinct' /\ OpenByTx'
  BY <1>2 DEF OutInv, Distinct, OpenByTx, outVars, Confirmed
<1>9. SentByTx'
  <2>1. ASSUME NEW i \in 1..Len(published)
        PROVE  published[i] \in 1..(n + 1) /\ roots'[published[i]].tx_id = i
    BY <1>4, <1>5a, Zenon DEF OutInv, SentByTx
  <2>2. ASSUME NEW c \in 1..(n + 1), roots'[c].tx_id # NoTx
        PROVE  roots'[c].tx_id \in 1..Len(published) /\ published[roots'[c].tx_id] = c
    <3>1. c \in 1..n
      BY <1>1, <1>4, <1>5, <2>2, Zenon
    <3> QED BY <1>4, <2>2, <3>1, Zenon DEF OutInv, SentByTx
  <2> QED BY <1>2, <1>4, <2>1, <2>2, Zenon DEF SentByTx, outVars
<1>10. FinalWhenConfirmed'
  <2>1. ASSUME NEW c \in 1..(n + 1)
        PROVE  roots'[c].is_finalised <=> Confirmed(roots'[c].tx_id)
    <3>1. CASE c = n + 1
      <4>1. ~Confirmed(NoTx)
        BY DEF Confirmed, NoTx
      <4> QED BY <1>1, <1>4, <3>1, <4>1, Zenon
    <3>2. CASE c \in 1..n
      BY <1>4, <3>2 DEF OutInv, FinalWhenConfirmed
    <3> QED BY <1>5, <3>1, <3>2
  <2>2. Len(answered') <= Len(published')
    BY <1>2 DEF OutInv, FinalWhenConfirmed, outVars
  <2> QED BY <1>2, <1>4, <2>1, <2>2, Zenon DEF FinalWhenConfirmed, Confirmed
<1>11. ConsentInv'
  <2>1. ASSUME NEW c \in pendingApproval' PROVE ~roots'[c].is_validated
    BY <1>1, <1>2, <1>3, <1>4, Zenon DEF ConsentInv
  <2>2. ASSUME NEW c \in 1..(n + 1), roots'[c].is_validated PROVE is_approved(votes'[c])
    <3>1. c \in 1..n
      BY <1>1, <1>4, <1>5, <2>2
    <3> QED BY <1>4, <2>2, <3>1, Zenon DEF ConsentInv
  <2>3. ASSUME NEW c \in Nat, Out(c)
        PROVE  /\ c \in 1..(n + 1) /\ roots'[c].is_validated
               /\ config'.external => c \in agreed'
    BY <1>2, <1>4, <1>5a, <2>3, Zenon DEF ConsentInv
  <2> QED BY <1>4, <1>6, <2>1, <2>2, <2>3, Zenon DEF ConsentInv, is_approved
<1>12. ReviewInv'
  <2>1. ASSUME NEW c \in 1..n, InReview(c) PROVE InReview(c)'
    BY <1>2, <1>4, <1>6, <2>1, Zenon DEF InReview
  <2>2. n + 1 \notin adminReviews /\ n + 1 \notin externalRef
    BY <1>3 DEF TypeInv
  <2> QED BY <1>2, <1>4, <1>5, <2>1, <2>2, Zenon DEF ReviewInv
<1> QED BY <1>8, <1>9, <1>10, <1>11, <1>12 DEF OutInv

-----------------------------------------------------------------------------
LEMMA SameTxKept ==
    ASSUME roots \in Seq(Root), UNCHANGED roots PROVE SameTx(roots')
BY DEF SameTx

\* The watchtowers' hook and the admin act on a root whose review is open: it is
\* validated, approved, and not out.
LEMMA UnderReview ==
    ASSUME TypeInv, ConsentInv, ReviewInv, NEW c \in 1..Len(roots), externalStatus[c] # "None"
    PROVE  /\ config.external /\ roots[c].is_validated /\ roots[c].hash # "empty" /\ ~Out(c)
           /\ is_approved(votes[c]) /\ c \notin pendingApproval
BY Zenon DEF ConsentInv, ReviewInv, InReview

LEMMA ReviewedOnce ==
    ASSUME TypeInv, OutInv, ConsentInv, ReviewInv, NEW c \in Counters,
           \/ \E accepted \in BOOLEAN : admin_resolve_challenge(c, accepted)
           \/ \E r \in {"Passed", "Failed", "Expired"}, fails \in BOOLEAN :
                 on_voting_completed(c, r, fails)
    PROVE  OutInv' /\ ConsentInv' /\ ReviewInv'
<1>0. /\ c \in 1..Len(roots) /\ roots \in Seq(Root) /\ SameTx(roots)
      /\ externalStatus \in Seq(ExternalStatuses) /\ c \in 1..Len(externalStatus)
  BY LenIsNat DEF Counters, TypeInv, SameTx
<1>1. externalStatus[c] # "None"
  BY DEF admin_resolve_challenge, on_voting_completed
<1>2. /\ config.external /\ roots[c].is_validated /\ roots[c].hash # "empty" /\ ~Out(c)
      /\ is_approved(votes[c]) /\ c \notin pendingApproval
  BY <1>0, <1>1, UnderReview, Zenon
<1>3. SameRoots
  BY ReviewShape
<1>4. /\ UNCHANGED <<config, answered, votes, pendingApproval>>
      /\ agreed \subseteq agreed'
  BY Zenon DEF admin_resolve_challenge, on_voting_completed, ExternalUnchanged
<1>5. /\ Len(roots') = Len(roots)
      /\ \A d \in 1..Len(roots) : Unmoved(roots[d], roots'[d])
  BY <1>3 DEF SameRoots
<1>6. roots'[c].is_validated /\ roots'[c].hash = roots[c].hash
  <2>1. roots'[c].is_validated = roots[c].is_validated /\ roots'[c].hash = roots[c].hash
    BY <1>0, <1>5, Zenon DEF Unmoved
  <2> QED BY <1>2, <2>1, Zenon
<1>7. pendingApproval' \subseteq pendingApproval \ {c}
  BY <1>2, <1>4, Zenon
<1>8. \A d \in 1..Len(roots) : d # c => Unmoved(roots[d], roots'[d]) /\ votes'[d] = votes[d]
  BY <1>4, <1>5
<1>9. is_approved(votes'[c])
  BY <1>2, <1>4, Zenon
<1>10. \A s \in ExternalStatuses : externalStatus' = [externalStatus EXCEPT ![c] = s] =>
          /\ externalStatus'[c] = s
          /\ \A d \in 1..Len(roots) : d # c => externalStatus'[d] = externalStatus[d]
  BY <1>0, ReplaceEntry DEF TypeInv
<1>11. CASE process_accepted_root(c, roots) /\ cleanup_external_validation_data(c) /\ c \in agreed'
  <2>1. OutInv' /\ \A d \in Nat : Out(d)' => Out(d) \/ d = c
    BY <1>0, <1>2, <1>4, <1>11, HandOverOnce, Zenon
  <2>2. externalStatus'[c] = "None"
    BY <1>10, <1>11 DEF cleanup_external_validation_data, ExternalStatuses
  <2>3. ReviewMoved(c)
    BY <1>10, <1>11, <2>2 DEF cleanup_external_validation_data, ReviewMoved, ExternalStatuses
  <2>4. ConsentInv' /\ ReviewInv'
    BY <1>0, <1>4, <1>5, <1>6, <1>7, <1>8, <1>9, <1>11, <2>1, <2>2, <2>3, OneDecided, Zenon
  <2> QED BY <2>1, <2>4
<1>12. ASSUME UNCHANGED roots, UNCHANGED outVars, ReviewMoved(c)
       PROVE  OutInv' /\ ConsentInv' /\ ReviewInv'
  <2>1. OutInv'
    BY <1>0, <1>4, <1>12, OutStays, SameTxKept
  <2>2. \A d \in Nat : Out(d)' <=> Out(d)
    BY <1>12 DEF outVars, Out, Sent, Anchored
  <2>3. ~Out(c)'
    BY <1>2, <1>12, Zenon DEF outVars, Out, Sent, Anchored
  <2>4. ConsentInv' /\ ReviewInv'
    BY <1>0, <1>2, <1>4, <1>5, <1>6, <1>7, <1>8, <1>9, <1>12, <2>2, <2>3, OneDecided, Zenon
  <2> QED BY <2>1, <2>4
<1>13. CASE cleanup_external_validation_data(c) /\ UNCHANGED roots /\ UNCHANGED outVars
  <2>1. externalStatus'[c] = "None"
    BY <1>10, <1>13 DEF cleanup_external_validation_data, ExternalStatuses
  <2>2. ReviewMoved(c)
    BY <1>10, <1>13, <2>1 DEF cleanup_external_validation_data, ReviewMoved, ExternalStatuses
  <2> QED BY <1>12, <1>13, <2>2
<1>14. CASE setup_root_for_admin_review(c) /\ UNCHANGED roots /\ UNCHANGED outVars
  <2>1. externalStatus'[c] = "PendingAdminReview"
    BY <1>10, <1>14 DEF setup_root_for_admin_review, ExternalStatuses
  <2>2. c \in externalRef
    BY <1>0, <1>1 DEF ReviewInv
  <2>3. ReviewMoved(c)
    BY <1>10, <1>14, <2>1, <2>2 DEF setup_root_for_admin_review, ReviewMoved, ExternalStatuses
  <2> QED BY <1>12, <1>14, <2>3
<1>15. CASE /\ externalStatus' = [externalStatus EXCEPT ![c] = "Accepted"]
            /\ externalStatus[c] = "ValidationInProgress"
            /\ UNCHANGED <<externalRef, adminReviews, roots>> /\ UNCHANGED outVars
  <2>1. externalStatus'[c] = "Accepted"
    BY <1>10, <1>15 DEF ExternalStatuses
  <2>2. c \in externalRef /\ c \notin adminReviews
    BY <1>0, <1>15 DEF ReviewInv
  <2>3. ReviewMoved(c)
    BY <1>10, <1>15, <2>1, <2>2 DEF ReviewMoved, ExternalStatuses
  <2> QED BY <1>12, <1>15, <2>3
<1>16. ASSUME NEW accepted \in BOOLEAN, admin_resolve_challenge(c, accepted)
       PROVE  OutInv' /\ ConsentInv' /\ ReviewInv'
  BY <1>11, <1>13, <1>16 DEF admin_resolve_challenge
<1>17. ASSUME NEW r \in {"Passed", "Failed", "Expired"}, NEW fails \in BOOLEAN,
              on_voting_completed(c, r, fails)
       PROVE  OutInv' /\ ConsentInv' /\ ReviewInv'
  BY <1>11, <1>14, <1>15, <1>17, Zenon DEF on_voting_completed
<1> QED BY <1>16, <1>17

\* The vote that approves a root hands it over, or to the watchtowers, or
\* neither when its hash is empty.
LEMMA ApprovedOnce ==
    ASSUME TypeInv, OutInv, ConsentInv, ReviewInv, NEW c \in pendingApproval, NEW vs,
           Ballots(c, vs), VotingUnchanged, votes' = vs, end_voting(c, vs), is_approved(vs[c])
    PROVE  OutInv' /\ ConsentInv' /\ ReviewInv'
<1>0. /\ c \in 1..Len(roots) /\ c \in Nat /\ roots[c] \in Root /\ ~roots[c].is_validated
      /\ externalStatus \in Seq(ExternalStatuses) /\ c \in 1..Len(externalStatus)
      /\ roots \in Seq(Root)
  <2>1. c \in 1..Len(roots) /\ roots \in Seq(Root) /\ externalStatus \in Seq(ExternalStatuses)
        /\ Len(externalStatus) = Len(roots)
    BY DEF TypeInv
  <2>2. roots[c] \in Root /\ c \in Nat
    BY <2>1, EntryOf, LengthsAreNat
  <2>3. ~roots[c].is_validated
    BY Zenon DEF end_voting, is_valid
  <2> QED BY <2>1, <2>2, <2>3
<1>1. ~Out(c)
  BY <1>0, Zenon DEF ConsentInv
<1>2. externalStatus[c] = "None" /\ c \notin adminReviews /\ c \notin externalRef
  BY <1>0, Zenon DEF ReviewInv, InReview
<1>3. UNCHANGED <<config, answered, agreed>> /\ pendingApproval' = pendingApproval \ {c}
  BY Zenon DEF VotingUnchanged, end_voting
<1>4. ~SameRoots => Approved(c)
  BY EndVoting DEF Ended
<1>5. SameTx(Validated(c)) /\ Validated(c)[c].is_validated
  <2>1. /\ Validated(c) \in Seq(Root) /\ Len(Validated(c)) = Len(roots)
        /\ \A d \in 1..Len(roots) : d # c => Validated(c)[d] = roots[d]
        /\ Validated(c)[c] = [roots[c] EXCEPT !.is_validated = TRUE]
    BY <1>0, ValidatedRoot
  <2>2. /\ Validated(c)[c].tx_id = roots[c].tx_id
        /\ Validated(c)[c].is_finalised = roots[c].is_finalised
        /\ Validated(c)[c].is_validated = TRUE
    BY <1>0, <2>1 DEF Root
  <2>3. \A d \in 1..Len(roots) : /\ Validated(c)[d].tx_id = roots[d].tx_id
                                 /\ Validated(c)[d].is_finalised = roots[d].is_finalised
    BY <2>1, <2>2, Zenon
  <2> QED BY <2>1, <2>2, <2>3 DEF SameTx
<1>6. /\ \/ process_accepted_root(c, Validated(c)) /\ UNCHANGED extVars /\ ~config.external
         \/ roots' = Validated(c) /\ UNCHANGED outVars /\ UNCHANGED extVars
         \/ /\ roots' = Validated(c) /\ UNCHANGED outVars
            /\ submit_root_for_external_validation(c) /\ config.external
            /\ roots[c].hash # "empty"
  BY Zenon DEF end_voting
<1>7. Approved(c)
  <2>1. roots'[c].is_validated
    <3>1. CASE process_accepted_root(c, Validated(c))
      <4>1. Validated(c) \in Seq(Root) /\ c \in 1..Len(Validated(c))
        BY <1>0, <1>5, Zenon DEF SameTx
      <4>2. Unmoved(Validated(c)[c], roots'[c])
        BY <3>1, <4>1, HandOver, Zenon DEF TypeInv
      <4> QED BY <1>5, <4>2, Zenon DEF Unmoved
    <3> QED BY <1>5, <1>6, <3>1, Zenon
  <2>2. ~SameRoots
    BY <1>0, <2>1, Zenon DEF SameRoots, Unmoved
  <2> QED BY <1>4, <2>2
<1>8. /\ Len(roots') = Len(roots) /\ roots'[c].is_validated /\ roots'[c].hash = roots[c].hash
      /\ \A d \in 1..Len(roots) : d # c => Unmoved(roots[d], roots'[d]) /\ votes'[d] = votes[d]
  BY <1>7 DEF Approved, Ballots, TypeInv
<1>9. is_approved(votes'[c]) /\ agreed \subseteq agreed' /\ config' = config
      /\ pendingApproval' \subseteq pendingApproval \ {c}
  BY <1>3
<1>10. UNCHANGED extVars => ReviewMoved(c) /\ externalStatus'[c] = "None"
  BY <1>2 DEF extVars, ReviewMoved
<1>11. UNCHANGED outVars => \A d : Out(d)' <=> Out(d)
  BY DEF outVars, Out, Sent, Anchored
<1>12. CASE process_accepted_root(c, Validated(c)) /\ UNCHANGED extVars /\ ~config.external
  <2>1. OutInv' /\ \A d \in Nat : Out(d)' => Out(d) \/ d = c
    BY <1>0, <1>1, <1>3, <1>5, <1>12, HandOverOnce
  <2>2. ConsentInv' /\ ReviewInv'
    BY <1>0, <1>8, <1>9, <1>10, <1>12, <2>1, OneDecided, Zenon
  <2> QED BY <2>1, <2>2
<1>13. ASSUME roots' = Validated(c), UNCHANGED outVars PROVE OutInv'
  BY <1>3, <1>5, <1>13, OutStays, Zenon
<1>14. CASE roots' = Validated(c) /\ UNCHANGED outVars /\ UNCHANGED extVars
  <2>2. ConsentInv' /\ ReviewInv'
    BY <1>0, <1>1, <1>8, <1>9, <1>10, <1>11, <1>14, OneDecided, Zenon
  <2> QED BY <1>13, <1>14, <2>2
<1>15. CASE /\ roots' = Validated(c) /\ UNCHANGED outVars
            /\ submit_root_for_external_validation(c) /\ config.external
            /\ roots[c].hash # "empty"
  <2>1. externalStatus' = [externalStatus EXCEPT ![c] = "ValidationInProgress"]
        /\ externalRef' = externalRef \cup {c} /\ adminReviews' = adminReviews
    BY <1>15, Zenon DEF submit_root_for_external_validation
  <2>2. "ValidationInProgress" \in ExternalStatuses
    BY DEF ExternalStatuses
  <2>3. /\ externalStatus'[c] = "ValidationInProgress"
        /\ \A d \in 1..Len(roots) : d # c => externalStatus'[d] = externalStatus[d]
    <3>1. Len(externalStatus) = Len(roots)
      BY DEF TypeInv
    <3> QED BY <1>0, <2>1, <2>2, <3>1, ReplaceEntry
  <2>4. ReviewMoved(c)
    BY <1>2, <2>1, <2>3 DEF ReviewMoved
  <2>5. ~Out(c)' /\ \A d \in Nat : Out(d)' => Out(d) \/ d = c
    BY <1>1, <1>11, <1>15, Zenon
  <2>6. ConsentInv' /\ ReviewInv'
    BY <1>0, <1>8, <1>9, <1>15, <2>4, <2>5, OneDecided, Zenon
  <2> QED BY <1>13, <1>15, <2>6, Zenon
<1> QED BY <1>6, <1>12, <1>14, <1>15, Zenon

AccountInv == TypeInv /\ OutInv /\ ConsentInv /\ ReviewInv

LEMMA AccountKept ==
    ASSUME AccountInv, [Next]_vars
    PROVE  (OutInv /\ ConsentInv /\ ReviewInv)'
<1> USE DEF AccountInv
<1>0. roots \in Seq(Root)
  BY DEF TypeInv
<1>1. ASSUME UNCHANGED <<config, agreed, answered>>, UNCHANGED rootVars, UNCHANGED outVars,
             UNCHANGED extVars
      PROVE  (OutInv /\ ConsentInv /\ ReviewInv)'
  <2>1. SameRoots /\ SameTx(roots')
    BY <1>0, <1>1, RootsStay, SameTxKept DEF rootVars
  <2>2. OutInv'
    BY <1>1, <2>1, OutStays
  <2>3. ConsentInv' /\ ReviewInv'
    BY <1>1, <2>1, NothingDecided DEF rootVars, outVars
  <2> QED BY <2>2, <2>3
<1>2. CASE UNCHANGED vars
  BY <1>1, <1>2, Zenon DEF vars, rootVars, outVars, extVars
<1>3. CASE Idle
  BY <1>1, <1>3 DEF Idle
<1>4. ASSUME NEW s, NEW v, set_periods(s, v)
      PROVE  (OutInv /\ ConsentInv /\ ReviewInv)'
  BY <1>1, <1>4 DEF set_periods, AdminUnchanged
<1>5. CASE Recorded
  BY <1>5, RecordedIsNew
<1>6. ASSUME NEW c \in pendingApproval, NEW vs \in Seq(Ballot), Voted(c, vs)
      PROVE  (OutInv /\ ConsentInv /\ ReviewInv)'
  <2>1. Ballots(c, vs) /\ VotingUnchanged /\ votes' = vs
    BY <1>6 DEF Voted
  <2>2. CASE end_voting(c, vs) /\ is_approved(vs[c])
    BY <2>1, <2>2, ApprovedOnce
  <2>3. ASSUME UNCHANGED roots, UNCHANGED outVars, UNCHANGED extVars,
               pendingApproval' \subseteq pendingApproval
        PROVE  (OutInv /\ ConsentInv /\ ReviewInv)'
    <3>1. SameRoots /\ SameTx(roots')
      BY <1>0, <2>3, RootsStay, SameTxKept
    <3>2. UNCHANGED <<config, answered, agreed>>
      BY <2>1 DEF VotingUnchanged
    <3>3. OutInv'
      BY <2>3, <3>1, <3>2, OutStays
    <3>4. ~roots[c].is_validated
      BY DEF ConsentInv
    <3>5. \A d \in 1..Len(roots) : roots[d].is_validated => votes'[d] = votes[d]
      BY <2>1, <3>4 DEF Ballots, TypeInv
    <3>6. ConsentInv' /\ ReviewInv'
      BY <2>3, <3>1, <3>2, <3>5, NothingDecided, Zenon DEF outVars
    <3> QED BY <3>3, <3>6
  <2>4. CASE end_voting(c, vs) /\ ~is_approved(vs[c])
    BY <2>3, <2>4, Zenon DEF end_voting
  <2>5. CASE UNCHANGED <<roots, pendingApproval>> /\ UNCHANGED outVars /\ UNCHANGED extVars
    BY <2>3, <2>5
  <2> QED BY <1>6, <2>2, <2>4, <2>5 DEF Voted
<1>7. ASSUME NEW c \in Counters,
             \/ \E accepted \in BOOLEAN : admin_resolve_challenge(c, accepted)
             \/ \E r \in {"Passed", "Failed", "Expired"}, fails \in BOOLEAN :
                   on_voting_completed(c, r, fails)
      PROVE  (OutInv /\ ConsentInv /\ ReviewInv)'
  BY <1>7, ReviewedOnce
<1>8. ASSUME NEW ok \in BOOLEAN, process_result(ok)
      PROVE  (OutInv /\ ConsentInv /\ ReviewInv)'
  <2>1. OutInv'
    BY <1>8, AnswerKeepsOut
  <2>2. SameRoots
    BY <1>8, ResultShape
  <2>3. UNCHANGED <<config, agreed, published, anchorRoots, votes, pendingApproval>>
        /\ UNCHANGED extVars
    BY <1>8 DEF process_result
  <2>4. ConsentInv' /\ ReviewInv'
    BY <2>2, <2>3, NothingDecided
  <2> QED BY <2>1, <2>4
<1>9. Shape \/ UNCHANGED vars
  BY StepShape
<1> QED BY <1>2, <1>3, <1>4, <1>5, <1>6, <1>7, <1>8, <1>9, Zenon DEF Shape

LEMMA AccountImplies ==
    ASSUME AccountInv
    PROVE  RootsAccountedFor
<1>0. /\ published \in Seq(Nat) /\ anchorRoots \in Seq(Nat) /\ answered \in Seq(BOOLEAN)
      /\ roots \in Seq(Root) /\ Counters = 1..Len(roots)
      /\ Len(published) \in Nat /\ Len(anchorRoots) \in Nat
  BY LenIsNat, LengthsAreNat DEF AccountInv, TypeInv, Counters
<1>1. LeavesOnceWithConsent
  <2> DEFINE n == Len(published)
             m == Len(anchorRoots)
             out == published \o anchorRoots
  <2>1. /\ DOMAIN out = 1..(n + m)
        /\ \A i \in 1..n : out[i] = published[i]
        /\ \A i \in (n + 1)..(n + m) : out[i] = anchorRoots[i - n]
    <3>1. out \in Seq(Nat) /\ Len(out) = n + m
      BY <1>0, Joined
    <3> QED BY <1>0, <3>1, Joined, LenIsNat
  <2>2. \A i \in 1..(n + m) : i \in 1..n \/ (i \in (n + 1)..(n + m) /\ i - n \in 1..m)
    BY <1>0
  <2> HIDE DEF out
  <2>3. ASSUME NEW i \in 1..(n + m), NEW j \in 1..(n + m), out[i] = out[j]
        PROVE  i = j
    <3>1. CASE i \in 1..n /\ j \in 1..n
      BY <2>1, <2>3, <3>1, Zenon DEF AccountInv, OutInv, Distinct
    <3>2. CASE i - n \in 1..m /\ j - n \in 1..m /\ i \in (n + 1)..(n + m) /\ j \in (n + 1)..(n + m)
      <4>1. anchorRoots[i - n] = anchorRoots[j - n]
        BY <2>1, <2>3, <3>2
      <4>2. i - n = j - n
        BY <3>2, <4>1 DEF AccountInv, OutInv, Distinct
      <4> QED BY <1>0, <4>2
    <3>3. CASE i \in 1..n /\ j - n \in 1..m /\ j \in (n + 1)..(n + m)
      BY <2>1, <2>3, <3>3 DEF AccountInv, OutInv, Distinct
    <3>4. CASE j \in 1..n /\ i - n \in 1..m /\ i \in (n + 1)..(n + m)
      BY <2>1, <2>3, <3>4 DEF AccountInv, OutInv, Distinct
    <3> QED BY <2>2, <3>1, <3>2, <3>3, <3>4
  <2>4. ASSUME NEW i \in 1..(n + m)
        PROVE  /\ roots[out[i]].is_validated /\ is_approved(votes[out[i]])
               /\ config.external => out[i] \in agreed
    <3>1. Out(out[i]) /\ out[i] \in Nat
      <4>1. CASE i \in 1..n
        BY <1>0, <2>1, <4>1, EntryOf, Zenon DEF Out, Sent
      <4>2. CASE i \in (n + 1)..(n + m) /\ i - n \in 1..m
        BY <1>0, <2>1, <4>2, EntryOf, Zenon DEF Out, Anchored
      <4> QED BY <2>2, <4>1, <4>2
    <3> QED BY <3>1 DEF AccountInv, ConsentInv
  <2> QED BY <2>1, <2>3, <2>4, Zenon DEF LeavesOnceWithConsent, out
<1>2. ReviewIsConsistent
  <2>1. externalRef \subseteq 1..Len(roots) /\ adminReviews \subseteq 1..Len(roots)
    BY DEF AccountInv, TypeInv
  <2>2. \A c \in 1..Len(roots) :
          /\ c \in adminReviews <=> externalStatus[c] = "PendingAdminReview"
          /\ c \in externalRef <=> externalStatus[c] # "None"
    BY DEF AccountInv, ReviewInv
  <2>3. \A c \in externalRef : config.external /\ roots[c].is_validated
                               /\ roots[c].hash # "empty" /\ c \notin pendingApproval
    BY <2>1, <2>2, UnderReview, Zenon DEF AccountInv
  <2> QED BY <1>0, <2>1, <2>2, <2>3, Zenon DEF ReviewIsConsistent
<1>3. FinalAsTheBridgeSaid
  <2>0. DOMAIN answered = 1..Len(answered)
    BY <1>0, LenIsNat
  <2>1. ASSUME NEW c \in 1..Len(roots)
        PROVE  roots[c].is_finalised <=> Confirmed(roots[c].tx_id)
    BY DEF AccountInv, OutInv, FinalWhenConfirmed
  <2>2. ASSUME NEW c \in 1..Len(roots), roots[c].tx_id # NoTx
        PROVE  /\ published[roots[c].tx_id] = c
               /\ <<roots[c].tx_id, c>> \in txIdToRoot <=> ~Confirmed(roots[c].tx_id)
    <3>1. c \in Nat
      BY <1>0
    <3>2. roots[c].tx_id \in 1..Len(published) /\ published[roots[c].tx_id] = c
      BY <2>2 DEF AccountInv, OutInv, SentByTx
    <3>3. roots[c].tx_id \in Nat
      BY <1>0, <3>2
    <3>4. \A i \in Nat : <<i, c>> \in txIdToRoot <=>
             i \in 1..Len(published) /\ published[i] = c /\ ~Confirmed(i)
      BY <3>1 DEF AccountInv, OutInv, OpenByTx
    <3> QED BY <3>2, <3>3, <3>4
  <2>3. \A tx : Confirmed(tx) <=> tx \in DOMAIN answered /\ answered[tx]
    BY <2>0 DEF Confirmed
  <2> HIDE DEF Confirmed
  <2> QED BY <1>0, <2>1, <2>2, <2>3, Zenon DEF FinalAsTheBridgeSaid
<1> QED BY <1>1, <1>2, <1>3 DEF RootsAccountedFor

\* process_accepted_root, the watchtowers' hook, the admin and process_result, for
\* every number of authors, roots and blocks: a root leaves the chain at most once
\* and with the consent its configuration asks for, the three maps of the external
\* validation agree, and a root is final exactly when the bridge confirmed it.
THEOREM RootsAreAccountedFor == Spec => []RootsAccountedFor
<1>1. ASSUME Init PROVE OutInv /\ ConsentInv /\ ReviewInv
  <2>1. /\ Len(roots) = 0 /\ Len(published) = 0 /\ Len(anchorRoots) = 0 /\ Len(answered) = 0
        /\ pendingApproval = {} /\ txIdToRoot = {}
    BY <1>1, EmptyList DEF Init
  <2>2. \A c : ~Out(c)
    BY <2>1 DEF Out, Sent, Anchored
  <2>3. OutInv
    <3>0. \A i : i \notin 1..0
      OBVIOUS
    <3>1. Distinct /\ SentByTx /\ FinalWhenConfirmed
      <4>1. Distinct
        BY <2>1, <3>0 DEF Distinct
      <4>2. SentByTx
        BY <2>1, <3>0 DEF SentByTx
      <4>3. FinalWhenConfirmed
        BY <2>1, <3>0 DEF FinalWhenConfirmed
      <4> QED BY <4>1, <4>2, <4>3
    <3>2. OpenByTx
      BY <2>1 DEF OpenByTx
    <3> QED BY <3>1, <3>2 DEF OutInv
  <2>4. ConsentInv /\ ReviewInv
    BY <2>1, <2>2 DEF ConsentInv, ReviewInv
  <2> QED BY <2>3, <2>4
<1>2. ASSUME TypeInv, OutInv /\ ConsentInv /\ ReviewInv, [Next]_vars
      PROVE  (OutInv /\ ConsentInv /\ ReviewInv)'
  BY <1>2, AccountKept DEF AccountInv
<1>3. ASSUME TypeInv, OutInv /\ ConsentInv /\ ReviewInv PROVE RootsAccountedFor
  BY <1>3, AccountImplies DEF AccountInv
<1> QED BY <1>1, <1>2, <1>3, TypesHold, PTL DEF Spec
================================================================================
