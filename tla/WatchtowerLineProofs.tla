------------------------- MODULE WatchtowerLineProofs -------------------------
(***************************************************************************)
(* Theorems about the line of internal proposals of pallet-watchtower, for *)
(* every set of references and nodes and every length of the ring.         *)
(***************************************************************************)
EXTENDS SummaryWatchtower, TLAPS

LEMMA EntriesOf ==
    ASSUME NEW S, NEW s \in Seq(S)
    PROVE  Len(s) \in Nat /\ s \in [1..Len(s) -> S]
OBVIOUS

LEMMA TailOf ==
    ASSUME NEW S, NEW s \in Seq(S), s # <<>>
    PROVE  /\ Tail(s) \in Seq(S) /\ Len(Tail(s)) = Len(s) - 1
           /\ \A i \in 1..Len(Tail(s)) : Tail(s)[i] = s[i + 1]
OBVIOUS

\* Two positions less than a turn apart have different slots (queue.rs, slot).
LEMMA SlotsDiffer ==
    ASSUME NEW i \in Nat, NEW j \in Nat, i < j, j < i + Cap
    PROVE  slot(i) # slot(j)
<1> USE WatchtowerAssumption DEF slot
<1> DEFINE q == i \div Cap  p == j \div Cap
<1>1. /\ q \in Int /\ p \in Int
      /\ i = Cap * q + (i % Cap) /\ j = Cap * p + (j % Cap)
  OBVIOUS
<1>2. SUFFICES ASSUME i % Cap = j % Cap PROVE FALSE
  OBVIOUS
<1>3. i % Cap \in Int
  OBVIOUS
<1>4. j - i = Cap * (p - q)
  BY <1>1, <1>2, <1>3
<1>5. CASE p - q <= 0
  <2>1. Cap * (p - q) <= 0
    BY <1>1, <1>5
  <2> QED BY <1>4, <2>1
<1>6. CASE p - q >= 1
  <2>1. Cap * (p - q) >= Cap
    BY <1>1, <1>6
  <2> QED BY <1>4, <2>1
<1> QED BY <1>1, <1>5, <1>6

LEMMA SlotInRing ==
    ASSUME NEW i \in Nat
    PROVE  slot(i) \in 0..(Cap - 1)
BY WatchtowerAssumption DEF slot

-----------------------------------------------------------------------------
\* What a step does to the line and to the results on record: it admits a
\* proposal with a new reference, it closes an open one, or it does neither.
lineVars == <<status, activeInternal, queue, head, tail, externalRef, completed>>

Admits(r) ==
    LET waits == r \in InternalRefs /\ activeInternal # NoRef
    IN /\ r \notin externalRef /\ externalRef' = externalRef \cup {r}
       /\ status' = [status EXCEPT ![r] = IF waits THEN "Queued" ELSE "Active"]
       /\ IF waits THEN enqueue(r) ELSE UNCHANGED <<queue, tail>>
       /\ activeInternal' = IF r \in InternalRefs /\ ~waits THEN r ELSE activeInternal
       /\ UNCHANGED <<head, completed>>

Closes(r, result) ==
    status[r] = "Active" /\ CloseVoting(r, result) /\ UNCHANGED <<tail, externalRef>>

LineShape ==
    \/ \E r \in Refs : Admits(r)
    \/ \E r \in Refs, result \in Outcomes : Closes(r, result)
    \/ UNCHANGED lineVars

\* The ring holds the waiting proposals in order, each once, and nothing else.
RingInv ==
    /\ head \in Nat /\ tail \in Nat /\ head <= tail /\ tail <= head + Cap
    /\ queue \in [0..(Cap - 1) -> InternalRefs \cup {NoRef}]
    /\ \A i \in head..(tail - 1) : queue[slot(i)] \in InternalRefs
    /\ \A i, j \in head..(tail - 1) : queue[slot(i)] = queue[slot(j)] => i = j
    /\ \A s \in 0..(Cap - 1) : queue[s] # NoRef => \E i \in head..(tail - 1) : slot(i) = s

Statuses == {"Unknown", "Queued", "Active"} \cup Outcomes

\* The inductive invariant: the ring, the statuses and the active proposal agree.
LineInv ==
    /\ RingInv
    /\ status \in [Refs -> Statuses]
    /\ externalRef \subseteq Refs
    /\ activeInternal \in InternalRefs \cup {NoRef}
    /\ \A r \in Refs : status[r] = "Unknown" <=> r \notin externalRef
    /\ \A r \in InternalRefs : status[r] = "Active" <=> activeInternal = r
    /\ \A r \in InternalRefs :
          status[r] = "Queued" <=> \E i \in head..(tail - 1) : queue[slot(i)] = r
    /\ activeInternal = NoRef => head = tail

-----------------------------------------------------------------------------
\* The outcome of a vote or an expiry is one of the three (vote.rs).
LEMMA ResultIsOutcome ==
    /\ \A t : threshold_achieved(t) # NoRef => threshold_achieved(t) \in Outcomes
    /\ \A r : get_vote_result_on_expiry(r) \in Outcomes
BY DEF threshold_achieved, get_vote_result_on_expiry, Outcomes

\* Every way to vote (process_vote).
LEMMA VoteShape ==
    ASSUME NEW who, NEW r \in Refs, NEW f, process_vote(who, r, f)
    PROVE  LineShape
<1>1. status[r] = "Active" /\ UNCHANGED <<tail, externalRef>>
  BY DEF process_vote
<1>2. ASSUME NEW result \in Outcomes, finalise_voting(r, result) PROVE LineShape
  BY <1>1, <1>2 DEF LineShape, Closes, finalise_voting
<1>3. \/ finalise_expired_voting(r)
      \/ \E t : threshold_achieved(t) # NoRef /\ finalise_voting(r, threshold_achieved(t))
      \/ UNCHANGED <<status, activeInternal, queue, head, completed>>
  BY DEF process_vote
<1> QED BY <1>1, <1>2, <1>3, ResultIsOutcome
           DEF finalise_expired_voting, LineShape, lineVars

LEMMA SubmitShape ==
    ASSUME NEW r \in Refs, NEW d, add_proposal(r, d)
    PROVE  LineShape
<1>1. Admits(r)
  BY DEF add_proposal, Admits
<1> QED BY <1>1 DEF LineShape

LEMMA IdleShape ==
    ASSUME LineInv, NEW spare, on_idle(spare)
    PROVE  LineShape
<1>1. UNCHANGED <<tail, externalRef>>
  BY DEF on_idle
<1>2. CASE expiredActive
  <2>1. CloseVoting(activeInternal, "Expired")
    BY <1>2 DEF on_idle
  <2>2. activeInternal \in InternalRefs /\ status[activeInternal] = "Active"
    BY <1>2 DEF expiredActive, LineInv
  <2> QED BY <1>1, <2>1, <2>2 DEF LineShape, Closes, Refs, Outcomes
<1>3. CASE ~expiredActive
  BY <1>1, <1>3 DEF on_idle, LineShape, lineVars
<1> QED BY <1>2, <1>3

\* Workers vote on roots only (offchain_worker, process_new_proposal).
WorkersInv ==
    /\ rootInfo \in RootRefs \cup {NoRef}
    /\ pool \subseteq [node : Nodes, ref : RootRefs, in_favor : BOOLEAN]

LEMMA WorkersVoteOnRoots == Spec => []WorkersInv
<1>1. Init => WorkersInv
  BY DEF Init, SwInit, WorkersInv
<1>2. ASSUME WorkersInv, [Next]_vars PROVE WorkersInv'
  <2>1. CASE WtStep
    <3>1. rootInfo' \in RootRefs \cup {NoRef}
      BY <1>2, <2>1 DEF WtStep, Hooks, process_new_proposal, on_voting_completed, WorkersInv
    <3>2. pool' \subseteq pool
      BY <2>1 DEF WtStep, Included
    <3> QED BY <1>2, <3>1, <3>2 DEF WorkersInv
  <2>2. ASSUME NEW n \in Nodes, offchain_worker(n) PROVE WorkersInv'
    <3>1. rootInfo \in RootRefs /\ rootInfo' = rootInfo
      BY <1>2, <2>2 DEF offchain_worker, WorkersInv
    <3>2. pool' = pool \cup {[node |-> n, ref |-> rootInfo, in_favor |-> validate_root(rootInfo)]}
      BY <2>2 DEF offchain_worker, submit_vote
    <3>3. validate_root(rootInfo) \in BOOLEAN
      BY DEF validate_root
    <3> QED BY <1>2, <3>1, <3>2, <3>3 DEF WorkersInv
  <2>3. CASE SwNewBlock \/ UNCHANGED vars
    BY <1>2, <2>3 DEF SwNewBlock, vars, WorkersInv
  <2> QED BY <1>2, <2>1, <2>2, <2>3 DEF Next
<1> QED BY <1>1, <1>2, PTL DEF Spec

\* Every step has one of the three shapes.
LEMMA StepShape ==
    ASSUME LineInv, WorkersInv, [Next]_vars
    PROVE  LineShape
<1> USE DEF Refs
<1>1. CASE Submit
  BY <1>1, SubmitShape DEF Submit, submit_external_proposal,
     signed_submit_external_proposal, submit_proposal
<1>2. CASE OwnersVote
  BY <1>2, VoteShape DEF OwnersVote, vote, signed_vote
<1>3. CASE Finalise
  <2>1. PICK r \in Refs : finalise_proposal(r)
    BY <1>3 DEF Finalise
  <2>2. Closes(r, get_vote_result_on_expiry(r))
    BY <2>1 DEF finalise_proposal, finalise_expired_voting, finalise_voting, Closes
  <2> QED BY <2>2, ResultIsOutcome DEF LineShape
<1>4. CASE Idle
  BY <1>4, IdleShape DEF Idle
<1>5. CASE Administer
  BY <1>5 DEF Administer, NodesChange, set_admin_config, LineShape, lineVars
<1>6. ASSUME NEW v \in pool, Included(v) PROVE LineShape
  <2>1. process_vote(v.node, v.ref, v.in_favor)
    BY <1>6 DEF Included, unsigned_vote
  <2>2. v.ref \in Refs
    BY SummaryWatchtowerAssumption DEF WorkersInv
  <2> QED BY <2>1, <2>2, VoteShape
<1>7. CASE \E n \in Nodes : offchain_worker(n)
  BY <1>7 DEF offchain_worker, wtVars, LineShape, lineVars
<1>8. CASE SwNewBlock
  BY <1>8 DEF SwNewBlock, WtNewBlock, LineShape, lineVars
<1>9. CASE UNCHANGED vars
  BY <1>9 DEF vars, LineShape, lineVars
<1> QED BY <1>1, <1>2, <1>3, <1>4, <1>5, <1>6, <1>7, <1>8, <1>9 DEF Next, WtStep

-----------------------------------------------------------------------------
\* enqueue puts a newcomer at the end and moves nothing (queue.rs).
LEMMA Enqueued ==
    ASSUME RingInv, NEW r \in InternalRefs, enqueue(r), head' = head
    PROVE  /\ tail' = tail + 1 /\ tail' <= head + Cap
           /\ queue' \in [0..(Cap - 1) -> InternalRefs \cup {NoRef}]
           /\ queue'[slot(tail)] = r
           /\ \A i \in head..(tail - 1) : queue'[slot(i)] = queue[slot(i)]
           /\ \A s \in 0..(Cap - 1) : s # slot(tail) => queue'[s] = queue[s]
<1> USE WatchtowerAssumption
<1>1. slot(tail) \in 0..(Cap - 1)
  BY SlotInRing DEF RingInv
<1>2. tail' = tail + 1 /\ tail < head + Cap /\ queue' = [queue EXCEPT ![slot(tail)] = r]
  BY DEF enqueue, is_full, len, RingInv
<1>3. ASSUME NEW i \in head..(tail - 1) PROVE slot(i) # slot(tail) /\ slot(i) \in 0..(Cap - 1)
  <2>1. i \in Nat /\ tail \in Nat /\ i < tail /\ tail < i + Cap
    BY <1>2 DEF RingInv
  <2> QED BY <2>1, SlotsDiffer, SlotInRing
<1> QED BY <1>1, <1>2, <1>3 DEF RingInv

LEMMA EnqueueKeepsRing ==
    ASSUME RingInv, NEW r \in InternalRefs, enqueue(r), head' = head,
           \A i \in head..(tail - 1) : queue[slot(i)] # r
    PROVE  RingInv'
<1> USE WatchtowerAssumption
<1>1. /\ tail' = tail + 1 /\ tail' <= head + Cap
      /\ queue' \in [0..(Cap - 1) -> InternalRefs \cup {NoRef}]
      /\ queue'[slot(tail)] = r
      /\ \A i \in head..(tail - 1) : queue'[slot(i)] = queue[slot(i)]
      /\ \A s \in 0..(Cap - 1) : s # slot(tail) => queue'[s] = queue[s]
  BY Enqueued
<1>2. head \in Nat /\ tail \in Nat /\ head <= tail
  BY DEF RingInv
<1>3. \A i \in head..tail : i \in head..(tail - 1) \/ i = tail
  BY <1>2
<1>4. tail' - 1 = tail
  BY <1>1, <1>2
<1>5. \A i \in head..tail : queue'[slot(i)] \in InternalRefs
  BY <1>1, <1>3 DEF RingInv
<1>6. \A i, j \in head..tail : queue'[slot(i)] = queue'[slot(j)] => i = j
  BY <1>1, <1>3 DEF RingInv
<1>7. ASSUME NEW s \in 0..(Cap - 1), queue'[s] # NoRef
      PROVE  \E i \in head..tail : slot(i) = s
  <2>1. CASE s = slot(tail)
    BY <1>2, <2>1
  <2>2. CASE s # slot(tail)
    <3>1. PICK i \in head..(tail - 1) : slot(i) = s
      BY <1>1, <1>7, <2>2 DEF RingInv
    <3> QED BY <1>2, <3>1
  <2> QED BY <2>1, <2>2
<1> QED BY <1>1, <1>2, <1>4, <1>5, <1>6, <1>7 DEF RingInv, slot

\* dequeue takes the first in line and moves nothing else (queue.rs).
LEMMA Dequeued ==
    ASSUME RingInv, dequeue
    PROVE  IF head = tail
           THEN dequeued = NoRef /\ UNCHANGED <<queue, head>>
           ELSE /\ head < tail /\ dequeued = queue[slot(head)] /\ dequeued \in InternalRefs
                /\ head' = head + 1
                /\ queue' \in [0..(Cap - 1) -> InternalRefs \cup {NoRef}]
                /\ queue'[slot(head)] = NoRef
                /\ \A i \in (head + 1)..(tail - 1) : queue'[slot(i)] = queue[slot(i)]
                /\ \A s \in 0..(Cap - 1) : s # slot(head) => queue'[s] = queue[s]
<1> USE WatchtowerAssumption
<1>0. head \in Nat /\ tail \in Nat /\ head <= tail
  BY DEF RingInv
<1>1. CASE head = tail
  BY <1>0, <1>1 DEF dequeue, dequeued, len
<1>2. CASE head # tail
  <2>1. head < tail /\ head \in head..(tail - 1) /\ dequeued = queue[slot(head)]
    BY <1>0, <1>2 DEF dequeued, len
  <2>2. dequeued \in InternalRefs /\ dequeued # NoRef
    BY <2>1 DEF RingInv, Refs
  <2>3. head' = head + 1 /\ queue' = [queue EXCEPT ![slot(head)] = NoRef]
    BY <2>2 DEF dequeue
  <2>4. slot(head) \in 0..(Cap - 1)
    BY <1>0, SlotInRing
  <2>5. ASSUME NEW i \in (head + 1)..(tail - 1)
        PROVE  slot(i) # slot(head) /\ slot(i) \in 0..(Cap - 1)
    <3>1. i \in Nat /\ head < i /\ i < head + Cap
      BY <1>0 DEF RingInv
    <3> QED BY <1>0, <3>1, SlotsDiffer, SlotInRing
  <2> QED BY <1>2, <2>1, <2>2, <2>3, <2>4, <2>5 DEF RingInv
<1> QED BY <1>1, <1>2

LEMMA DequeueKeepsRing ==
    ASSUME RingInv, dequeue, tail' = tail
    PROVE  RingInv'
<1> USE WatchtowerAssumption
<1>0. head \in Nat /\ tail \in Nat /\ head <= tail
  BY DEF RingInv
<1>1. CASE head = tail
  <2>1. UNCHANGED <<queue, head, tail>>
    BY <1>1, Dequeued
  <2> QED BY <2>1 DEF RingInv, slot
<1>2. CASE head # tail
  <2>1. /\ head < tail /\ head' = head + 1
        /\ queue' \in [0..(Cap - 1) -> InternalRefs \cup {NoRef}]
        /\ queue'[slot(head)] = NoRef
        /\ \A i \in (head + 1)..(tail - 1) : queue'[slot(i)] = queue[slot(i)]
        /\ \A s \in 0..(Cap - 1) : s # slot(head) => queue'[s] = queue[s]
    BY <1>2, Dequeued
  <2>2. \A i \in (head + 1)..(tail - 1) : i \in head..(tail - 1)
    BY <1>0
  <2>3. /\ \A i \in (head + 1)..(tail - 1) : queue'[slot(i)] \in InternalRefs
        /\ \A i, j \in (head + 1)..(tail - 1) : queue'[slot(i)] = queue'[slot(j)] => i = j
    BY <2>1, <2>2 DEF RingInv
  <2>4. ASSUME NEW s \in 0..(Cap - 1), queue'[s] # NoRef
        PROVE  \E i \in (head + 1)..(tail - 1) : slot(i) = s
    <3>1. s # slot(head)
      BY <2>1, <2>4
    <3>2. PICK i \in head..(tail - 1) : slot(i) = s
      BY <2>1, <2>4, <3>1 DEF RingInv
    <3>3. i \in (head + 1)..(tail - 1)
      BY <1>0, <3>1, <3>2
    <3> QED BY <3>2, <3>3
  <2>5. head' \in Nat /\ head' <= tail /\ tail <= head' + Cap
    BY <1>0, <2>1 DEF RingInv
  <2> QED BY <1>0, <2>1, <2>3, <2>4, <2>5 DEF RingInv, slot
<1> QED BY <1>1, <1>2

-----------------------------------------------------------------------------
\* A step that closes the active internal proposal and opens the first in line.
LEMMA CloseInternal ==
    ASSUME LineInv, NEW r \in InternalRefs, NEW result \in Outcomes, Closes(r, result)
    PROVE  /\ activeInternal = r /\ activeInternal' = dequeued /\ dequeue
           /\ dequeued # NoRef => /\ dequeued \in InternalRefs /\ dequeued # r
                                  /\ status[dequeued] = "Queued" /\ status'[dequeued] = "Active"
           /\ status'[r] = result
           /\ \A s \in Refs : s # r /\ s # dequeued => status'[s] = status[s]
           /\ status' \in [Refs -> Statuses]
<1> USE WatchtowerAssumption DEF Refs
<1>1. /\ activeInternal = r /\ activeInternal' = dequeued /\ dequeue /\ status[r] = "Active"
      /\ status' = [s \in Refs |-> CASE s = dequeued -> "Active"
                                     [] s = r /\ s # dequeued -> result
                                     [] OTHER -> status[s]]
  BY DEF Closes, CloseVoting, LineInv
<1>2. ASSUME dequeued # NoRef
      PROVE  dequeued \in InternalRefs /\ status[dequeued] = "Queued"
  <2>1. /\ head \in Nat /\ tail \in Nat /\ head < tail
        /\ dequeued = queue[slot(head)] /\ dequeued \in InternalRefs
    BY <1>1, <1>2, Dequeued DEF LineInv, RingInv
  <2>2. head \in head..(tail - 1)
    BY <2>1
  <2> QED BY <2>1, <2>2 DEF LineInv
<1>3. dequeued # r
  BY <1>1, <1>2
<1> QED BY <1>1, <1>2, <1>3 DEF LineInv, Statuses

LEMMA CloseKeepsLine ==
    ASSUME LineInv, NEW r \in Refs, NEW result \in Outcomes, Closes(r, result)
    PROVE  LineInv'
<1> USE WatchtowerAssumption DEF Refs
<1>0. externalRef' = externalRef /\ tail' = tail /\ status[r] = "Active"
  BY DEF Closes
<1>1. CASE r \notin InternalRefs
  <2>1. /\ status' = [status EXCEPT ![r] = result] /\ UNCHANGED <<activeInternal, queue, head>>
    BY <1>1 DEF Closes, CloseVoting
  <2>2. RingInv'
    BY <1>0, <2>1 DEF LineInv, RingInv, slot
  <2>3. status' \in [Refs -> Statuses] /\ \A s \in InternalRefs : status'[s] = status[s]
    BY <1>1, <2>1 DEF LineInv, Statuses
  <2>4. \A s \in Refs : status'[s] = "Unknown" <=> s \notin externalRef
    BY <1>0, <2>1 DEF LineInv, Outcomes
  <2> QED BY <1>0, <2>1, <2>2, <2>3, <2>4 DEF LineInv, slot
<1>2. CASE r \in InternalRefs
  <2>1. /\ activeInternal = r /\ activeInternal' = dequeued /\ dequeue
        /\ dequeued # NoRef => /\ dequeued \in InternalRefs /\ dequeued # r
                               /\ status[dequeued] = "Queued" /\ status'[dequeued] = "Active"
        /\ status'[r] = result
        /\ \A s \in Refs : s # r /\ s # dequeued => status'[s] = status[s]
        /\ status' \in [Refs -> Statuses]
    BY <1>2, CloseInternal
  <2>2. RingInv'
    BY <1>0, <2>1, DequeueKeepsRing DEF LineInv
  <2>3. \A s \in Refs : status'[s] = "Unknown" <=> s \notin externalRef
    BY <1>0, <2>1 DEF LineInv, Outcomes
  <2>4. \A s \in InternalRefs : status'[s] = "Active" <=> activeInternal' = s
    BY <1>0, <2>1 DEF LineInv, Outcomes
  <2>5. head \in Nat /\ tail \in Nat /\ head <= tail
    BY DEF LineInv, RingInv
  <2>6. CASE head = tail
    <3>1. dequeued = NoRef /\ UNCHANGED <<queue, head>>
      BY <2>1, <2>6, Dequeued DEF LineInv
    <3>2. \A s \in InternalRefs : status'[s] = "Queued" <=> status[s] = "Queued"
      BY <1>0, <2>1, <3>1 DEF Outcomes
    <3> QED BY <1>0, <2>1, <2>2, <2>3, <2>4, <2>6, <3>1, <3>2 DEF LineInv, slot
  <2>7. CASE head # tail
    <3>1. /\ head < tail /\ dequeued = queue[slot(head)] /\ dequeued \in InternalRefs
          /\ head' = head + 1
          /\ \A i \in (head + 1)..(tail - 1) : queue'[slot(i)] = queue[slot(i)]
      BY <2>1, <2>7, Dequeued DEF LineInv
    <3>2. ASSUME NEW s \in InternalRefs
          PROVE  status'[s] = "Queued" <=> \E i \in (head + 1)..(tail - 1) : queue'[slot(i)] = s
      <4>1. status'[s] = "Queued" <=> status[s] = "Queued" /\ s # dequeued
        BY <1>0, <2>1, <3>1 DEF Outcomes
      <4>2. ASSUME NEW i \in head..(tail - 1), queue[slot(i)] = s, s # dequeued
            PROVE  i \in (head + 1)..(tail - 1) /\ queue'[slot(i)] = s
        BY <2>5, <3>1, <4>2
      <4>3. ASSUME NEW i \in (head + 1)..(tail - 1), queue'[slot(i)] = s
            PROVE  status[s] = "Queued" /\ s # dequeued
        <5>1. i \in head..(tail - 1) /\ head \in head..(tail - 1) /\ i # head
          BY <2>5
        <5> QED BY <3>1, <4>3, <5>1 DEF LineInv, RingInv
      <4>4. status[s] = "Queued" <=> \E i \in head..(tail - 1) : queue[slot(i)] = s
        BY DEF LineInv
      <4> QED BY <4>1, <4>2, <4>3, <4>4
    <3>3. dequeued # NoRef
      BY <3>1
    <3> QED BY <1>0, <2>1, <2>2, <2>3, <2>4, <3>1, <3>2, <3>3 DEF LineInv, slot
  <2> QED BY <2>6, <2>7
<1> QED BY <1>1, <1>2

LEMMA AdmitKeepsLine ==
    ASSUME LineInv, NEW r \in Refs, Admits(r)
    PROVE  LineInv'
<1> USE WatchtowerAssumption DEF Refs
<1> DEFINE waits == r \in InternalRefs /\ activeInternal # NoRef
<1>0. /\ externalRef' = externalRef \cup {r} /\ head' = head
      /\ status' = [status EXCEPT ![r] = IF waits THEN "Queued" ELSE "Active"]
      /\ status[r] = "Unknown"
  BY DEF Admits, LineInv
<1>1. /\ status' \in [Refs -> Statuses]
      /\ \A s \in Refs : status'[s] = "Unknown" <=> s \notin externalRef'
      /\ \A s \in Refs : s # r => status'[s] = status[s]
  BY <1>0 DEF LineInv, Statuses
<1>2. CASE waits
  <2>1. /\ enqueue(r) /\ activeInternal' = activeInternal /\ activeInternal # r
        /\ status'[r] = "Queued"
    BY <1>0, <1>2 DEF Admits, LineInv
  <2>2. \A i \in head..(tail - 1) : queue[slot(i)] # r
    BY <1>0, <1>2 DEF LineInv
  <2>3. RingInv'
    BY <1>0, <1>2, <2>1, <2>2, EnqueueKeepsRing DEF LineInv
  <2>4. /\ tail' = tail + 1 /\ queue'[slot(tail)] = r
        /\ \A i \in head..(tail - 1) : queue'[slot(i)] = queue[slot(i)]
    BY <1>0, <1>2, <2>1, Enqueued DEF LineInv
  <2>5. head \in Nat /\ tail \in Nat /\ head <= tail /\ tail' - 1 = tail
    BY <2>4 DEF LineInv, RingInv
  <2>6. ASSUME NEW s \in InternalRefs
        PROVE  status'[s] = "Queued" <=> \E i \in head..tail : queue'[slot(i)] = s
    <3>1. CASE s = r
      BY <2>1, <2>4, <2>5, <3>1
    <3>2. CASE s # r
      <4>1. status'[s] = "Queued" <=> \E i \in head..(tail - 1) : queue[slot(i)] = s
        BY <1>1, <3>2 DEF LineInv
      <4>2. \A i : i \in head..tail <=> i \in head..(tail - 1) \/ i = tail
        BY <2>5
      <4> QED BY <2>4, <3>2, <4>1, <4>2
    <3> QED BY <3>1, <3>2
  <2>7. \A s \in InternalRefs : status'[s] = "Active" <=> activeInternal' = s
    BY <1>1, <2>1 DEF LineInv
  <2>8. \A s \in InternalRefs :
           status'[s] = "Queued" <=> \E i \in head'..(tail' - 1) : queue'[slot(i)] = s
    BY <1>0, <2>5, <2>6
  <2>9. externalRef' \subseteq Refs /\ activeInternal' \in InternalRefs /\ activeInternal' # NoRef
    BY <1>0, <1>2, <2>1 DEF LineInv
  <2> QED BY <1>1, <2>3, <2>7, <2>8, <2>9 DEF LineInv, slot
<1>3. CASE ~waits
  <2>1. UNCHANGED <<queue, tail>> /\ status'[r] = "Active"
        /\ activeInternal' = IF r \in InternalRefs THEN r ELSE activeInternal
    BY <1>0, <1>3 DEF Admits, LineInv
  <2>2. RingInv'
    BY <1>0, <2>1 DEF LineInv, RingInv, slot
  <2>3. \A s \in InternalRefs : status'[s] = "Queued" <=> status[s] = "Queued"
    BY <1>0, <1>1, <2>1
  <2>4. \A s \in InternalRefs : status'[s] = "Active" <=> activeInternal' = s
    BY <1>1, <1>3, <2>1 DEF LineInv
  <2>5. activeInternal' \in InternalRefs \cup {NoRef}
        /\ (activeInternal' = NoRef => activeInternal = NoRef)
    BY <2>1 DEF LineInv
  <2>6. \A s \in InternalRefs :
           status'[s] = "Queued" <=> \E i \in head..(tail - 1) : queue[slot(i)] = s
    BY <2>3 DEF LineInv
  <2>7. externalRef' \subseteq Refs
    BY <1>0 DEF LineInv
  <2> QED BY <1>0, <1>1, <2>1, <2>2, <2>4, <2>5, <2>6, <2>7 DEF LineInv, slot
<1> QED BY <1>2, <1>3

-----------------------------------------------------------------------------
LEMMA LineStaysConsistent == Spec => []LineInv
<1>1. Init => LineInv
  <2> SUFFICES ASSUME Init PROVE LineInv
    OBVIOUS
  <2>1. /\ head = 0 /\ tail = 0 /\ queue = [s \in 0..(Cap - 1) |-> NoRef]
        /\ status = [r \in Refs |-> "Unknown"] /\ externalRef = {} /\ activeInternal = NoRef
    BY DEF Init, WtInit
  <2>2. \A i : i \notin head..(tail - 1)
    BY <2>1
  <2>3. RingInv
    BY <2>1, <2>2, WatchtowerAssumption DEF RingInv
  <2> QED BY <2>1, <2>2, <2>3, WatchtowerAssumption DEF LineInv, Statuses, Refs
<1>2. ASSUME LineInv, WorkersInv, [Next]_vars PROVE LineInv'
  <2>1. CASE UNCHANGED lineVars
    BY <1>2, <2>1 DEF lineVars, LineInv, RingInv, slot
  <2> QED BY <1>2, <2>1, StepShape, AdmitKeepsLine, CloseKeepsLine DEF LineShape
<1> QED BY <1>1, <1>2, WorkersVoteOnRoots, PTL DEF Spec

\* Between two steps the active proposal, the statuses and the ring agree
\* (add_proposal, finalise_voting, queue.rs).
THEOREM LineConsistent == Spec => []LineIsConsistent
<1>1. ASSUME LineInv PROVE LineIsConsistent
  <2>0. head \in Nat /\ tail \in Nat /\ head <= tail /\ len = tail - head
    BY <1>1 DEF LineInv, RingInv, len
  <2>1. /\ DOMAIN Waiting = 1..(tail - head)
        /\ \A i \in 1..(tail - head) :
              /\ head + i - 1 \in head..(tail - 1)
              /\ Waiting[i] = queue[slot(head + i - 1)]
    BY <2>0 DEF Waiting
  <2>2. \A k \in head..(tail - 1) :
           k - head + 1 \in 1..(tail - head) /\ head + (k - head + 1) - 1 = k
    BY <2>0
  <2>3. ASSUME NEW r \in InternalRefs
        PROVE  status[r] = "Queued" <=> \E i \in DOMAIN Waiting : Waiting[i] = r
    <3>1. ASSUME NEW k \in head..(tail - 1), queue[slot(k)] = r
          PROVE  \E i \in DOMAIN Waiting : Waiting[i] = r
      <4>1. k - head + 1 \in DOMAIN Waiting /\ Waiting[k - head + 1] = r
        BY <2>1, <2>2, <3>1
      <4> QED BY <4>1
    <3> QED BY <1>1, <2>1, <3>1 DEF LineInv
  <2>4. ASSUME NEW i \in DOMAIN Waiting, NEW j \in DOMAIN Waiting, Waiting[i] = Waiting[j]
        PROVE  i = j
    <3>1. head + i - 1 = head + j - 1
      BY <1>1, <2>1, <2>4 DEF LineInv, RingInv
    <3> QED BY <2>0, <2>1, <3>1
  <2>5. ASSUME NEW s \in 0..(Cap - 1), queue[s] # NoRef
        PROVE  \E i \in DOMAIN Waiting : slot(head + i - 1) = s
    <3>1. PICK k \in head..(tail - 1) : slot(k) = s
      BY <1>1, <2>5 DEF LineInv, RingInv
    <3>2. k - head + 1 \in DOMAIN Waiting /\ slot(head + (k - head + 1) - 1) = s
      BY <2>1, <2>2, <3>1
    <3> QED BY <3>2
  <2> QED BY <1>1, <2>0, <2>3, <2>4, <2>5 DEF LineIsConsistent, LineInv
<1> QED BY <1>1, LineStaysConsistent, PTL

-----------------------------------------------------------------------------
CompletedType == completed \in [Refs -> Seq(Outcomes)]

LEMMA OutcomesOnRecord == Spec => [](ToldOnce /\ CompletedType)
<1>1. Init => ToldOnce /\ CompletedType
  BY DEF Init, WtInit, ToldOnce, Outcomes, CompletedType
<1>2. ASSUME ToldOnce, CompletedType, LineInv, WorkersInv, [Next]_vars
      PROVE  ToldOnce' /\ CompletedType'
  <2>1. ASSUME NEW r \in Refs, Admits(r) PROVE ToldOnce' /\ CompletedType'
    <3>1. /\ completed' = completed /\ status[r] = "Unknown"
          /\ status'[r] \in {"Queued", "Active"}
          /\ \A s \in Refs : s # r => status'[s] = status[s]
      BY <1>2, <2>1 DEF Admits, LineInv
    <3> QED BY <1>2, <3>1 DEF ToldOnce, Outcomes, CompletedType
  <2>2. ASSUME NEW r \in Refs, NEW result \in Outcomes, Closes(r, result)
        PROVE  ToldOnce' /\ CompletedType'
    <3>1. completed' = [completed EXCEPT ![r] = Append(completed[r], result)]
          /\ status[r] = "Active"
      BY <2>2 DEF Closes, CloseVoting
    <3>2. completed[r] = <<>>
      BY <1>2, <3>1 DEF ToldOnce, Outcomes
    <3>3. completed'[r] = <<result>> /\ CompletedType'
          /\ \A s \in Refs : s # r => completed'[s] = completed[s]
      BY <1>2, <3>1, <3>2 DEF CompletedType
    <3>4. /\ status'[r] = result
          /\ \A s \in Refs : s # r => \/ status'[s] = status[s]
                                      \/ status[s] \notin Outcomes /\ status'[s] \notin Outcomes
      <4>1. CASE r \in InternalRefs
        <5>1. /\ status'[r] = result
              /\ dequeued # NoRef => status[dequeued] = "Queued" /\ status'[dequeued] = "Active"
              /\ \A s \in Refs : s # r /\ s # dequeued => status'[s] = status[s]
          BY <1>2, <2>2, <4>1, CloseInternal
        <5>2. \A s \in Refs : s # NoRef
          BY WatchtowerAssumption
        <5> QED BY <5>1, <5>2 DEF Outcomes
      <4>2. CASE r \notin InternalRefs
        BY <1>2, <2>2, <4>2 DEF Closes, CloseVoting, LineInv
      <4> QED BY <4>1, <4>2
    <3> QED BY <1>2, <3>3, <3>4 DEF ToldOnce
  <2>3. CASE UNCHANGED lineVars
    BY <1>2, <2>3 DEF lineVars, ToldOnce, CompletedType
  <2> QED BY <1>2, <2>1, <2>2, <2>3, StepShape DEF LineShape
<1> QED BY <1>1, <1>2, LineStaysConsistent, WorkersVoteOnRoots, PTL DEF Spec

\* Whatever finalises a proposal, its outcome is told once and stays on record
\* (finalise_voting, from vote, finalise_proposal and on_idle).
THEOREM OutcomeToldOnce == Spec => []ToldOnce
BY OutcomesOnRecord, PTL

-----------------------------------------------------------------------------
\* The waiting line as a sequence.
LEMMA WaitingIsSeq ==
    ASSUME RingInv
    PROVE  /\ Waiting \in Seq(InternalRefs) /\ Len(Waiting) = tail - head
           /\ tail - head \in Nat
           /\ \A i \in 1..(tail - head) : Waiting[i] = queue[slot(head + i - 1)]
<1>1. head \in Nat /\ tail \in Nat /\ head <= tail /\ len = tail - head /\ tail - head \in Nat
  BY DEF RingInv, len
<1>2. \A i \in 1..(tail - head) : head + i - 1 \in head..(tail - 1)
  BY <1>1
<1>3. \A i \in 1..(tail - head) : queue[slot(head + i - 1)] \in InternalRefs
  BY <1>2 DEF RingInv
<1>4. Waiting = [i \in 1..(tail - head) |-> queue[slot(head + i - 1)]]
  BY <1>1 DEF Waiting
<1> QED BY <1>1, <1>3, <1>4

Served == {r \in InternalRefs : status[r] \in Outcomes}

\* Admission of an internal proposal is the arrival of a newcomer.
LEMMA AdmitArrives ==
    ASSUME LineInv, LineInv', NEW r \in Refs, Admits(r)
    PROVE  Line!Arrive \/ UNCHANGED <<activeInternal, Waiting, Served>>
<1> USE WatchtowerAssumption DEF Refs
<1>0. /\ RingInv /\ RingInv' /\ head' = head /\ head \in Nat /\ tail \in Nat /\ status[r] = "Unknown"
      /\ \A s \in Refs : s # r => status'[s] = status[s]
      /\ status'[r] \in {"Queued", "Active"}
  BY DEF LineInv, RingInv, Admits
<1>1. Served' = Served
  BY <1>0 DEF Served, Outcomes
<1>2. CASE r \in InternalRefs /\ activeInternal # NoRef
  <2>1. enqueue(r) /\ activeInternal' = activeInternal
    BY <1>2 DEF Admits
  <2>2. /\ tail' = tail + 1
        /\ \A i \in head..(tail - 1) : queue'[slot(i)] = queue[slot(i)]
    BY <1>0, <1>2, <2>1, Enqueued
  <2>3. Len(Waiting') = Len(Waiting) + 1
    <3>1. head <= tail
      BY <1>0 DEF RingInv
    <3>2. len' = tail + 1 - head /\ len' \in Nat
      BY <1>0, <2>2, <3>1 DEF len
    <3>3. Waiting' = [i \in 1..len' |-> queue'[slot(head + i - 1)]]
      BY <1>0 DEF Waiting, slot
    <3>4. Len(Waiting') = len'
      BY <3>2, <3>3
    <3>5. Len(Waiting) = tail - head
      BY <1>0, WaitingIsSeq
    <3> QED BY <1>0, <3>2, <3>4, <3>5
  <2>4. ASSUME NEW i \in 1..Len(Waiting) PROVE Waiting'[i] = Waiting[i]
    <3>1. i \in 1..(tail - head) /\ i \in 1..(tail' - head')
          /\ head + i - 1 \in head..(tail - 1)
      BY <1>0, <2>2, WaitingIsSeq
    <3>2. Waiting[i] = queue[slot(head + i - 1)]
      BY <1>0, <3>1, WaitingIsSeq
    <3>3. len' = tail' - head'
      <4>1. head <= tail
        BY <1>0 DEF RingInv
      <4> QED BY <1>0, <2>2, <4>1 DEF len
    <3>4. Waiting'[i] = queue'[slot(head + i - 1)]
      BY <1>0, <3>1, <3>3 DEF Waiting, slot
    <3> QED BY <2>2, <3>1, <3>2, <3>4
  <2> QED BY <1>1, <1>2, <2>1, <2>3, <2>4 DEF Line!Arrive, Served
<1>3. CASE ~(r \in InternalRefs /\ activeInternal # NoRef)
  <2>1. /\ UNCHANGED <<queue, tail>>
        /\ activeInternal' = IF r \in InternalRefs THEN r ELSE activeInternal
    BY <1>3 DEF Admits
  <2>2. Waiting' = Waiting
    BY <1>0, <2>1 DEF Waiting, len, slot
  <2>3. r \notin Served /\ r # NoRef
    BY <1>0 DEF Served, Outcomes
  <2> QED BY <1>1, <1>3, <2>1, <2>2, <2>3 DEF Line!Arrive, Served
<1> QED BY <1>2, <1>3

\* The end of the active proposal is the departure of the one being served.
LEMMA CloseLeaves ==
    ASSUME LineInv, LineInv', NEW r \in Refs, NEW result \in Outcomes, Closes(r, result)
    PROVE  Line!Leave \/ UNCHANGED <<activeInternal, Waiting, Served>>
<1> USE WatchtowerAssumption DEF Refs
<1>0. /\ RingInv /\ RingInv' /\ head \in Nat /\ tail \in Nat /\ head <= tail
      /\ tail' = tail /\ status[r] = "Active"
  BY DEF LineInv, RingInv, Closes
<1>1. CASE r \notin InternalRefs
  <2>1. status' = [status EXCEPT ![r] = result] /\ UNCHANGED <<activeInternal, queue, head>>
    BY <1>1 DEF Closes, CloseVoting
  <2>2. Served' = Served
    BY <1>1, <2>1 DEF Served, LineInv
  <2>3. Waiting' = Waiting
    BY <1>0, <2>1 DEF Waiting, len, slot
  <2> QED BY <2>1, <2>2, <2>3
<1>2. CASE r \in InternalRefs
  <2>1. /\ activeInternal = r /\ activeInternal' = dequeued /\ dequeue
        /\ dequeued # NoRef => status[dequeued] = "Queued" /\ status'[dequeued] = "Active"
        /\ status'[r] = result
        /\ \A s \in Refs : s # r /\ s # dequeued => status'[s] = status[s]
    BY <1>2, CloseInternal
  <2>2. Served' = Served \cup {r}
    BY <1>2, <2>1 DEF Served, Outcomes
  <2>3. activeInternal # NoRef
    BY <1>2, <2>1
  <2>4. CASE head = tail
    <3>1. dequeued = NoRef /\ UNCHANGED <<queue, head>>
      BY <1>0, <2>1, <2>4, Dequeued
    <3>2. Waiting' = Waiting /\ Waiting = <<>>
      BY <1>0, <2>4, <3>1, WaitingIsSeq DEF Waiting, len, slot
    <3> QED BY <2>1, <2>2, <2>3, <3>1, <3>2 DEF Line!Leave, Served
  <2>5. CASE head # tail
    <3>1. /\ head < tail /\ dequeued = queue[slot(head)] /\ head' = head + 1
          /\ \A i \in (head + 1)..(tail - 1) : queue'[slot(i)] = queue[slot(i)]
      BY <1>0, <2>1, <2>5, Dequeued
    <3>2. /\ Waiting \in Seq(InternalRefs) /\ Len(Waiting) = tail - head /\ Waiting # <<>>
          /\ \A i \in 1..(tail - head) : Waiting[i] = queue[slot(head + i - 1)]
      BY <1>0, <3>1, WaitingIsSeq
    <3>3. Head(Waiting) = dequeued
      <4>1. Head(Waiting) = Waiting[1] /\ 1 \in 1..(tail - head) /\ head + 1 - 1 = head
        BY <1>0, <3>1, <3>2
      <4> QED BY <3>1, <3>2, <4>1
    <3>4. Waiting' = [i \in 1..(tail - head - 1) |-> queue'[slot(head + i)]]
      <4>1. len' = tail - head - 1
        BY <1>0, <3>1 DEF len
      <4>2. \A i \in 1..(tail - head - 1) : head' + i - 1 = head + i
        BY <1>0, <3>1
      <4> QED BY <4>1, <4>2 DEF Waiting, slot
    <3>5. /\ Tail(Waiting) \in [1..(tail - head - 1) -> InternalRefs]
          /\ \A i \in 1..(tail - head - 1) : Tail(Waiting)[i] = Waiting[i + 1]
      <4>1. /\ Tail(Waiting) \in Seq(InternalRefs) /\ Len(Tail(Waiting)) = tail - head - 1
            /\ \A i \in 1..(tail - head - 1) : Tail(Waiting)[i] = Waiting[i + 1]
        BY <1>0, <3>2, TailOf
      <4>2. Tail(Waiting) \in [1..Len(Tail(Waiting)) -> InternalRefs]
        BY <4>1, EntriesOf
      <4> QED BY <4>1, <4>2
    <3>6. ASSUME NEW i \in 1..(tail - head - 1)
          PROVE  queue'[slot(head + i)] = Waiting[i + 1]
      <4>1. /\ i + 1 \in 1..(tail - head) /\ head + (i + 1) - 1 = head + i
            /\ head + i \in (head + 1)..(tail - 1)
        BY <1>0
      <4> QED BY <3>1, <3>2, <4>1
    <3>7. Waiting' = Tail(Waiting)
      <4>1. \A i \in 1..(tail - head - 1) : Waiting'[i] = Tail(Waiting)[i]
        BY <3>4, <3>5, <3>6
      <4>2. \A i \in 1..(tail - head - 1) : queue'[slot(head + i)] \in InternalRefs
        <5>1. \A i \in 1..(tail - head - 1) : head + i \in head'..(tail' - 1)
          BY <1>0, <3>1
        <5> QED BY <1>0, <5>1 DEF RingInv, slot
      <4>3. Waiting' \in [1..(tail - head - 1) -> InternalRefs]
        BY <3>4, <4>2
      <4> DEFINE D == 1..(tail - head - 1)
      <4>4. /\ Waiting' \in [D -> InternalRefs] /\ Tail(Waiting) \in [D -> InternalRefs]
            /\ \A i \in D : Waiting'[i] = Tail(Waiting)[i]
        BY <3>5, <4>1, <4>3
      <4> HIDE DEF D
      <4>5. ASSUME NEW f \in [D -> InternalRefs], NEW g \in [D -> InternalRefs],
                   \A i \in D : f[i] = g[i]
            PROVE  f = g
        BY <4>5
      <4> QED BY <4>4, <4>5, Zenon
    <3> QED BY <2>1, <2>2, <2>3, <3>2, <3>3, <3>7 DEF Line!Leave, Served
  <2> QED BY <2>4, <2>5
<1> QED BY <1>1, <1>2

\* Internal proposals are voted on one at a time, in the order in which they were
\* submitted, however long the ring and whatever ends them: the pallet implements
\* ServiceLine.
THEOREM ImplementsServiceLine == Spec => ServedInOrder
<1>1. Init => Line!Init
  <2> SUFFICES ASSUME Init PROVE Line!Init
    OBVIOUS
  <2>1. head = 0 /\ tail = 0 /\ activeInternal = NoRef /\ status = [r \in Refs |-> "Unknown"]
    BY DEF Init, WtInit
  <2>2. Waiting = <<>>
    BY <2>1 DEF Waiting, len
  <2> QED BY <2>1, <2>2 DEF Line!Init, Outcomes, Refs
<1>2. ASSUME LineInv, LineInv', WorkersInv, [Next]_vars
      PROVE  [Line!Next]_<<activeInternal, Waiting, Served>>
  <2>1. CASE UNCHANGED lineVars
    BY <2>1 DEF lineVars, Waiting, len, slot, Served
  <2> QED BY <1>2, <2>1, StepShape, AdmitArrives, CloseLeaves DEF LineShape, Line!Next
<1> QED BY <1>1, <1>2, LineStaysConsistent, WorkersVoteOnRoots, PTL
        DEF Spec, ServedInOrder, Line!Spec, Served
================================================================================
