----------------------------- MODULE BridgePromise -----------------------------
(***************************************************************************)
(* What pallet-eth-bridge promises to the pallets that publish through it: *)
(* requests are taken in, and each is answered once, in order of arrival.  *)
(* One step may answer several requests: those at the head of the queue    *)
(* that cannot be set up are answered together with the one before them.   *)
(***************************************************************************)
EXTENDS Naturals, Sequences

VARIABLES
    requests,  \* requests taken in, in order of arrival
    answers    \* answers given, each naming its request

Init == requests = <<>> /\ answers = <<>>

Extends(new, old) ==
    /\ Len(new) > Len(old)
    /\ \A i \in 1..Len(old) : new[i] = old[i]

Accept ==
    /\ Extends(requests', requests)
    /\ Len(requests') = Len(requests) + 1
    /\ UNCHANGED answers

Answer ==
    /\ Extends(answers', answers)
    /\ Len(answers') <= Len(requests)
    /\ \A i \in (Len(answers) + 1)..Len(answers') :
          answers'[i].request = requests[i]
    /\ UNCHANGED requests

Next == Accept \/ Answer

Spec == Init /\ [][Next]_<<requests, answers>>
=============================================================================
