----------------------------- MODULE ServiceLine -----------------------------
(***************************************************************************)
(* What pallet-watchtower promises to the pallets that submit internal     *)
(* proposals: one is voted on at a time, the others wait their turn, and   *)
(* the turn comes in the order of submission.                              *)
(***************************************************************************)
EXTENDS Naturals, Sequences

CONSTANT nobody

VARIABLES
    current,   \* the proposal being voted on, or nobody
    waiting,   \* the proposals in line
    served     \* the proposals that were decided

Init == current = nobody /\ waiting = <<>> /\ served = {}

\* A newcomer is served at once when nobody is, and otherwise joins the line.
Arrive ==
    /\ IF current = nobody
       THEN current' # nobody /\ current' \notin served /\ waiting' = waiting
       ELSE /\ current' = current
            /\ Len(waiting') = Len(waiting) + 1
            /\ \A i \in 1..Len(waiting) : waiting'[i] = waiting[i]
    /\ served' = served

\* The one being served leaves, and the first in line takes its place.
Leave ==
    /\ current # nobody
    /\ served' = served \cup {current}
    /\ IF waiting = <<>>
       THEN current' = nobody /\ waiting' = waiting
       ELSE current' = Head(waiting) /\ waiting' = Tail(waiting)

Next == Arrive \/ Leave

Spec == Init /\ [][Next]_<<current, waiting, served>>
==============================================================================
