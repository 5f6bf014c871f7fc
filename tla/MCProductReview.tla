---------------------------- MODULE MCProductReview ----------------------------
(* Instances of ProductReview for TLC: one ambiguous row, two categories. *)
EXTENDS ProductReview, TLC

CONSTANTS r1, cA, cB

BothCandidates == [r \in {r1} |-> {cA, cB}]

\* Workers are alike, and so are clients.
Symmetry == Permutations(Workers) \cup Permutations(Clients)

\* Bound: one disturbance in a behaviour. A cancellation is one, and a deletion,
\* each with the old status it may write back; the job is cancelled once.
Cancelling == {c \in Clients : req[c].pc \in {"mark", "cancel"}}
Deleting   == {c \in Clients : req[c].pc = "delete"}

OneDisturbance ==
    /\ Cardinality({flag \in Disturbances \ {"revived"} : history[flag]}
                   \cup {x \in {"cancelled"} : marker \/ Cancelling # {}}
                   \cup {x \in {"deleted"} : status.del \/ Deleting # {}}) <= 1
    /\ marker => \A c \in Cancelling : req[c].pc = "cancel" /\ Cancelling = {c}

=============================================================================
