----------------------------- MODULE JobPromise -----------------------------
(***************************************************************************)
(* What the service promises about a comparison job to a client that polls *)
(* GET /api/v1/comparisons/{job_id}: its status moves forward along the    *)
(* phases of the run, a settled job stays settled, and only a settled job  *)
(* disappears.  The promise is void for a job of which two processes wrote *)
(* the status at the same time.                                            *)
(***************************************************************************)
CONSTANT Jobs

VARIABLES phase,  \* phase[j]: "none", "purged" or the status a client sees
          void    \* void[j]: the status of j was written by two at a time

\* The statuses that may follow a status.  A completed job can still become
\* a failed one, when the database rejects the final update.
Successors ==
    [queued        |-> {"validating", "cancelled", "failed"},
     validating    |-> {"comparing", "cancelled", "failed"},
     comparing     |-> {"rendering", "completed", "manual_review",
                        "cancelled", "failed"},
     rendering     |-> {"completed", "cancelled", "failed"},
     completed     |-> {"failed"},
     manual_review |-> {"failed"},
     cancelled     |-> {},
     failed        |-> {}]

Statuses == DOMAIN Successors
Settled  == {"completed", "manual_review", "cancelled", "failed"}

Init == phase = [j \in Jobs |-> "none"] /\ void = [j \in Jobs |-> FALSE]

Submit(j) ==
    /\ phase[j] = "none"
    /\ phase' = [phase EXCEPT ![j] = "queued"]
    /\ UNCHANGED void

Advance(j) ==
    /\ phase[j] \in Statuses
    /\ \E next \in Successors[phase[j]] : phase' = [phase EXCEPT ![j] = next]
    /\ UNCHANGED void

Purge(j) ==
    /\ phase[j] \in Settled
    /\ phase' = [phase EXCEPT ![j] = "purged"]
    /\ UNCHANGED void

\* Two processes wrote the status at the same time: now and from now on the
\* job may show any status and may be purged from any of them.
Race(j) ==
    /\ phase[j] \in Statuses
    /\ void' = [void EXCEPT ![j] = TRUE]
    /\ \E next \in Statuses \cup {"purged"} : phase' = [phase EXCEPT ![j] = next]

Next == \E j \in Jobs : Submit(j) \/ Advance(j) \/ Purge(j) \/ Race(j)

Spec == Init /\ [][Next]_<<phase, void>>

=============================================================================
