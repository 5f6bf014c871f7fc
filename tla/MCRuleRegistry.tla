---------------------------- MODULE MCRuleRegistry ----------------------------
(* Instances of RuleRegistry for TLC. *)
EXTENDS RuleRegistry, TLC

CONSTANTS x, y, z

\* Two documents of one version, and one of another.
MCVersionOf == [c \in Contents |-> IF c = z THEN "v2" ELSE "v1"]

\* The threads are alike.
ThreadsAlike == Permutations(Threads)

=============================================================================
