------------------------------- MODULE MCRuns -------------------------------
(* Durable runs on small plans. *)
EXTENDS Runs, TLC

\* Two processes; or one, with the deadline and an altered artifact.
MCWorlds ==
    {[drivers |-> Drivers, tampered |-> 0, expires |-> FALSE]}
        \cup {[drivers |-> {d}, tampered |-> 1, expires |-> TRUE] : d \in Drivers}

Symmetry == Permutations(Drivers)
=============================================================================
