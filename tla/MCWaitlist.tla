------------------------------ MODULE MCWaitlist ------------------------------
(* A queue of depth one for two users who can have two rows between them,    *)
(* two slots, and two requests or sweeps in progress.                        *)
EXTENDS Waitlist, TLC

CONSTANTS u1, u2, e1, e2, s1, s2, w1, w2

MCUsers == {u1, u2}
TwoEntries == {e1, e2}
MCSlots == {s1, s2}
MCWorkers == {w1, w2}

(* Users, rows, slots and workers are interchangeable. *)
Symmetry == Permutations(MCUsers) \cup Permutations(TwoEntries)
            \cup Permutations(MCSlots) \cup Permutations(MCWorkers)
===============================================================================
