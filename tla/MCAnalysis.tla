------------------------------ MODULE MCAnalysis ------------------------------
(* Instances of AnalysisScheduler for TLC. *)
EXTENDS AnalysisScheduler, TLC

CONSTANTS r1, r2, w1, s1, s2, p1, p2

Everything == {"request", "launch", "release", "end", "fail", "cancel", "queue", "due",
               "sweep", "offline", "heartbeat", "ack", "clock", "lose", "silent"}

\* One actor at a time, without managers and agents that fall silent (a PC after a failed cleanup is
\* no more available than one marked OFFLINE).
Sequential == Everything \ {"cancel", "silent", "offline"}

\* Overlapping launches, check-in timers, cancellations and queue jobs.
Overlap == {"request", "launch", "queue", "due", "cancel"}

ReservationSymmetry == Permutations(Reservations)

SessionSymmetry == Permutations(Sessions)
=============================================================================
