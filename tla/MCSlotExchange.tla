--------------------------- MODULE MCSlotExchange ---------------------------
(* Three bookings of three users, one of them with two slots, two requests,  *)
(* and two workers.                                                          *)
EXTENDS SlotExchange, TLC

CONSTANTS alice, bob, carol, r1, r2, w1, w2

MCBookings == {1, 2, 3}
MCSlots == {1, 2, 3, 4}
MCRequests == {r1, r2}
MCWorkers == {w1, w2}

MCUserOf == <<alice, bob, carol>>
MCOwner == <<1, 2, 3, 1>>

(* Requests and workers are interchangeable. *)
Symmetry == Permutations(MCRequests) \cup Permutations(MCWorkers)
=============================================================================
