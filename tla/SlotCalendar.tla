---------------------------- MODULE SlotCalendar ----------------------------
(***************************************************************************)
(* What the equipment calendar promises, whatever requests interleave:     *)
(* every slot has at most one owner, and a booking gets its slots once, in *)
(* one step and only from free ones, keeps exactly those slots (or moves   *)
(* to other free ones in one step), and gives all of them back together,   *)
(* after which it never owns a slot again.                                 *)
(* The owners are bookings; Free, the owner of no slot, is not one.        *)
(*                                                                         *)
(* BookingLifecycle implements this specification; see its Calendar.       *)
(***************************************************************************)

CONSTANTS
  Slots,      \* daily slots of the equipment
  Bookings,   \* booking rows that may ever be created
  Free        \* the owner of a slot nobody holds

VARIABLES
  owner,   \* [Slots -> Bookings \cup {Free}]
  stage    \* [Bookings -> {"fresh", "holding", "released"}]

vars == <<owner, stage>>

FreeSlots == {s \in Slots : owner[s] = Free}

Owned(b) == {s \in Slots : owner[s] = b}

Init ==
  /\ owner = [s \in Slots |-> Free]
  /\ stage = [b \in Bookings |-> "fresh"]

(* A new booking takes a set of free slots. *)
Claim(b) ==
  /\ stage[b] = "fresh"
  /\ \E S \in (SUBSET FreeSlots) \ {{}} :
       owner' = [s \in Slots |-> IF s \in S THEN b ELSE owner[s]]
  /\ stage' = [stage EXCEPT ![b] = "holding"]

(* A booking gives back every slot it holds, for good. *)
Release(b) ==
  /\ stage[b] = "holding"
  /\ owner' = [s \in Slots |-> IF owner[s] = b THEN Free ELSE owner[s]]
  /\ stage' = [stage EXCEPT ![b] = "released"]

(* A booking exchanges its slots for free ones (its own count as free). *)
Move(b) ==
  /\ stage[b] = "holding"
  /\ \E S \in (SUBSET (FreeSlots \cup Owned(b))) \ {{}} :
       owner' = [s \in Slots |-> IF s \in S THEN b
                                 ELSE IF owner[s] = b THEN Free ELSE owner[s]]
  /\ UNCHANGED stage

Next == \E b \in Bookings : Claim(b) \/ Release(b) \/ Move(b)

Spec == Init /\ [][Next]_vars
=============================================================================
